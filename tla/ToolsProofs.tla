----------------------------- MODULE ToolsProofs -----------------------------
(* What the verdicts of the tools can be relied on for, for deployments,   *)
(* lists, requests, answers and streams of any size.  Each tool has an     *)
(* inductive invariant of its own; at the end they are put together, for   *)
(* the specification that starts any one of the tools.                     *)
EXTENDS MCTools, SequenceTheorems, FiniteSetTheorems, WellFoundedInduction, TLAPS

-----------------------------------------------------------------------------
(* preflight.sh                                                            *)

USE RanksAssumption, ListsAssumption, NewlinesAssumption

Lines == Files \cup {Comment}

(* What a rank has been asked for when the script has come to step p.      *)
Asked(p) ==
  CASE p = "ssh"    -> {}
    [] p = "image"  -> {"ssh"}
    [] p = "nccl"   -> {"ssh", "image"}
    [] p = "mounts" -> {"ssh", "image", "nccl"}
    [] p \in {"list", "cat", "files", "extra"} -> {"ssh", "image", "nccl", "mounts"}
    [] p = "memory" -> {"ssh", "image", "nccl", "mounts", "extra"}
    [] OTHER -> {}

FilesChecked(r) ==
  "mounts" \in asked =>
    /\ r \notin unlisted => FirstFile(Readable(r)) \subseteq have[r]
    /\ r = 0 => Listed(Readable(r)) \subseteq have[r]

Place == pc = "exit" <=> rank = NumRanks

(* If nothing has failed so far: the ranks passed...                       *)
RanksBehind == ~fail => \A r \in Ranks : r < rank => Present(r) /\ FilesChecked(r)

(* ...the steps passed on this rank...                                     *)
StepsBehind == ~fail /\ pc # "exit" => Asked(pc) \cap (asked \cup {"ssh"}) \subseteq have[rank]

(* ...and the lines passed of its list.                                    *)
LinesBehind ==
  ~fail /\ "mounts" \in asked =>
    /\ 0 \notin unlisted
    /\ pc = "files" /\ rank \notin unlisted =>
         FirstFile(Readable(rank)) \subseteq have[rank] \cup FirstFile(input)
    /\ pc = "files" /\ rank = 0 => Listed(Readable(0)) \subseteq have[0] \cup Listed(input)
    /\ pc \in {"extra", "memory"} => FilesChecked(rank)

PreflightInv == TypeOK /\ Place /\ RanksBehind /\ StepsBehind /\ LinesBehind

-----------------------------------------------------------------------------
LEMMA ReadableType == ASSUME TypeOK, NEW r \in Ranks PROVE Readable(r) \in Seq(Lines)
<1>1. lines[r] \in Seq(Lines)
  BY DEF TypeOK, Lines
<1>2. CASE newline[r] \/ lines[r] = <<>>
  BY <1>1, <1>2 DEF Readable
<1>3. CASE ~ (newline[r] \/ lines[r] = <<>>)
  <2>1. Len(lines[r]) - 1 \in 0 .. Len(lines[r])
    BY <1>1, <1>3
  <2>2. \A i \in 1 .. Len(lines[r]) - 1 : lines[r][i] \in Lines
    BY <1>1, <2>1, ElementOfSeq
  <2>3. SubSeq(lines[r], 1, Len(lines[r]) - 1) \in Seq(Lines)
    BY <1>1, <2>1, <2>2, SubSeqProperties
  <2> QED BY <1>3, <2>3 DEF Readable
<1> QED BY <1>2, <1>3

(* A test that succeeds found its item; on the head one that fails did not *)
(* find it.                                                                *)
LEMMA YesMeansThere ==
  ASSUME TypeOK, NEW item, NEW yes \in BOOLEAN, Answers(item, yes)
  PROVE  /\ sshFailures' \in 0 .. MaxSshFailures
         /\ yes => item \in have[rank] /\ "ssh" \in have[rank]
         /\ rank = 0 /\ ~yes => item \notin have[rank] \/ "ssh" \notin have[rank]
<1>1. sshFailures \in 0 .. MaxSshFailures
  BY DEF TypeOK
<1>2. CASE yes = (item \in have[rank] /\ "ssh" \in have[rank]) /\ UNCHANGED sshFailures
  BY <1>1, <1>2
<1>3. CASE rank # 0 /\ sshFailures < MaxSshFailures /\ ~yes /\ sshFailures' = sshFailures + 1
  BY <1>1, <1>3
<1> QED BY <1>2, <1>3 DEF Answers

(* Past a comment a list has the same files, and past a file one fewer.    *)
LEMMA PastComment ==
  ASSUME NEW s \in Seq(Lines), s # <<>>, Head(s) = Comment
  PROVE  FirstFile(s) \subseteq FirstFile(Tail(s)) /\ Listed(s) \subseteq Listed(Tail(s))
<1>1. /\ DOMAIN s = 1 .. Len(s) /\ Len(s) \in Nat /\ s[1] = Comment
      /\ Tail(s) \in Seq(Lines) /\ Len(Tail(s)) = Len(s) - 1
      /\ \A i \in 1 .. Len(s) - 1 : Tail(s)[i] = s[i + 1]
  BY HeadTailProperties
<1>2. DOMAIN Tail(s) = 1 .. Len(s) - 1
  BY <1>1
<1>3. ASSUME NEW n \in DOMAIN s, s[n] # Comment
      PROVE  n - 1 \in DOMAIN Tail(s) /\ Tail(s)[n - 1] = s[n]
  <2>1. n - 1 \in 1 .. Len(s) - 1
    BY <1>1, <1>3
  <2> QED BY <1>1, <1>2, <2>1
<1>4. ASSUME NEW n \in DOMAIN s, s[n] # Comment, \A j \in 1 .. n - 1 : s[j] = Comment
      PROVE  s[n] \in FirstFile(Tail(s))
  <2>1. n - 1 \in DOMAIN Tail(s) /\ Tail(s)[n - 1] = s[n]
    BY <1>3, <1>4
  <2>2. ASSUME NEW j \in 1 .. n - 1 - 1 PROVE Tail(s)[j] = Comment
    <3>1. j + 1 \in 1 .. n - 1 /\ j \in 1 .. Len(s) - 1
      BY <1>1
    <3> QED BY <1>1, <1>4, <3>1
  <2> DEFINE m == n - 1
  <2>3. /\ m \in DOMAIN Tail(s) /\ Tail(s)[m] = s[n] /\ Tail(s)[m] # Comment
        /\ \A j \in 1 .. m - 1 : Tail(s)[j] = Comment
    BY <1>4, <2>1, <2>2
  <2> HIDE DEF m
  <2> QED BY <2>3 DEF FirstFile
<1>5. FirstFile(s) \subseteq FirstFile(Tail(s))
  BY <1>4 DEF FirstFile
<1>6. Listed(s) \subseteq Listed(Tail(s))
  BY <1>3 DEF Listed
<1> QED BY <1>5, <1>6

LEMMA PastFile ==
  ASSUME NEW s \in Seq(Lines), s # <<>>, Head(s) # Comment
  PROVE  /\ FirstFile(s) \subseteq {Head(s)}
         /\ Listed(s) \subseteq {Head(s)} \cup Listed(SubSeq(s, 2, Len(s)))
<1>1. /\ DOMAIN s = 1 .. Len(s) /\ Len(s) \in Nat /\ s[1] = Head(s)
      /\ Tail(s) \in Seq(Lines) /\ Len(Tail(s)) = Len(s) - 1
      /\ \A i \in 1 .. Len(s) - 1 : Tail(s)[i] = s[i + 1]
  BY HeadTailProperties
<1>2. DOMAIN Tail(s) = 1 .. Len(s) - 1
  BY <1>1
<1>3. SubSeq(s, 2, Len(s)) = Tail(s)
  BY TailIsSubSeq
<1>4. ASSUME NEW n \in DOMAIN s, n # 1 PROVE 1 \in 1 .. n - 1 /\ s[1] # Comment
  BY <1>1, <1>4
<1>5. FirstFile(s) \subseteq {Head(s)}
  BY <1>1, <1>4 DEF FirstFile
<1>6. ASSUME NEW n \in DOMAIN s, s[n] # Head(s) PROVE \E m \in DOMAIN Tail(s) : Tail(s)[m] = s[n]
  <2>1. n - 1 \in 1 .. Len(s) - 1 /\ n - 1 + 1 = n
    BY <1>1, <1>6
  <2> QED BY <1>1, <1>2, <2>1
<1>7. Listed(s) \subseteq {Head(s)} \cup Listed(Tail(s))
  BY <1>6 DEF Listed
<1> QED BY <1>3, <1>5, <1>7

LEMMA PastAll == FirstFile(<<>>) = {} /\ Listed(<<>>) = {}
BY DEF FirstFile, Listed

LEMMA RestType ==
  ASSUME NEW s \in Seq(Lines), s # <<>>, NEW eaten \in 0 .. Len(s) - 1
  PROVE  SubSeq(s, 2 + eaten, Len(s)) \in Seq(Lines)
<1>1. Len(s) \in Nat /\ 2 + eaten \in Int
  OBVIOUS
<1>2. \A i \in 2 + eaten .. Len(s) : s[i] \in Lines
  BY <1>1, ElementOfSeq
<1> QED BY <1>1, <1>2, SubSeqProperties

-----------------------------------------------------------------------------
LEMMA PreflightInit == Init => PreflightInv
<1> SUFFICES ASSUME Init PROVE PreflightInv
  OBVIOUS
<1> USE DEF Init
<1>1. TypeOK
  <2>1. have \in [Ranks -> SUBSET Items]
    OBVIOUS
  <2>2. newline \in [Ranks -> BOOLEAN]
    OBVIOUS
  <2>3. input \in Seq(Files \cup {Comment})
    OBVIOUS
  <2>4. /\ asked \subseteq Options /\ lines \in [Ranks -> MountLists]
        /\ rank \in 0 .. NumRanks /\ sshFailures \in 0 .. MaxSshFailures
        /\ pc = "ssh" /\ fail = FALSE /\ unlisted = {}
    OBVIOUS
  <2> HIDE DEF Init
  <2> QED BY <2>1, <2>2, <2>3, <2>4 DEF TypeOK
<1>2. Place
  BY DEF Place
<1>3. RanksBehind
  BY DEF RanksBehind, Ranks
<1>4. StepsBehind
  BY DEF StepsBehind, Asked
<1>5. LinesBehind
  BY DEF LinesBehind
<1> QED BY <1>1, <1>2, <1>3, <1>4, <1>5 DEF PreflightInv

(* What a step never undoes: the deployment, a failure, a rank left out.   *)
Onward ==
  /\ UNCHANGED world
  /\ ~fail' => ~fail
  /\ unlisted \subseteq unlisted'
  /\ unlisted' \subseteq unlisted \cup {rank}
  /\ \/ rank' = rank
     \/ rank' = rank + 1 /\ pc' = IF rank + 1 = NumRanks THEN "exit" ELSE "ssh"

LEMMA OnwardKeeps ==
  ASSUME UNCHANGED world, unlisted \subseteq unlisted', NEW r
  PROVE  /\ Present(r) => Present(r)'
         /\ Readable(r)' = Readable(r)
         /\ FilesChecked(r) => FilesChecked(r)'
BY DEF world, Present, Readable, FilesChecked

LEMMA StayOnRank ==
  ASSUME PreflightInv, Onward, rank' = rank
  PROVE  RanksBehind'
<1>1. ASSUME ~fail', NEW r \in Ranks, r < rank PROVE Present(r)' /\ FilesChecked(r)'
  <2>1. Present(r) /\ FilesChecked(r)
    BY <1>1 DEF Onward, PreflightInv, RanksBehind
  <2> QED BY <2>1, OnwardKeeps DEF Onward
<1> QED BY <1>1 DEF RanksBehind, PreflightInv, TypeOK

LEMMA ReachStep == PreflightInv /\ Reach => PreflightInv'
<1> SUFFICES ASSUME PreflightInv, Reach PROVE PreflightInv'
  OBVIOUS
<1> USE DEF PreflightInv
<1>1. PICK yes \in BOOLEAN :
        /\ Answers("ssh", yes)
        /\ IF yes THEN Goes("ssh", "image") /\ UNCHANGED fail ELSE NextRank /\ fail' = TRUE
  BY DEF Reach
<1>2. pc = "ssh" /\ UNCHANGED <<input, unlisted>>
  BY DEF Reach
<1>3. rank \in 0 .. NumRanks - 1
  BY <1>2 DEF TypeOK, Place
<1>4. CASE yes
  <2>1. pc' = "image" /\ UNCHANGED <<world, rank, fail>>
    BY <1>1, <1>4 DEF Goes
  <2>2. TypeOK'
    BY <1>1, <1>2, <2>1, YesMeansThere DEF TypeOK, world
  <2>3. Place'
    BY <1>2, <2>1 DEF Place
  <2>4. Onward
    BY <1>2, <2>1 DEF Onward
  <2>5. RanksBehind'
    BY <2>1, <2>4, StayOnRank
  <2>6. "ssh" \in have[rank]
    BY <1>1, <1>4, YesMeansThere
  <2>7. StepsBehind'
    BY <2>1, <2>6 DEF StepsBehind, Asked, world
  <2>8. LinesBehind'
    BY <1>2, <2>1 DEF LinesBehind, world
  <2> QED BY <2>2, <2>3, <2>5, <2>7, <2>8
<1>5. CASE ~yes
  <2>1. NextRank /\ fail' = TRUE
    BY <1>1, <1>5
  <2>2. TypeOK'
    BY <1>1, <1>2, <1>3, <2>1, YesMeansThere DEF TypeOK, world, NextRank
  <2>3. Place'
    BY <1>3, <2>1 DEF Place, NextRank
  <2>4. RanksBehind' /\ StepsBehind' /\ LinesBehind'
    BY <2>1 DEF RanksBehind, StepsBehind, LinesBehind
  <2> QED BY <2>2, <2>3, <2>4
<1> QED BY <1>4, <1>5

LEMMA CheckStep ==
  ASSUME PreflightInv, NEW item, NEW to, Check(item, to),
         <<item, to>> \in {<<"image", "nccl">>, <<"nccl", "mounts">>,
                           <<"mounts", "list">>, <<"extra", "memory">>}
  PROVE  PreflightInv'
<1> USE DEF PreflightInv
<1>1. pc = item /\ pc' = to /\ UNCHANGED <<world, rank, input, unlisted>>
  BY DEF Check, Goes
<1>2. PICK yes \in BOOLEAN :
        IF item \in asked THEN Answers(item, yes) /\ fail' = (fail \/ ~yes)
        ELSE UNCHANGED <<fail, sshFailures>>
  BY DEF Check
<1>3. item \in {"image", "nccl", "mounts", "extra"} /\ to \in {"nccl", "mounts", "list", "memory"}
  OBVIOUS
<1>4. Asked(to) = Asked(item) \cup {item}
  BY DEF Asked
<1>5. fail' \in BOOLEAN /\ (~fail' => ~fail)
  BY <1>2 DEF TypeOK
<1>6. sshFailures' \in 0 .. MaxSshFailures
  BY <1>2, YesMeansThere DEF TypeOK
<1>7. TypeOK'
  BY <1>1, <1>3, <1>5, <1>6 DEF TypeOK, world
<1>8. Place'
  BY <1>1, <1>3 DEF Place
<1>9. RanksBehind'
  BY <1>1, <1>5, StayOnRank DEF Onward
<1>10. ~fail' /\ item \in asked => item \in have[rank]
  BY <1>2, YesMeansThere
<1>11. StepsBehind'
  <2>1. ~fail' => Asked(item) \cap (asked \cup {"ssh"}) \subseteq have[rank]
    BY <1>1, <1>3, <1>5 DEF StepsBehind
  <2>2. item # "ssh"
    BY <1>3
  <2>3. ~fail' => Asked(to) \cap (asked \cup {"ssh"}) \subseteq have[rank]
    BY <1>4, <1>10, <2>1, <2>2
  <2>4. pc' = to /\ asked' = asked /\ have' = have /\ rank' = rank
    BY <1>1 DEF world
  <2>5. Asked(pc)' = Asked(to)
    BY <2>4 DEF Asked
  <2> QED BY <2>3, <2>4, <2>5 DEF StepsBehind
<1>12. LinesBehind'
  <2>1. to = "memory" => item = "extra"
    OBVIOUS
  <2>2. FilesChecked(rank) => FilesChecked(rank)'
    BY <1>1, OnwardKeeps DEF FilesChecked, world, Readable
  <2>3. UNCHANGED <<rank, unlisted, asked>>
    BY <1>1 DEF world
  <2> QED BY <1>1, <1>3, <1>5, <2>1, <2>2, <2>3 DEF LinesBehind
<1> QED BY <1>7, <1>8, <1>9, <1>11, <1>12

(* On the head a list that was found is found and read again.              *)
LEMMA HeadHasList ==
  ASSUME PreflightInv, NEW yes \in BOOLEAN, Answers("mounts", yes),
         pc \in {"list", "cat"}, "mounts" \in asked, ~fail, rank = 0
  PROVE  yes
<1>1. {"ssh", "mounts"} \subseteq have[rank]
  BY DEF PreflightInv, StepsBehind, Asked
<1> QED BY <1>1, YesMeansThere DEF PreflightInv

LEMMA TestListStep == PreflightInv /\ TestList => PreflightInv'
<1> SUFFICES ASSUME PreflightInv, TestList PROVE PreflightInv'
  OBVIOUS
<1> USE DEF PreflightInv
<1>1. /\ pc = "list" /\ pc' \in {"cat", "extra"}
      /\ UNCHANGED <<world, rank, input, fail>>
  BY DEF TestList, Goes
<1>2. PICK yes \in BOOLEAN :
        IF "mounts" \in asked
        THEN Answers("mounts", yes) /\ Unlists(~yes) /\ pc' = IF yes THEN "cat" ELSE "extra"
        ELSE pc' = "extra" /\ UNCHANGED <<sshFailures, unlisted>>
  BY DEF TestList, Goes
<1>3. rank \in Ranks
  BY <1>1 DEF TypeOK, Place, Ranks
<1>4. unlisted' \in {unlisted, unlisted \cup {rank}}
  BY <1>2 DEF Unlists
<1>5. sshFailures' \in 0 .. MaxSshFailures
  BY <1>2, YesMeansThere DEF TypeOK
<1>6. TypeOK'
  BY <1>1, <1>3, <1>4, <1>5 DEF TypeOK, world
<1>7. Place'
  BY <1>1 DEF Place
<1>8. RanksBehind'
  BY <1>1, <1>4, StayOnRank DEF Onward
<1>9. StepsBehind'
  BY <1>1 DEF StepsBehind, Asked, world
<1>10. LinesBehind'
  <2> SUFFICES ASSUME ~fail, "mounts" \in asked
               PROVE  0 \notin unlisted' /\ (pc' = "extra" => FilesChecked(rank)')
    BY <1>1 DEF LinesBehind, world
  <2>1. CASE yes
    <3>1. unlisted' = unlisted /\ pc' = "cat"
      BY <1>2, <2>1 DEF Unlists
    <3> QED BY <3>1 DEF LinesBehind
  <2>2. CASE ~yes
    <3>1. rank # 0
      BY <1>1, <1>2, <2>2, HeadHasList
    <3>2. unlisted' = unlisted \cup {rank}
      BY <1>2, <2>2 DEF Unlists
    <3>3. 0 \notin unlisted'
      BY <3>1, <3>2 DEF LinesBehind
    <3>4. FilesChecked(rank)'
      BY <1>1, <3>1, <3>2 DEF FilesChecked
    <3> QED BY <3>3, <3>4
  <2> QED BY <2>1, <2>2
<1> QED BY <1>6, <1>7, <1>8, <1>9, <1>10

LEMMA CatListStep == PreflightInv /\ CatList => PreflightInv'
<1> SUFFICES ASSUME PreflightInv, CatList PROVE PreflightInv'
  OBVIOUS
<1> USE DEF PreflightInv
<1>1. pc = "cat" /\ pc' = "files" /\ UNCHANGED <<world, rank, fail>>
  BY DEF CatList, Goes
<1>2. PICK yes \in BOOLEAN : Answers("mounts", yes) /\ Unlists(~yes) /\ input' = CatOutput(yes)
  BY DEF CatList
<1>3. rank \in Ranks
  BY <1>1 DEF TypeOK, Place, Ranks
<1>4. unlisted' \in {unlisted, unlisted \cup {rank}}
  BY <1>2 DEF Unlists
<1>5. sshFailures' \in 0 .. MaxSshFailures
  BY <1>2, YesMeansThere
<1>6. input' \in Seq(Lines)
  BY <1>2, <1>3, ReadableType, EmptySeq DEF CatOutput
<1>7. TypeOK'
  BY <1>1, <1>3, <1>4, <1>5, <1>6 DEF TypeOK, world, Lines
<1>8. Place'
  BY <1>1 DEF Place
<1>9. RanksBehind'
  BY <1>1, <1>4, StayOnRank DEF Onward
<1>10. StepsBehind'
  BY <1>1 DEF StepsBehind, Asked, world
<1>11. LinesBehind'
  <2>1. Readable(rank)' = Readable(rank) /\ UNCHANGED <<have, asked>>
    BY <1>1 DEF Readable, world
  <2> SUFFICES ASSUME ~fail, "mounts" \in asked
               PROVE  /\ 0 \notin unlisted'
                      /\ rank \notin unlisted' => FirstFile(Readable(rank)) \subseteq FirstFile(input')
                      /\ rank = 0 => Listed(Readable(rank)) \subseteq Listed(input')
    BY <1>1, <2>1 DEF LinesBehind
  <2>2. CASE yes
    <3>1. unlisted' = unlisted /\ input' = Readable(rank)
      BY <1>2, <2>2 DEF Unlists, CatOutput
    <3> QED BY <3>1 DEF LinesBehind
  <2>3. CASE ~yes
    <3>1. rank # 0
      BY <1>1, <1>2, <2>3, HeadHasList
    <3>2. unlisted' = unlisted \cup {rank}
      BY <1>2, <2>3 DEF Unlists
    <3> QED BY <3>1, <3>2 DEF LinesBehind
  <2> QED BY <2>2, <2>3
<1> QED BY <1>7, <1>8, <1>9, <1>10, <1>11

(* A line read: what is left to find is in the rest of the list.           *)
LEMMA LineStep ==
  ASSUME PreflightInv, pc = "files", pc' = "files",
         UNCHANGED <<world, rank, unlisted>>,
         fail' \in BOOLEAN, ~fail' => ~fail,
         sshFailures' \in 0 .. MaxSshFailures, input' \in Seq(Lines),
         ~fail' => FirstFile(input) \subseteq have[rank] \cup FirstFile(input'),
         ~fail' /\ rank = 0 => Listed(input) \subseteq have[rank] \cup Listed(input')
  PROVE  PreflightInv'
<1> USE DEF PreflightInv
<1>1. TypeOK'
  BY DEF TypeOK, world, Lines
<1>2. Place'
  BY DEF Place
<1>3. RanksBehind'
  BY StayOnRank DEF Onward
<1>4. StepsBehind'
  BY DEF StepsBehind, Asked, world
<1>5. LinesBehind'
  <2>1. Readable(rank)' = Readable(rank) /\ UNCHANGED <<have, asked>>
    BY DEF Readable, world
  <2> SUFFICES ASSUME ~fail', "mounts" \in asked
               PROVE  /\ 0 \notin unlisted
                      /\ rank \notin unlisted =>
                           FirstFile(Readable(rank)) \subseteq have[rank] \cup FirstFile(input')
                      /\ rank = 0 => Listed(Readable(rank)) \subseteq have[rank] \cup Listed(input')
    BY <2>1 DEF LinesBehind
  <2>2. /\ 0 \notin unlisted
        /\ rank \notin unlisted =>
             FirstFile(Readable(rank)) \subseteq have[rank] \cup FirstFile(input)
        /\ rank = 0 => Listed(Readable(rank)) \subseteq have[rank] \cup Listed(input)
    BY DEF LinesBehind
  <2> QED BY <2>2
<1> QED BY <1>1, <1>2, <1>3, <1>4, <1>5

LEMMA SkipLineStep == PreflightInv /\ SkipLine => PreflightInv'
<1> SUFFICES ASSUME PreflightInv, SkipLine PROVE PreflightInv'
  OBVIOUS
<1>1. input \in Seq(Lines) /\ input # <<>> /\ Head(input) = Comment /\ input' = Tail(input)
  BY DEF PreflightInv, TypeOK, Lines, SkipLine, SkipsComment
<1>2. /\ pc = "files" /\ pc' = "files"
      /\ UNCHANGED <<world, rank, unlisted, fail, sshFailures>>
  BY DEF SkipLine, Goes
<1>3. input' \in Seq(Lines)
  BY <1>1, HeadTailProperties
<1>4. FirstFile(input) \subseteq FirstFile(input') /\ Listed(input) \subseteq Listed(input')
  BY <1>1, PastComment
<1>5. fail \in BOOLEAN /\ sshFailures \in 0 .. MaxSshFailures
  BY DEF PreflightInv, TypeOK
<1> QED BY <1>2, <1>3, <1>4, <1>5, LineStep

LEMMA CheckFileStep == PreflightInv /\ CheckFile => PreflightInv'
<1> SUFFICES ASSUME PreflightInv, CheckFile PROVE PreflightInv'
  OBVIOUS
<1>1. input \in Seq(Lines) /\ input # <<>> /\ Head(input) # Comment
  BY DEF PreflightInv, TypeOK, Lines, CheckFile, SkipsComment
<1>2. pc = "files" /\ pc' = "files" /\ UNCHANGED <<world, rank, unlisted>>
  BY DEF CheckFile, Goes
<1>3. PICK yes \in BOOLEAN : Answers(Head(input), yes) /\ fail' = (fail \/ ~yes)
  BY DEF CheckFile, Records
<1>4. PICK eaten \in 0 .. Len(input) - 1 :
        (rank = 0 => eaten = 0) /\ input' = SubSeq(input, 2 + eaten, Len(input))
  BY DEF CheckFile
<1>5. input' \in Seq(Lines)
  BY <1>1, <1>4, RestType
<1>6. fail' \in BOOLEAN /\ (~fail' => ~fail) /\ (~fail' => yes)
  BY <1>3 DEF PreflightInv, TypeOK
<1>7. sshFailures' \in 0 .. MaxSshFailures /\ (yes => Head(input) \in have[rank])
  BY <1>3, YesMeansThere DEF PreflightInv
<1>8. FirstFile(input) \subseteq {Head(input)}
  BY <1>1, PastFile
<1>9. rank = 0 => Listed(input) \subseteq {Head(input)} \cup Listed(input')
  BY <1>1, <1>4, PastFile
<1> QED BY <1>2, <1>5, <1>6, <1>7, <1>8, <1>9, LineStep

LEMMA EndOfListStep == PreflightInv /\ EndOfList => PreflightInv'
<1> SUFFICES ASSUME PreflightInv, EndOfList PROVE PreflightInv'
  OBVIOUS
<1> USE DEF PreflightInv
<1>1. /\ pc = "files" /\ pc' = "extra" /\ input = <<>>
      /\ UNCHANGED <<world, rank, input, fail, sshFailures, unlisted>>
  BY DEF EndOfList, Goes
<1>2. TypeOK'
  BY <1>1 DEF TypeOK, world
<1>3. Place'
  BY <1>1 DEF Place
<1>4. RanksBehind'
  BY <1>1, StayOnRank DEF Onward
<1>5. StepsBehind'
  BY <1>1 DEF StepsBehind, Asked, world
<1>6. LinesBehind'
  <2>1. ASSUME ~fail, "mounts" \in asked PROVE FilesChecked(rank)
    BY <1>1, <2>1, PastAll DEF LinesBehind, FilesChecked
  <2>2. FilesChecked(rank) => FilesChecked(rank)'
    BY <1>1 DEF FilesChecked, Readable, world
  <2> QED BY <1>1, <2>1, <2>2 DEF LinesBehind, world
<1> QED BY <1>2, <1>3, <1>4, <1>5, <1>6

LEMMA MemoryStep == PreflightInv /\ CheckMemory => PreflightInv'
<1> SUFFICES ASSUME PreflightInv, CheckMemory PROVE PreflightInv'
  OBVIOUS
<1> USE DEF PreflightInv
<1>1. /\ pc = "memory" /\ UNCHANGED <<world, input, unlisted>> /\ rank' = rank + 1
      /\ pc' = IF rank + 1 = NumRanks THEN "exit" ELSE "ssh"
  BY DEF CheckMemory, NextRank
<1>2. PICK yes \in BOOLEAN : Answers("memory", yes) /\ fail' = (fail \/ ~yes)
  BY DEF CheckMemory
<1>3. rank \in Ranks /\ rank + 1 \in 0 .. NumRanks /\ rank \in Nat
  BY <1>1 DEF TypeOK, Place, Ranks
<1>4. fail' \in BOOLEAN /\ (~fail' => ~fail) /\ (~fail' => yes)
  BY <1>2 DEF TypeOK
<1>5. sshFailures' \in 0 .. MaxSshFailures /\ (yes => "memory" \in have[rank])
  BY <1>2, YesMeansThere
<1>6. TypeOK'
  BY <1>1, <1>3, <1>4, <1>5 DEF TypeOK, world
<1>7. Place'
  BY <1>1, <1>3 DEF Place
<1>8. RanksBehind'
  <2>1. ASSUME ~fail' PROVE Present(rank) /\ FilesChecked(rank)
    <3>1. Options \cap asked \subseteq have[rank] /\ "ssh" \in have[rank]
      BY <1>1, <1>4, <2>1 DEF StepsBehind, Asked, Options
    <3>2. asked \subseteq Options /\ "memory" \in have[rank]
      BY <1>4, <1>5, <2>1 DEF TypeOK
    <3>3. FilesChecked(rank)
      BY <1>1, <1>4, <2>1 DEF LinesBehind, FilesChecked
    <3> QED BY <3>1, <3>2, <3>3 DEF Present
  <2>2. ASSUME ~fail', NEW r \in Ranks, r < rank' PROVE Present(r)' /\ FilesChecked(r)'
    <3>1. r < rank \/ r = rank
      BY <1>1, <1>3, <2>2 DEF Ranks
    <3>2. Present(r) /\ FilesChecked(r)
      BY <1>4, <2>1, <2>2, <3>1 DEF RanksBehind
    <3> QED BY <1>1, <3>2, OnwardKeeps
  <2> QED BY <2>2 DEF RanksBehind
<1>9. StepsBehind'
  BY <1>1 DEF StepsBehind, Asked
<1>10. LinesBehind'
  BY <1>1, <1>4 DEF LinesBehind, world
<1> QED BY <1>6, <1>7, <1>8, <1>9, <1>10

LEMMA PreflightStep == PreflightInv /\ [Next]_vars => PreflightInv'
<1> SUFFICES ASSUME PreflightInv, [Next]_vars PROVE PreflightInv'
  OBVIOUS
<1>1. CASE Check("image", "nccl") \/ Check("nccl", "mounts")
           \/ Check("mounts", "list") \/ Check("extra", "memory")
  BY <1>1, CheckStep
<1>2. CASE UNCHANGED vars
  <2>1. UNCHANGED <<world, rank, pc, input, fail, sshFailures, unlisted>>
    BY <1>2 DEF vars, script
  <2>2. TypeOK' /\ Place'
    BY <2>1 DEF PreflightInv, TypeOK, Place, world
  <2>3. RanksBehind'
    BY <2>1, StayOnRank DEF Onward
  <2>4. StepsBehind' /\ LinesBehind'
    BY <2>1 DEF PreflightInv, StepsBehind, LinesBehind, Asked, FilesChecked, Readable, world
  <2> QED BY <2>2, <2>3, <2>4 DEF PreflightInv
<1> QED BY <1>1, <1>2, ReachStep, TestListStep, CatListStep, SkipLineStep, CheckFileStep,
           EndOfListStep, MemoryStep DEF Next

LEMMA InvMeansChecked == PreflightInv => PassMeansChecked
<1> SUFFICES ASSUME PreflightInv, pc = "exit", ~fail, NEW r \in Ranks
             PROVE  /\ Present(r)
                    /\ "mounts" \in asked /\ r \notin unlisted => FirstFile(Readable(r)) \subseteq have[r]
                    /\ "mounts" \in asked /\ r = 0 => r \notin unlisted /\ Listed(Readable(r)) \subseteq have[r]
  BY DEF PassMeansChecked, Passed
<1>1. r < rank
  BY DEF PreflightInv, Place, Ranks
<1>2. Present(r) /\ FilesChecked(r) /\ ("mounts" \in asked => 0 \notin unlisted)
  BY <1>1 DEF PreflightInv, RanksBehind, LinesBehind
<1> QED BY <1>2 DEF FilesChecked

(* "PREFLIGHT OK" means what was tested, for any deployment, any lists and *)
(* any failures of ssh.                                                    *)
THEOREM PreflightChecks == Spec => []PassMeansChecked
BY PreflightInit, PreflightStep, InvMeansChecked, PTL DEF Spec

(* Where ssh never fails, a list that was found is fetched.                *)
AllListsRead ==
  /\ newline \in [Ranks -> Newlines]
  /\ ~fail /\ "mounts" \in asked => unlisted = {}

LEMMA SshAnswers ==
  ASSUME MaxSshFailures = 0, PreflightInv, NEW yes \in BOOLEAN, Answers("mounts", yes),
         pc \in {"list", "cat"}, "mounts" \in asked, ~fail
  PROVE  yes
<1>1. {"ssh", "mounts"} \subseteq have[rank]
  BY DEF PreflightInv, StepsBehind, Asked
<1>2. ~ (sshFailures < MaxSshFailures)
  BY DEF PreflightInv, TypeOK
<1> QED BY <1>1, <1>2 DEF Answers

LEMMA AllListsReadStep ==
  ASSUME MaxSshFailures = 0, PreflightInv, AllListsRead, [Next]_vars
  PROVE  AllListsRead'
<1>1. UNCHANGED world
  BY DEF Next, Reach, Check, TestList, CatList, SkipLine, CheckFile, EndOfList, CheckMemory,
         Goes, NextRank, vars
<1>2. CASE TestList
  <2> SUFFICES ASSUME ~fail', "mounts" \in asked PROVE unlisted' = {}
    BY <1>1 DEF AllListsRead, world
  <2>1. PICK yes \in BOOLEAN : Answers("mounts", yes) /\ Unlists(~yes)
    BY <1>2 DEF TestList
  <2>2. pc = "list" /\ ~fail
    BY <1>2 DEF TestList, Goes
  <2> QED BY <2>1, <2>2, SshAnswers DEF Unlists, AllListsRead
<1>3. CASE CatList
  <2> SUFFICES ASSUME ~fail', "mounts" \in asked PROVE unlisted' = {}
    BY <1>1 DEF AllListsRead, world
  <2>1. PICK yes \in BOOLEAN : Answers("mounts", yes) /\ Unlists(~yes)
    BY <1>3 DEF CatList
  <2>2. pc = "cat" /\ ~fail
    BY <1>3 DEF CatList, Goes
  <2> QED BY <2>1, <2>2, SshAnswers DEF Unlists, AllListsRead
<1>4. CASE ~TestList /\ ~CatList
  <2>1. UNCHANGED unlisted
    BY <1>4 DEF Next, Reach, Check, SkipLine, CheckFile, EndOfList, CheckMemory, vars
  <2>2. ~fail' => ~fail
    BY <1>4 DEF Next, Reach, Check, SkipLine, CheckFile, Records, EndOfList, CheckMemory, vars, script
  <2> QED BY <1>1, <2>1, <2>2 DEF AllListsRead, world
<1> QED BY <1>2, <1>3, <1>4

(* A mounts.txt with one file, however many comments and blank lines.      *)
OneFile(list) ==
  \A i, j \in DOMAIN list : list[i] # Comment /\ list[j] # Comment => i = j

(* Line 57 is kept - an OK means that every rank has every patch file it   *)
(* lists - where ssh never fails, every mounts.txt ends with a newline,    *)
(* and no other rank than the head lists a second file for the first ssh   *)
(* to read away: there is only the head, or no list has two files.         *)
THEOREM PreflightIsComplete ==
  ASSUME MaxSshFailures = 0, Newlines \subseteq {TRUE},
         NumRanks = 1 \/ \A list \in MountLists : OneFile(list)
  PROVE  Spec => []EveryPatchFileChecked
<1>1. Init => AllListsRead
  BY DEF Init, AllListsRead
<1>2. PreflightInv /\ AllListsRead /\ [Next]_vars => AllListsRead'
  BY AllListsReadStep
<1>3. PreflightInv /\ AllListsRead => EveryPatchFileChecked
  <2> SUFFICES ASSUME PreflightInv, AllListsRead, Passed, "mounts" \in asked, NEW r \in Ranks
               PROVE  Listed(lines[r]) \subseteq have[r]
    BY DEF EveryPatchFileChecked
  <2>1. r \notin unlisted /\ newline[r]
    BY DEF AllListsRead, Passed
  <2>2. Readable(r) = lines[r]
    BY <2>1 DEF Readable
  <2>3. /\ FirstFile(lines[r]) \subseteq have[r]
        /\ r = 0 => Listed(lines[r]) \subseteq have[r]
    BY <2>1, <2>2, InvMeansChecked DEF PassMeansChecked
  <2>4. CASE NumRanks = 1
    BY <2>3, <2>4 DEF Ranks
  <2>5. CASE \A list \in MountLists : OneFile(list)
    <3>1. lines[r] \in Seq(Lines) /\ OneFile(lines[r])
      BY <2>5 DEF PreflightInv, TypeOK, Lines
    <3>2. ASSUME NEW n \in DOMAIN lines[r], lines[r][n] # Comment
          PROVE  lines[r][n] \in FirstFile(lines[r])
      <4>1. \A j \in 1 .. n - 1 : j \in DOMAIN lines[r] /\ j # n
        BY <3>1
      <4>2. \A j \in 1 .. n - 1 : lines[r][j] = Comment
        BY <3>1, <3>2, <4>1 DEF OneFile
      <4> QED BY <3>2, <4>2 DEF FirstFile
    <3> QED BY <2>3, <3>2 DEF Listed
  <2> QED BY <2>4, <2>5
<1> QED BY <1>1, <1>2, <1>3, PreflightInit, PreflightStep, PTL DEF Spec

-----------------------------------------------------------------------------
(* acceptance_gates.py                                                     *)

USE JobsAssumption, LimitsAssumption

LEMMA SuiteFacts ==
  /\ Len(SuiteOrder) = 3 /\ DOMAIN SuiteOrder = 1 .. 3
  /\ SuiteOrder[1] = "garble" /\ SuiteOrder[2] = "quality" /\ SuiteOrder[3] = "ability"
  /\ \A i \in 1 .. 3 : SuiteOrder[i] \in Suites
  /\ \A i, j \in 1 .. 3 : SuiteOrder[i] = SuiteOrder[j] => i = j
  /\ Suites = {SuiteOrder[i] : i \in 1 .. 3}
  /\ Misspelled \notin Suites
<1>1. Len(SuiteOrder) = 3 /\ DOMAIN SuiteOrder = 1 .. 3
  BY DEF SuiteOrder
<1>2. SuiteOrder[1] = "garble" /\ SuiteOrder[2] = "quality" /\ SuiteOrder[3] = "ability"
  BY DEF SuiteOrder
<1>3. \A i \in 1 .. 3 : i = 1 \/ i = 2 \/ i = 3
  OBVIOUS
<1>4. Suites = {SuiteOrder[i] : i \in 1 .. 3}
  BY <1>1 DEF Suites
<1>5. \A i \in 1 .. 3 : SuiteOrder[i] \in Suites
  BY <1>4
<1>6. \A i, j \in 1 .. 3 : SuiteOrder[i] = SuiteOrder[j] => i = j
  BY <1>2, <1>3
<1>7. Misspelled \notin Suites
  BY <1>2, <1>3, <1>4 DEF Misspelled
<1> QED BY <1>1, <1>2, <1>4, <1>5, <1>6, <1>7

Rejected(s) == {j \in Jobs : answer[j] # "none" /\ Rejects(s, answer[j])}
Tallied     == {j \in 1 .. counted : Counts(answer[j])}
Started(i)  == i < turn \/ (i = turn /\ gates = "suite")

(* A suite that has not started has nothing against it...                  *)
NothingYet == \A i \in 1 .. 3 : ~Started(i) => against[SuiteOrder[i]] = 0

(* ...and the one that runs has what its threads got, of which it has      *)
(* counted a part.                                                         *)
SuiteRuns ==
  gates = "suite" =>
    /\ turn \in 1 .. 3 /\ suite \in wanted
    /\ against[suite] = Cardinality(Rejected(suite))
    /\ tally = Cardinality(Tallied)
    /\ \A j \in 1 .. counted : answer[j] # "none"

(* The verdicts so far are those of the suites that were asked for.        *)
VerdictsSoFar ==
  /\ DOMAIN results = {s \in wanted : \E i \in 1 .. 3 : i < turn /\ s = SuiteOrder[i]}
  /\ \A s \in DOMAIN results : results[s] <=> against[s] <= Tolerated(s)

Ends ==
  /\ gates = "off" => turn = 1
  /\ gates \in {"exit0", "exit1"} => turn = 4
  /\ gates = "exit0" => AllPassed
  /\ gates = "exit1" => ~AllPassed

GatesInv == GatesTypeOK /\ NothingYet /\ SuiteRuns /\ VerdictsSoFar /\ Ends

-----------------------------------------------------------------------------
LEMMA JobSets ==
  ASSUME NEW A \in SUBSET Jobs
  PROVE  IsFiniteSet(A) /\ Cardinality(A) \in 0 .. NumJobs
<1>1. IsFiniteSet(Jobs) /\ Cardinality(Jobs) = NumJobs
  BY FS_Interval DEF Jobs
<1>2. IsFiniteSet(A) /\ Cardinality(A) <= NumJobs
  BY <1>1, FS_Subset
<1>3. Cardinality(A) \in Nat
  BY <1>2, FS_CardinalityType
<1> QED BY <1>2, <1>3

LEMMA AddJob ==
  ASSUME NEW A \in SUBSET Jobs, NEW j \in Jobs, j \notin A
  PROVE  Cardinality(A \cup {j}) = Cardinality(A) + 1
BY JobSets, FS_AddElement

LEMMA GatesInit == GatesOff => GatesInv
<1> SUFFICES ASSUME GatesOff PROVE GatesInv
  OBVIOUS
<1> USE DEF GatesOff
<1>1. turn \in 1 .. Len(SuiteOrder) + 1 /\ counted \in 0 .. NumJobs /\ tally \in 0 .. NumJobs
  BY SuiteFacts
<1>2. answer \in [Jobs -> AnswerKinds \cup {"none"}] /\ against \in [Suites -> 0 .. NumJobs]
  BY DEF Unanswered
<1>3. DOMAIN results = {}
  OBVIOUS
<1>4. GatesTypeOK
  BY <1>1, <1>2, <1>3 DEF GatesTypeOK
<1>5. NothingYet
  BY SuiteFacts DEF NothingYet
<1>6. SuiteRuns
  BY DEF SuiteRuns
<1>7. VerdictsSoFar
  BY <1>3 DEF VerdictsSoFar
<1>8. Ends
  BY DEF Ends
<1> QED BY <1>4, <1>5, <1>6, <1>7, <1>8 DEF GatesInv

LEMMA StartGatesStep == GatesInv /\ StartGates => GatesInv'
<1> SUFFICES ASSUME GatesInv, StartGates PROVE GatesInv'
  OBVIOUS
<1> USE DEF GatesInv
<1>1. /\ gates = "off" /\ gates' = "next" /\ turn = 1 /\ wanted' \subseteq Suites \cup {Misspelled}
      /\ UNCHANGED <<turn, answer, counted, tally, results, against>>
  BY DEF StartGates, Ends
<1>2. DOMAIN results = {}
  BY <1>1 DEF VerdictsSoFar
<1>3. GatesTypeOK'
  BY <1>1, <1>2 DEF GatesTypeOK
<1>4. NothingYet'
  BY <1>1 DEF NothingYet, Started
<1>5. SuiteRuns' /\ Ends'
  BY <1>1 DEF SuiteRuns, Ends
<1>6. VerdictsSoFar'
  BY <1>1, <1>2 DEF VerdictsSoFar
<1> QED BY <1>3, <1>4, <1>5, <1>6

LEMMA NextSuiteStep == GatesInv /\ NextSuite => GatesInv'
<1> SUFFICES ASSUME GatesInv, NextSuite PROVE GatesInv'
  OBVIOUS
<1> USE DEF GatesInv
<1>1. /\ gates = "next" /\ turn \in 1 .. 3
      /\ answer' = Unanswered /\ counted' = 0 /\ tally' = 0
      /\ UNCHANGED <<wanted, results, against>>
  BY SuiteFacts DEF NextSuite
<1>2. IF suite \in wanted THEN gates' = "suite" /\ turn' = turn ELSE turn' = turn + 1 /\ gates' = gates
  BY DEF NextSuite
<1>3. GatesTypeOK'
  <2>1. answer' \in [Jobs -> AnswerKinds \cup {"none"}]
    BY <1>1 DEF Unanswered
  <2>2. turn' \in 1 .. Len(SuiteOrder) + 1 /\ gates' \in {"next", "suite"}
    BY <1>1, <1>2, SuiteFacts
  <2>3. counted' \in 0 .. NumJobs /\ tally' \in 0 .. NumJobs
    BY <1>1
  <2> QED BY <1>1, <2>1, <2>2, <2>3 DEF GatesTypeOK
<1>4. NothingYet'
  <2>1. \A i \in 1 .. 3 : ~Started(i)' => ~Started(i)
    BY <1>1, <1>2 DEF Started
  <2> QED BY <1>1, <2>1 DEF NothingYet
<1>5. VerdictsSoFar'
  <2>1. \A i \in 1 .. 3 : i < turn' /\ SuiteOrder[i] \in wanted => i < turn
    BY <1>1, <1>2 DEF suite
  <2>2. \A i \in 1 .. 3 : i < turn => i < turn'
    BY <1>1, <1>2
  <2> QED BY <1>1, <2>1, <2>2 DEF VerdictsSoFar
<1>6. Ends'
  BY <1>1, <1>2 DEF Ends
<1>7. SuiteRuns'
  <2> SUFFICES ASSUME gates' = "suite"
               PROVE  /\ turn \in 1 .. 3 /\ suite \in wanted
                      /\ against[suite] = Cardinality(Rejected(suite)')
                      /\ Cardinality(Tallied') = 0
    BY <1>1, <1>2 DEF SuiteRuns, suite
  <2>1. turn \in 1 .. 3 /\ suite \in wanted
    BY <1>1, <1>2
  <2>2. against[suite] = 0
    BY <1>1 DEF NothingYet, Started, suite
  <2>3. Tallied' = {}
    BY <1>1 DEF Tallied
  <2>4. Rejected(suite)' = {}
    BY <1>1 DEF Rejected, Unanswered
  <2> QED BY <2>1, <2>2, <2>3, <2>4, FS_EmptySet
<1> QED BY <1>3, <1>4, <1>5, <1>6, <1>7

LEMMA AnsweredStep == ASSUME GatesInv, NEW j \in Jobs, Answered(j) PROVE GatesInv'
<1> USE DEF GatesInv
<1>1. PICK a \in AnswerKinds :
        /\ answer' = [answer EXCEPT ![j] = a]
        /\ against' = [against EXCEPT ![suite] = IF Rejects(suite, a) THEN @ + 1 ELSE @]
  BY DEF Answered
<1>2. /\ gates = "suite" /\ answer[j] = "none"
      /\ UNCHANGED <<gates, wanted, turn, counted, tally, results>>
  BY DEF Answered, UnderWay
<1>3. /\ answer \in [Jobs -> AnswerKinds \cup {"none"}] /\ against \in [Suites -> 0 .. NumJobs]
      /\ turn \in 1 .. 3 /\ suite \in Suites /\ a # "none"
  BY <1>2, SuiteFacts DEF GatesTypeOK, SuiteRuns, suite, AnswerKinds
<1>4. \A i \in Jobs : answer'[i] = IF i = j THEN a ELSE answer[i]
  BY <1>1, <1>3
<1>5. suite' = suite
  BY <1>2 DEF suite
<1>6. \A s \in Suites : s # suite => against'[s] = against[s]
  BY <1>1, <1>3
<1>7. against'[suite] = Cardinality(Rejected(suite)')
  <2>1. Rejected(suite) \in SUBSET Jobs /\ j \notin Rejected(suite)
    BY <1>2 DEF Rejected
  <2>2. against[suite] = Cardinality(Rejected(suite))
    BY <1>2 DEF SuiteRuns
  <2>3. CASE Rejects(suite, a)
    <3>1. Rejected(suite)' = Rejected(suite) \cup {j}
      BY <1>3, <1>4, <1>5, <2>3 DEF Rejected, Rejects
    <3>2. against'[suite] = against[suite] + 1
      BY <1>1, <1>3, <2>3
    <3> QED BY <2>1, <2>2, <3>1, <3>2, AddJob
  <2>4. CASE ~Rejects(suite, a)
    <3>1. Rejected(suite)' = Rejected(suite)
      BY <1>2, <1>3, <1>4, <1>5, <2>4 DEF Rejected, Rejects
    <3>2. against'[suite] = against[suite]
      BY <1>1, <1>3, <2>4
    <3> QED BY <2>2, <3>1, <3>2
  <2> QED BY <2>3, <2>4
<1>8. GatesTypeOK'
  <2>1. answer' \in [Jobs -> AnswerKinds \cup {"none"}]
    BY <1>1, <1>3
  <2>2. against'[suite] \in 0 .. NumJobs
    <3>1. Rejected(suite)' \in SUBSET Jobs
      BY DEF Rejected
    <3> QED BY <1>7, <3>1, JobSets
  <2>3. \A s \in Suites : against'[s] \in 0 .. NumJobs
    BY <1>3, <1>6, <2>2
  <2>4. against' \in [Suites -> 0 .. NumJobs]
    <3>1. DOMAIN against' = Suites /\ against' = [s \in Suites |-> against'[s]]
      BY <1>1, <1>3
    <3> QED BY <2>3, <3>1
  <2> QED BY <1>2, <2>1, <2>4 DEF GatesTypeOK
<1>9. NothingYet'
  <2>1. ASSUME NEW i \in 1 .. 3, ~Started(i) PROVE SuiteOrder[i] # suite /\ SuiteOrder[i] \in Suites
    BY <1>2, <1>3, <2>1, SuiteFacts DEF Started, suite
  <2> QED BY <1>2, <1>6, <2>1 DEF NothingYet, Started
<1>10. SuiteRuns'
  <2>1. \A i \in 1 .. counted : i \in Jobs /\ i # j
    BY <1>2 DEF SuiteRuns, GatesTypeOK, Jobs
  <2>2. Tallied' = Tallied
    BY <1>2, <1>4, <1>5, <2>1 DEF Tallied, Counts
  <2>3. \A i \in 1 .. counted : answer'[i] # "none"
    BY <1>2, <1>4, <2>1 DEF SuiteRuns
  <2>4. tally = Cardinality(Tallied) /\ suite \in wanted
    BY <1>2 DEF SuiteRuns
  <2>5. Rejected(suite)' = {i \in Jobs : answer'[i] # "none" /\ Rejects(suite, answer'[i])}
    BY <1>5 DEF Rejected, Rejects
  <2> HIDE DEF Rejected, Tallied, suite
  <2> QED BY <1>2, <1>3, <1>5, <1>7, <2>2, <2>3, <2>4 DEF SuiteRuns
<1>11. VerdictsSoFar'
  <2>1. \A s \in DOMAIN results : s \in Suites /\ s # suite
    BY <1>3, SuiteFacts DEF VerdictsSoFar, suite
  <2>2. \A s \in DOMAIN results : against'[s] = against[s]
    BY <1>6, <2>1
  <2> QED BY <1>2, <2>2 DEF VerdictsSoFar, Tolerated
<1>12. Ends'
  BY <1>2 DEF Ends
<1> QED BY <1>8, <1>9, <1>10, <1>11, <1>12

LEMMA CountOneStep == GatesInv /\ CountOne => GatesInv'
<1> SUFFICES ASSUME GatesInv, CountOne PROVE GatesInv'
  OBVIOUS
<1> USE DEF GatesInv
<1>1. /\ gates = "suite" /\ counted < NumJobs /\ answer[counted + 1] # "none"
      /\ counted' = counted + 1
      /\ tally' = IF Counts(answer[counted + 1]) THEN tally + 1 ELSE tally
      /\ UNCHANGED <<gates, wanted, turn, answer, results, against>>
  BY DEF CountOne
<1>2. counted \in 0 .. NumJobs /\ counted + 1 \in Jobs
  BY <1>1 DEF GatesTypeOK, Jobs
<1>3. suite' = suite /\ \A a : Counts(a)' = Counts(a)
  BY <1>1 DEF suite, Counts
<1>4. tally' = Cardinality(Tallied')
  <2>1. Tallied \in SUBSET Jobs /\ counted + 1 \notin Tallied /\ tally = Cardinality(Tallied)
    BY <1>1, <1>2 DEF Tallied, Jobs, SuiteRuns
  <2>2. \A i : i \in 1 .. counted' <=> i \in 1 .. counted \/ i = counted + 1
    BY <1>1, <1>2
  <2>3. CASE Counts(answer[counted + 1])
    <3>1. Tallied' = Tallied \cup {counted + 1}
      BY <1>1, <1>3, <2>2, <2>3 DEF Tallied
    <3>2. tally' = tally + 1
      BY <1>1, <2>3
    <3> QED BY <1>2, <2>1, <3>1, <3>2, AddJob
  <2>4. CASE ~Counts(answer[counted + 1])
    <3>1. Tallied' = Tallied
      BY <1>1, <1>3, <2>2, <2>4 DEF Tallied
    <3> QED BY <1>1, <2>1, <2>4, <3>1
  <2> QED BY <2>3, <2>4
<1>5. GatesTypeOK'
  <2>1. Tallied' \in SUBSET Jobs
    BY <1>1, <1>2 DEF Tallied, Jobs
  <2>2. tally' \in 0 .. NumJobs
    BY <1>4, <2>1, JobSets
  <2>3. counted' \in 0 .. NumJobs
    BY <1>1, <1>2
  <2> QED BY <1>1, <2>2, <2>3 DEF GatesTypeOK
<1>6. NothingYet' /\ Ends'
  BY <1>1 DEF NothingYet, Started, Ends, AllPassed
<1>7. VerdictsSoFar'
  BY <1>1 DEF VerdictsSoFar, Tolerated
<1>8. SuiteRuns'
  <2>1. \A j \in 1 .. counted' : answer[j] # "none"
    <3>1. \A j \in 1 .. counted' : j \in 1 .. counted \/ j = counted + 1
      BY <1>1, <1>2
    <3> QED BY <1>1, <3>1 DEF SuiteRuns
  <2>2. Rejected(suite)' = Rejected(suite)
    BY <1>1, <1>3 DEF Rejected, Rejects
  <2>3. turn \in 1 .. 3 /\ suite \in wanted /\ against[suite] = Cardinality(Rejected(suite))
    BY <1>1 DEF SuiteRuns
  <2> HIDE DEF Rejected, Tallied, suite
  <2> QED BY <1>1, <1>3, <1>4, <2>1, <2>2, <2>3 DEF SuiteRuns
<1> QED BY <1>5, <1>6, <1>7, <1>8

(* All answers counted, the verdict is the rule.                           *)
LEMMA VerdictIsTheRule ==
  ASSUME GatesInv, gates = "suite", counted = NumJobs
  PROVE  Verdict <=> against[suite] <= Tolerated(suite)
<1> USE DEF GatesInv
<1>1. /\ against[suite] = Cardinality(Rejected(suite)) /\ tally = Cardinality(Tallied)
      /\ \A j \in Jobs : answer[j] # "none"
  BY DEF SuiteRuns, Jobs
<1>2. Rejected(suite) \in SUBSET Jobs /\ Tallied \in SUBSET Jobs
  BY DEF Rejected, Tallied, Jobs
<1>3. CASE suite = "garble"
  <2>1. Rejected(suite) = Tallied
    BY <1>1, <1>3 DEF Rejected, Rejects, Tallied, Counts, Jobs
  <2>2. tally = against[suite]
    BY <1>1, <2>1
  <2> QED BY <1>3, <2>2 DEF Verdict, Tolerated
<1>4. CASE suite # "garble"
  <2>1. Rejected(suite) = Jobs \ Tallied
    BY <1>1, <1>4 DEF Rejected, Rejects, Tallied, Counts, Jobs
  <2>2. Rejected(suite) \cup Tallied = Jobs /\ Rejected(suite) \cap Tallied = {}
    BY <1>2, <2>1
  <2>3. IsFiniteSet(Rejected(suite)) /\ IsFiniteSet(Tallied)
    BY <1>2, JobSets
  <2>4. Cardinality(Jobs) = against[suite] + tally - 0
    BY <1>1, <2>2, <2>3, FS_Union, FS_EmptySet
  <2>5. Cardinality(Jobs) = NumJobs
    BY FS_Interval DEF Jobs
  <2>6. against[suite] \in Nat /\ tally \in Nat
    BY <1>1, <1>2, JobSets
  <2>7. tally >= NumJobs - MaxMissed <=> against[suite] <= MaxMissed
    BY <2>4, <2>5, <2>6
  <2> QED BY <1>4, <2>7 DEF Verdict, Tolerated
<1> QED BY <1>3, <1>4

LEMMA EndSuiteStep == GatesInv /\ EndSuite => GatesInv'
<1> SUFFICES ASSUME GatesInv, EndSuite PROVE GatesInv'
  OBVIOUS
<1> USE DEF GatesInv
<1>1. /\ gates = "suite" /\ counted = NumJobs
      /\ gates' = "next" /\ turn' = turn + 1
      /\ UNCHANGED <<wanted, answer, counted, tally, against>>
  BY DEF EndSuite
<1>2. results' = [s \in DOMAIN results \cup {suite} |-> IF s = suite THEN Verdict ELSE results[s]]
  BY DEF EndSuite
<1>3. turn \in 1 .. 3 /\ suite \in wanted
  BY <1>1 DEF SuiteRuns
<1>4. DOMAIN results' = DOMAIN results \cup {suite}
  BY <1>2
<1>5. Verdict \in BOOLEAN
  <2>1. CASE suite = "garble"
    BY <2>1 DEF Verdict
  <2>2. CASE suite # "garble"
    BY <2>2 DEF Verdict
  <2> QED BY <2>1, <2>2
<1>6. ASSUME NEW s \in DOMAIN results' PROVE results'[s] \in BOOLEAN /\ s \in wanted
  <2>1. CASE s = suite
    <3>1. results'[s] = Verdict
      BY <1>2, <1>4, <2>1
    <3> QED BY <1>3, <1>5, <2>1, <3>1
  <2>2. CASE s # suite
    <3>1. s \in DOMAIN results /\ results'[s] = results[s]
      BY <1>2, <1>4, <2>2
    <3> QED BY <3>1 DEF GatesTypeOK
  <2> QED BY <2>1, <2>2
<1>7. GatesTypeOK'
  <2>1. turn' \in 1 .. Len(SuiteOrder) + 1
    BY <1>1, <1>3, SuiteFacts
  <2>2. DOMAIN results' \subseteq wanted' /\ \A s \in DOMAIN results' : results'[s] \in BOOLEAN
    BY <1>1, <1>6
  <2> QED BY <1>1, <2>1, <2>2 DEF GatesTypeOK
<1>8. NothingYet'
  BY <1>1, <1>3 DEF NothingYet, Started
<1>9. SuiteRuns' /\ Ends'
  BY <1>1 DEF SuiteRuns, Ends
<1>10. VerdictsSoFar'
  <2>1. \A s : s \in DOMAIN results' <=> s \in wanted' /\ \E i \in 1 .. 3 : i < turn' /\ s = SuiteOrder[i]
    <3>1. \A i \in 1 .. 3 : i < turn' <=> i < turn \/ i = turn
      BY <1>1, <1>3
    <3> QED BY <1>1, <1>3, <1>4, <3>1 DEF VerdictsSoFar, suite
  <2>2. ASSUME NEW s \in DOMAIN results' PROVE results'[s] <=> against[s] <= Tolerated(s)
    <3>1. CASE s = suite
      <4>1. results'[s] = Verdict
        BY <1>2, <1>4, <3>1
      <4> QED BY <1>1, <3>1, <4>1, VerdictIsTheRule
    <3>2. CASE s # suite
      <4>1. s \in DOMAIN results /\ results'[s] = results[s]
        BY <1>2, <1>4, <3>2
      <4> QED BY <4>1 DEF VerdictsSoFar
    <3> QED BY <3>1, <3>2
  <2> QED BY <1>1, <2>1, <2>2 DEF VerdictsSoFar, Tolerated
<1> QED BY <1>7, <1>8, <1>9, <1>10

LEMMA ExitGatesStep == GatesInv /\ ExitGates => GatesInv'
<1> SUFFICES ASSUME GatesInv, ExitGates PROVE GatesInv'
  OBVIOUS
<1> USE DEF GatesInv
<1>1. /\ gates = "next" /\ turn = 4 /\ gates' = IF AllPassed THEN "exit0" ELSE "exit1"
      /\ UNCHANGED <<wanted, turn, answer, counted, tally, results, against>>
  BY SuiteFacts DEF ExitGates
<1>2. GatesTypeOK'
  BY <1>1 DEF GatesTypeOK
<1>3. NothingYet' /\ SuiteRuns'
  BY <1>1 DEF NothingYet, Started, SuiteRuns
<1>4. VerdictsSoFar'
  BY <1>1 DEF VerdictsSoFar, Tolerated
<1>5. Ends'
  BY <1>1 DEF Ends, AllPassed
<1> QED BY <1>2, <1>3, <1>4, <1>5

LEMMA GatesStep == GatesInv /\ [GatesNext]_gatesVars => GatesInv'
<1> SUFFICES ASSUME GatesInv, [GatesNext]_gatesVars PROVE GatesInv'
  OBVIOUS
<1>1. CASE UNCHANGED gatesVars
  <2>1. UNCHANGED <<gates, wanted, turn, answer, counted, tally, results, against>>
    BY <1>1 DEF gatesVars
  <2>2. GatesTypeOK' /\ NothingYet' /\ Ends'
    BY <2>1 DEF GatesInv, GatesTypeOK, NothingYet, Started, Ends, AllPassed
  <2>3. VerdictsSoFar'
    BY <2>1 DEF GatesInv, VerdictsSoFar, Tolerated
  <2>4. suite' = suite /\ Tallied' = Tallied /\ Rejected(suite)' = Rejected(suite)
    BY <2>1 DEF suite, Tallied, Counts, Rejected, Rejects
  <2>5. SuiteRuns'
    BY <2>1, <2>4 DEF GatesInv, SuiteRuns
  <2> QED BY <2>2, <2>3, <2>5 DEF GatesInv
<1> QED BY <1>1, StartGatesStep, NextSuiteStep, CountOneStep, EndSuiteStep, ExitGatesStep,
           AnsweredStep DEF GatesNext

LEMMA InvMeansAnswers == GatesInv => StatusIsTheAnswers
<1> SUFFICES ASSUME GatesInv, turn = 4
             PROVE  /\ AllPassed => \A s \in wanted \cap Suites : against[s] <= Tolerated(s)
                    /\ ~AllPassed => \E s \in wanted \cap Suites : against[s] > Tolerated(s)
  BY DEF StatusIsTheAnswers, GatesInv, Ends
<1>1. DOMAIN results = wanted \cap Suites
  BY SuiteFacts DEF GatesInv, VerdictsSoFar
<1>2. \A s \in wanted \cap Suites : results[s] <=> against[s] <= Tolerated(s)
  BY <1>1 DEF GatesInv, VerdictsSoFar
<1>3. \A s \in wanted \cap Suites : against[s] \in Nat /\ Tolerated(s) \in Nat
  BY DEF GatesInv, GatesTypeOK, Tolerated
<1>4. \A s \in wanted \cap Suites : ~results[s] => against[s] > Tolerated(s)
  BY <1>2, <1>3
<1> QED BY <1>1, <1>2, <1>4 DEF AllPassed

(* The exit status follows from the answers, however many requests and     *)
(* threads, in whatever order they come.                                   *)
THEOREM GatesStatus == GatesSpec => []StatusIsTheAnswers
BY GatesInit, GatesStep, InvMeansAnswers, PTL DEF GatesSpec

-----------------------------------------------------------------------------
(* The two clients of a stream                                             *)

(* Every set of naturals has a least element: {0 .. m : m in the set} has a *)
(* minimal one, for inclusion between finite sets is well-founded.         *)
LEMMA Least ==
  ASSUME NEW S \in SUBSET Nat, S # {}
  PROVE  \E m \in S : \A n \in S : m <= n
<1> DEFINE Below == {0 .. m : m \in S}
<1>1. Below \subseteq FiniteSubsetsOf(Nat) /\ Below # {}
  <2>1. ASSUME NEW m \in S PROVE 0 .. m \in FiniteSubsetsOf(Nat)
    <3>1. IsFiniteSet(0 .. m)
      BY FS_Interval
    <3> QED BY <3>1 DEF FiniteSubsetsOf
  <2> QED BY <2>1
<1>2. IsWellFoundedOn(StrictSubsetOrdering(Nat), FiniteSubsetsOf(Nat))
  BY FS_StrictSubsetOrderingWellFounded
<1> HIDE DEF Below
<1>3. PICK x \in Below : \A y \in Below : ~ (<<y, x>> \in StrictSubsetOrdering(Nat))
  BY <1>1, <1>2, WFMin
<1> USE DEF Below
<1>4. PICK m \in S : x = 0 .. m
  OBVIOUS
<1>5. ASSUME NEW n \in S, n < m PROVE FALSE
  <2>1. 0 .. n \in SUBSET Nat /\ x \in SUBSET Nat /\ 0 .. n \in Below
    BY <1>4
  <2>2. 0 .. n \subseteq x /\ m \in x /\ m \notin 0 .. n
    BY <1>4, <1>5
  <2>3. 0 .. n # x
    BY <2>2
  <2>4. <<0 .. n, x>> \in StrictSubsetOrdering(Nat)
    BY <2>1, <2>2, <2>3 DEF StrictSubsetOrdering
  <2> QED BY <1>3, <2>1, <2>4
<1>6. \A n \in S : m <= n
  BY <1>5
<1> QED BY <1>6

(* ...and, if it is bounded, a greatest.                                   *)
LEMMA Greatest ==
  ASSUME NEW b \in Nat, NEW S \in SUBSET (0 .. b), S # {}
  PROVE  \E m \in S : \A n \in S : m >= n
<1> DEFINE Above == {b - n : n \in S}
<1>1. Above \in SUBSET Nat /\ Above # {}
  <2>1. \A n \in S : b - n \in Nat
    OBVIOUS
  <2>2. Above \subseteq Nat
    BY <2>1
  <2>3. Above # {}
    OBVIOUS
  <2> QED BY <2>2, <2>3
<1>2. \E x \in Above : \A y \in Above : x <= y
  <2> HIDE DEF Above
  <2> QED BY <1>1, Least
<1>3. PICK m \in S : \A y \in Above : b - m <= y
  BY <1>2
<1>4. \A n \in S : b - m <= b - n
  BY <1>3
<1> QED BY <1>4

(* A function that adds the terms up one by one is their sum: where it and *)
(* the recursion differed first, they would agree one before.              *)
LEMMA SumIs ==
  ASSUME NEW n \in Nat, NEW f, NEW g \in [0 .. n -> Int],
         g[0] = 0, \A i \in 1 .. n : g[i] = g[i - 1] + f[i]
  PROVE  SumOf(f, n) = g[n]
<1> DEFINE Sums(h) == h = [i \in 0 .. n |-> IF i = 0 THEN 0 ELSE h[i - 1] + f[i]]
           s == CHOOSE h : Sums(h)
<1>1. Sums(g)
  OBVIOUS
<1>2. Sums(s)
  BY <1>1
<1>3. SumOf(f, n) = s[n]
  BY DEF SumOf
<1> DEFINE Wrong == {i \in 0 .. n : s[i] # g[i]}
<1>4. Wrong = {}
  <2> SUFFICES ASSUME Wrong # {} PROVE FALSE
    OBVIOUS
  <2>1. PICK m \in Wrong : \A i \in Wrong : m <= i
    <3>1. Wrong \in SUBSET Nat
      OBVIOUS
    <3> HIDE DEF Wrong
    <3> QED BY <3>1, Least
  <2> HIDE DEF s
  <2>2. m # 0
    BY <1>1, <1>2
  <2>3. m - 1 \in 0 .. n /\ m - 1 \notin Wrong
    BY <2>1, <2>2
  <2>4. s[m - 1] = g[m - 1]
    BY <2>3
  <2>5. s[m] = s[m - 1] + f[m]
    BY <1>2, <2>2
  <2> QED BY <2>2, <2>4, <2>5
<1> HIDE DEF s
<1>5. s[n] = g[n]
  BY <1>4
<1> HIDE DEF Wrong, Sums
<1> QED BY <1>3, <1>5

USE BoundsAssumption, WindowsAssumption DEF Never

(* Where the clients are: no chunk is later than the clock.                *)
ClocksFollow ==
  /\ stream = "off" => Len(arrivals) = 0
  /\ Len(arrivals) + reasoned <= MaxChunks
  /\ first = Never <=> prev = Never
  /\ first <= clock /\ prev <= clock /\ ttft <= clock

Before(i) == IF i = 1 THEN 0 ELSE marks[i - 1][2]

(* Each mark is the arrival's time and the tokens counted up to it.        *)
MarksFollow ==
  /\ Len(marks) = Len(arrivals)
  /\ \A i \in 1 .. Len(marks) :
       /\ marks[i][1] = arrivals[i].at
       /\ marks[i][1] <= clock
       /\ marks[i][2] = Before(i) + Counted(arrivals[i].tokens)
  /\ \A i, j \in 1 .. Len(marks) : i <= j => marks[i][1] <= marks[j][1]

(* Without reasoning the two clients have seen the same chunks.            *)
GapsFollow ==
  reasoned = 0 =>
    /\ ttft = first
    /\ first = Never <=> Len(marks) = 0
    /\ Len(marks) > 0 => prev = marks[Len(marks)][1]
    /\ Len(gaps) = IF Len(marks) = 0 THEN 0 ELSE Len(marks) - 1
    /\ \A i \in 1 .. Len(gaps) : gaps[i] = marks[i + 1][1] - marks[i][1]

StreamInv == StreamTypeOK /\ ClocksFollow /\ MarksFollow /\ GapsFollow

LEMMA StreamInit == StreamOff => StreamInv
<1> SUFFICES ASSUME StreamOff PROVE StreamInv
  OBVIOUS
<1> USE DEF StreamOff
<1>1. StreamTypeOK
  <2>1. marks \in Seq((0 .. MaxClock) \X Nat) /\ gaps \in Seq(0 .. MaxClock)
    BY EmptySeq
  <2>2. arrivals \in Seq([at : 0 .. MaxClock, tokens : 1 .. MaxTokens])
    BY EmptySeq
  <2>3. Never \in Never .. MaxClock /\ 0 \in 0 .. MaxClock /\ 0 \in 0 .. MaxChunks
    OBVIOUS
  <2>4. first \in Never .. MaxClock /\ prev \in Never .. MaxClock /\ ttft \in Never .. MaxClock
    BY <2>3
  <2>5. clock \in 0 .. MaxClock /\ reasoned \in 0 .. MaxChunks
    BY <2>3
  <2>6. stream \in {"off", "open", "closed"} /\ perToken \in BOOLEAN
    OBVIOUS
  <2> QED BY <2>1, <2>2, <2>4, <2>5, <2>6 DEF StreamTypeOK
<1>2. ClocksFollow
  BY DEF ClocksFollow
<1>3. MarksFollow
  BY DEF MarksFollow
<1>4. GapsFollow
  BY DEF GapsFollow
<1> QED BY <1>1, <1>2, <1>3, <1>4 DEF StreamInv

(* What stream_bench.py makes of any chunk with tokens.                    *)
LEMMA BenchStep ==
  ASSUME StreamInv, BenchReads
  PROVE  /\ first' \in 0 .. clock
         /\ prev' = clock
         /\ gaps' \in Seq(0 .. MaxClock)
         /\ first # Never => /\ first' = first
                             /\ gaps' = Append(gaps, clock - prev)
         /\ first = Never => first' = clock /\ gaps' = gaps
<1> USE DEF StreamInv, StreamTypeOK, ClocksFollow, BenchReads
<1>1. CASE first = Never
  BY <1>1
<1>2. CASE first # Never
  <2>1. first \in 0 .. clock /\ prev \in 0 .. clock
    BY <1>2
  <2>2. clock - prev \in 0 .. MaxClock
    BY <2>1
  <2>3. first' = first /\ gaps' = Append(gaps, clock - prev) /\ prev' = clock
    BY <1>2
  <2>4. gaps' \in Seq(0 .. MaxClock)
    BY <2>2, <2>3, AppendProperties
  <2> QED BY <1>2, <2>1, <2>3, <2>4
<1> QED BY <1>1, <1>2

(* The gap that stream_bench.py notes is the last of ctx_decode_bench.py.  *)
LEMMA ChunkStep == StreamInv /\ Chunk => StreamInv'
<1> SUFFICES ASSUME StreamInv, Chunk PROVE StreamInv'
  OBVIOUS
<1> USE DEF StreamInv
<1>1. PICK n \in 1 .. MaxTokens :
        arrivals' = Append(arrivals, [at |-> clock, tokens |-> n]) /\ CtxReads(n)
  BY DEF Chunk
<1>2. /\ More /\ BenchReads
      /\ UNCHANGED <<stream, clock, perToken, reasoned>>
  BY DEF Chunk
<1>3. /\ arrivals \in Seq([at : 0 .. MaxClock, tokens : 1 .. MaxTokens])
      /\ marks \in Seq((0 .. MaxClock) \X Nat)
      /\ clock \in 0 .. MaxClock /\ reasoned \in 0 .. MaxChunks
      /\ gaps \in Seq(0 .. MaxClock)
  BY DEF StreamTypeOK
<1> DEFINE L == Len(marks)
<1>4. L \in Nat /\ Len(arrivals) = L
  BY <1>3 DEF MarksFollow
<1>5. Counted(n) \in Nat
  BY DEF Counted
<1>6. SoFar = Before(L + 1) /\ SoFar \in Nat
  <2>1. CASE L = 0
    BY <1>3, <2>1 DEF SoFar, Before
  <2>2. CASE L > 0
    <3>1. marks[L] \in (0 .. MaxClock) \X Nat /\ marks # <<>>
      BY <1>3, <2>2
    <3>2. L + 1 # 1 /\ L + 1 - 1 = L
      BY <1>4, <2>2
    <3> QED BY <3>1, <3>2 DEF SoFar, Before
  <2> QED BY <1>4, <2>1, <2>2
<1> DEFINE a == [at |-> clock, tokens |-> n]
           m == MarkOf(n)
<1>7. a \in [at : 0 .. MaxClock, tokens : 1 .. MaxTokens] /\ m \in (0 .. MaxClock) \X Nat
  BY <1>3, <1>5, <1>6 DEF MarkOf
<1>8. m[1] = clock /\ m[2] = SoFar + Counted(n) /\ a.at = clock /\ a.tokens = n
  BY DEF MarkOf
<1>9. arrivals' = Append(arrivals, a) /\ marks' = Append(marks, m)
  BY <1>1 DEF CtxReads
<1> HIDE DEF a, m
<1>10. /\ arrivals' \in Seq([at : 0 .. MaxClock, tokens : 1 .. MaxTokens])
       /\ Len(arrivals') = L + 1 /\ arrivals'[L + 1] = a
       /\ \A i \in 1 .. L : arrivals'[i] = arrivals[i]
  BY <1>3, <1>4, <1>7, <1>9, AppendProperties
<1>11. /\ marks' \in Seq((0 .. MaxClock) \X Nat)
       /\ Len(marks') = L + 1 /\ marks'[L + 1] = m
       /\ \A i \in 1 .. L : marks'[i] = marks[i]
  BY <1>3, <1>4, <1>7, <1>9, AppendProperties
<1> HIDE DEF L
<1>12. ttft' = IF ttft = Never THEN clock ELSE ttft
  BY <1>1 DEF CtxReads
<1>13. StreamTypeOK'
  <2>1. first' \in Never .. MaxClock /\ prev' \in Never .. MaxClock
    BY <1>2, <1>3, BenchStep
  <2>2. ttft' \in Never .. MaxClock
    BY <1>3, <1>12 DEF StreamTypeOK
  <2>3. gaps' \in Seq(0 .. MaxClock)
    BY <1>2, BenchStep
  <2> QED BY <1>2, <1>10, <1>11, <2>1, <2>2, <2>3 DEF StreamTypeOK
<1>14. ClocksFollow'
  <2>1. stream' # "off"
    BY <1>2 DEF More
  <2>2. Len(arrivals') + reasoned' <= MaxChunks
    BY <1>2, <1>3, <1>4, <1>10 DEF More
  <2>3. first' \in 0 .. clock /\ prev' = clock
    BY <1>2, BenchStep
  <2>4. ttft' <= clock
    BY <1>3, <1>12 DEF ClocksFollow
  <2> QED BY <1>2, <1>3, <2>1, <2>2, <2>3, <2>4 DEF ClocksFollow
<1>15. MarksFollow'
  <2>1. ASSUME NEW i \in 1 .. L + 1
        PROVE  /\ marks'[i][1] = arrivals'[i].at
               /\ marks'[i][1] <= clock'
               /\ marks'[i][2] = Before(i)' + Counted(arrivals[i].tokens)'
    <3>1. CASE i = L + 1
      <4>1. Before(i)' = SoFar
        <5>1. L + 1 - 1 = L /\ L > 0 => L \in 1 .. L
          BY <1>4
        <5>2. CASE L = 0
          <6>1. Before(i)' = 0 /\ Before(L + 1) = 0
            BY <3>1, <5>2 DEF Before
          <6> QED BY <1>6, <6>1
        <5>3. CASE L > 0
          <6>1. L + 1 # 1 /\ marks'[L] = marks[L]
            <7>1. L \in 1 .. L /\ L + 1 # 1
              BY <1>4, <5>3
            <7> QED BY <1>11, <7>1
          <6>2. Before(i)' = marks'[i - 1][2] /\ Before(i) = marks[i - 1][2]
            BY <3>1, <6>1 DEF Before
          <6>3. marks'[i - 1] = marks[i - 1]
            <7>1. i - 1 = L
              BY <1>4, <3>1
            <7> QED BY <6>1, <7>1
          <6>4. SoFar = Before(i)
            BY <1>6, <3>1
          <6> QED BY <6>2, <6>3, <6>4
        <5> QED BY <1>4, <5>2, <5>3
      <4>2. Counted(arrivals[i].tokens)' = Counted(n)
        BY <1>2, <1>8, <1>10, <3>1 DEF Counted
      <4>3. marks'[i] = m /\ arrivals'[i] = a
        BY <1>10, <1>11, <3>1
      <4> QED BY <1>2, <1>3, <1>8, <4>1, <4>2, <4>3
    <3>2. CASE i \in 1 .. L
      <4>1. i = 1 \/ i - 1 \in 1 .. L
        BY <1>4, <3>2
      <4>2. Before(i)' = Before(i)
        BY <1>11, <4>1 DEF Before
      <4>3. Counted(arrivals[i].tokens)' = Counted(arrivals[i].tokens)
        BY <1>2, <1>10, <3>2 DEF Counted
      <4> QED BY <1>2, <1>10, <1>11, <3>2, <4>2, <4>3 DEF MarksFollow, L
    <3> QED BY <1>4, <3>1, <3>2
  <2>2. ASSUME NEW i \in 1 .. L + 1, NEW j \in 1 .. L + 1, i <= j
        PROVE  marks'[i][1] <= marks'[j][1]
    <3>1. CASE j = L + 1
      BY <1>2, <1>8, <1>11, <2>1, <3>1
    <3>2. CASE j # L + 1
      <4>1. i \in 1 .. L /\ j \in 1 .. L
        BY <1>4, <2>2, <3>2
      <4> QED BY <1>11, <2>2, <4>1 DEF MarksFollow, L
    <3> QED BY <3>1, <3>2
  <2> QED BY <1>10, <1>11, <2>1, <2>2 DEF MarksFollow
<1>16. GapsFollow'
  <2> SUFFICES ASSUME reasoned = 0
               PROVE  /\ ttft' = first'
                      /\ first' # Never
                      /\ prev' = marks'[L + 1][1]
                      /\ Len(gaps') = L
                      /\ \A i \in 1 .. L : gaps'[i] = marks'[i + 1][1] - marks'[i][1]
    BY <1>2, <1>4, <1>11 DEF GapsFollow
  <2>1. ttft = first /\ (first = Never <=> L = 0)
    BY DEF GapsFollow, L
  <2>2. ttft' = first' /\ first' # Never /\ prev' = marks'[L + 1][1]
    <3>1. /\ first' \in 0 .. clock /\ prev' = clock
          /\ first # Never => first' = first
          /\ first = Never => first' = clock
      BY <1>2, BenchStep
    <3>2. ttft' = first'
      BY <1>12, <2>1, <3>1
    <3> QED BY <1>3, <1>8, <1>11, <3>1, <3>2
  <2>3. CASE L = 0
    <3>1. gaps' = gaps /\ Len(gaps) = 0
      BY <1>2, <2>1, <2>3, BenchStep DEF GapsFollow, L
    <3> QED BY <2>2, <2>3, <3>1
  <2>4. CASE L > 0
    <3>1. gaps' = Append(gaps, clock - prev)
      BY <1>2, <1>4, <2>1, <2>4, BenchStep
    <3>2. Len(gaps) = L - 1 /\ prev = marks[L][1]
      BY <1>4, <2>4 DEF GapsFollow, L
    <3>3. prev \in Int
      BY DEF StreamTypeOK
    <3>4. clock - prev \in Int
      BY <1>3, <3>3
    <3>5. gaps \in Seq(Int)
      BY <1>3
    <3>6. Len(gaps') = L /\ gaps'[L] = clock - prev /\ \A i \in 1 .. L - 1 : gaps'[i] = gaps[i]
      BY <1>4, <3>1, <3>2, <3>4, <3>5, AppendProperties
    <3>7. gaps'[L] = marks'[L + 1][1] - marks'[L][1]
      BY <1>4, <1>8, <1>11, <2>4, <3>2, <3>6
    <3>8. ASSUME NEW i \in 1 .. L - 1 PROVE gaps'[i] = marks'[i + 1][1] - marks'[i][1]
      <4>1. i \in 1 .. L /\ i + 1 \in 1 .. L
        BY <1>4
      <4>2. gaps[i] = marks[i + 1][1] - marks[i][1]
        BY <3>2 DEF GapsFollow
      <4> QED BY <1>11, <3>6, <4>1, <4>2
    <3> QED BY <1>4, <2>2, <2>4, <3>6, <3>7, <3>8
  <2> QED BY <1>4, <2>3, <2>4
<1> QED BY <1>13, <1>14, <1>15, <1>16

LEMMA StreamStep == StreamInv /\ [StreamNext]_streamVars => StreamInv'
<1> SUFFICES ASSUME StreamInv, [StreamNext]_streamVars PROVE StreamInv'
  OBVIOUS
<1> USE DEF StreamInv
<1>1. CASE OpenStream
  <2>1. Len(arrivals) = 0 /\ Len(marks) = 0
    BY <1>1 DEF OpenStream, ClocksFollow, MarksFollow
  <2>2. StreamTypeOK'
    BY <1>1 DEF OpenStream, StreamTypeOK
  <2>3. ClocksFollow' /\ GapsFollow'
    BY <1>1 DEF OpenStream, ClocksFollow, GapsFollow
  <2>4. MarksFollow'
    BY <1>1, <2>1 DEF OpenStream, MarksFollow
  <2> QED BY <2>2, <2>3, <2>4
<1>2. CASE Pass
  <2>1. clock \in 0 .. MaxClock /\ clock' = clock + 1 /\ clock < MaxClock
    BY <1>2 DEF Pass, StreamTypeOK
  <2>2. UNCHANGED <<stream, perToken, first, prev, gaps, ttft, marks, arrivals, reasoned>>
    BY <1>2 DEF Pass
  <2>3. StreamTypeOK'
    BY <2>1, <2>2 DEF StreamTypeOK
  <2>4. ClocksFollow'
    BY <2>1, <2>2 DEF ClocksFollow, StreamTypeOK
  <2>5. MarksFollow'
    <3>1. ASSUME NEW i \in 1 .. Len(marks) PROVE marks[i][1] <= clock + 1
      <4>1. marks[i] \in (0 .. MaxClock) \X Nat
        BY DEF StreamTypeOK
      <4> QED BY <2>1, <4>1 DEF MarksFollow
    <3>2. \A i : Before(i)' = Before(i) /\ \A n : Counted(n)' = Counted(n)
      BY <2>2 DEF Before, Counted
    <3> QED BY <2>1, <2>2, <3>1, <3>2 DEF MarksFollow
  <2>6. GapsFollow'
    BY <2>2 DEF GapsFollow
  <2> QED BY <2>3, <2>4, <2>5, <2>6
<1>3. CASE Chunk
  BY <1>3, ChunkStep
<1>4. CASE Reasoning
  <2>1. /\ reasoned \in 0 .. MaxChunks /\ Len(arrivals) + reasoned < MaxChunks
        /\ Len(arrivals) \in Nat /\ reasoned' = reasoned + 1 /\ BenchReads
        /\ stream = "open"
    BY <1>4 DEF Reasoning, More, StreamTypeOK
  <2>2. UNCHANGED <<stream, clock, perToken, ttft, marks, arrivals>>
    BY <1>4 DEF Reasoning
  <2>3. /\ first' \in 0 .. clock /\ prev' = clock /\ clock \in 0 .. MaxClock
        /\ gaps' \in Seq(0 .. MaxClock)
    BY <2>1, BenchStep DEF StreamTypeOK
  <2>4. StreamTypeOK'
    BY <2>1, <2>2, <2>3 DEF StreamTypeOK
  <2>5. ClocksFollow'
    BY <2>1, <2>2, <2>3 DEF ClocksFollow
  <2>6. MarksFollow'
    BY <2>2 DEF MarksFollow, Before, Counted
  <2>7. GapsFollow'
    BY <2>1 DEF GapsFollow
  <2> QED BY <2>4, <2>5, <2>6, <2>7
<1>5. CASE OtherLine \/ CloseStream \/ UNCHANGED streamVars
  <2>1. UNCHANGED <<clock, perToken, first, prev, gaps, ttft, marks, arrivals, reasoned>>
    BY <1>5 DEF OtherLine, SkipsLine, CloseStream, streamVars
  <2>2. stream' \in {stream, "closed"}
    BY <1>5 DEF OtherLine, CloseStream, streamVars
  <2>3. StreamTypeOK' /\ ClocksFollow' /\ GapsFollow'
    BY <2>1, <2>2 DEF StreamTypeOK, ClocksFollow, GapsFollow
  <2>4. MarksFollow'
    BY <2>1 DEF MarksFollow, Before, Counted
  <2> QED BY <2>3, <2>4
<1> QED BY <1>1, <1>2, <1>3, <1>4, <1>5 DEF StreamNext

(* The marks end at what the server sent: both are sums of the same terms. *)
LEMMA InvMeansAgree == StreamInv => ClientsAgree
<1> SUFFICES ASSUME StreamInv, reasoned = 0
             PROVE  /\ ttft = first
                    /\ Len(marks) = Len(arrivals)
                    /\ gaps = [i \in 1 .. Len(marks) - 1 |-> marks[i + 1][1] - marks[i][1]]
                    /\ perToken => SoFar = ServerTokens
  BY DEF ClientsAgree
<1> USE DEF StreamInv
<1> DEFINE L == Len(marks)
<1>1. /\ marks \in Seq((0 .. MaxClock) \X Nat) /\ gaps \in Seq(0 .. MaxClock)
      /\ arrivals \in Seq([at : 0 .. MaxClock, tokens : 1 .. MaxTokens])
  BY DEF StreamTypeOK
<1>2. ttft = first /\ L = Len(arrivals) /\ L \in Nat
  BY <1>1 DEF GapsFollow, MarksFollow
<1>3. gaps = [i \in 1 .. L - 1 |-> marks[i + 1][1] - marks[i][1]]
  <2>1. 1 .. Len(gaps) = 1 .. L - 1
    BY <1>2 DEF GapsFollow
  <2>2. gaps = [i \in 1 .. Len(gaps) |-> gaps[i]]
    BY <1>1
  <2>3. gaps = [i \in 1 .. Len(gaps) |-> marks[i + 1][1] - marks[i][1]]
    BY <2>2 DEF GapsFollow
  <2> QED BY <2>1, <2>3
<1>4. ASSUME perToken PROVE SoFar = ServerTokens
  <2> DEFINE g == [i \in 0 .. L |-> IF i = 0 THEN 0 ELSE marks[i][2]]
             f == [i \in DOMAIN arrivals |-> arrivals[i].tokens]
  <2>1. \A i \in 1 .. L : marks[i] \in (0 .. MaxClock) \X Nat
    BY <1>1
  <2>2. g \in [0 .. L -> Int]
    BY <2>1
  <2>3. g[0] = 0
    BY <1>2
  <2>4. ASSUME NEW i \in 1 .. L PROVE g[i] = g[i - 1] + f[i]
    <3>1. marks[i][2] = Before(i) + Counted(arrivals[i].tokens)
      BY DEF MarksFollow
    <3>2. Counted(arrivals[i].tokens) = f[i]
      BY <1>1, <1>2, <1>4 DEF Counted
    <3>3. Before(i) = g[i - 1]
      BY <1>2 DEF Before
    <3> QED BY <3>1, <3>2, <3>3
  <2>5. SoFar = g[L]
    BY <1>1, <1>2 DEF SoFar
  <2> HIDE DEF g, f, L
  <2>6. SumOf(f, L) = g[L]
    <3>1. L \in Nat
      BY <1>2
    <3>2. \A i \in 1 .. L : g[i] = g[i - 1] + f[i]
      BY <2>4
    <3> QED BY <2>2, <2>3, <3>1, <3>2, SumIs
  <2>7. ServerTokens = SumOf(f, L)
    BY <1>2 DEF ServerTokens, f
  <2> QED BY <2>5, <2>6, <2>7
<1> QED BY <1>2, <1>3, <1>4

(* Two clients of one stream agree on its gaps, and on its tokens when     *)
(* every delta lists them.                                                 *)
THEOREM StreamAgrees == StreamSpec => []ClientsAgree
BY StreamInit, StreamStep, InvMeansAgree, PTL DEF StreamSpec

-----------------------------------------------------------------------------
LEMMA TimesOrder ==
  ASSUME NEW a \in Nat, NEW b \in Nat, NEW c \in Nat, b <= c
  PROVE  a * b <= a * c
<1>1. PICK d \in Nat : c = b + d
  <2>1. c - b \in Nat /\ c = b + (c - b)
    OBVIOUS
  <2> QED BY <2>1
<1>2. a * c = a * b + a * d
  BY <1>1
<1>3. a * d \in Nat /\ a * b \in Nat
  OBVIOUS
<1> QED BY <1>2, <1>3

LEMMA OuterMarks ==
  ASSUME NEW b \in Nat, NEW S \in SUBSET (1 .. b), S # {}
  PROVE  /\ FirstOf(S) \in S /\ \A i \in S : FirstOf(S) <= i
         /\ LastOf(S) \in S /\ \A i \in S : LastOf(S) >= i
<1>1. \E m \in S : \A n \in S : m <= n
  BY Least
<1>2. \E m \in S : \A n \in S : m >= n
  <2>1. S \in SUBSET (0 .. b)
    OBVIOUS
  <2> QED BY <2>1, Greatest
<1> QED BY <1>1, <1>2 DEF FirstOf, LastOf

LEMMA StartOrder ==
  ASSUME StreamInv, Len(marks) >= 1
  PROVE  /\ Len(marks) \in Nat /\ DOMAIN marks = 1 .. Len(marks)
         /\ \A i \in 1 .. Len(marks) : Start(i) \in Nat /\ Start(i) <= Span
         /\ \A i, j \in 1 .. Len(marks) : i <= j => Start(i) <= Start(j)
         /\ Span \in Nat
<1> USE DEF StreamInv
<1>1. marks \in Seq((0 .. MaxClock) \X Nat) /\ Len(marks) \in Nat
  BY DEF StreamTypeOK
<1>2. \A i \in 1 .. Len(marks) : marks[i][1] \in Nat
  BY <1>1
<1>3. \A i, j \in 1 .. Len(marks) : i <= j => marks[i][1] <= marks[j][1]
  BY DEF MarksFollow
<1>4. 1 \in 1 .. Len(marks) /\ Len(marks) \in 1 .. Len(marks)
  BY <1>1
<1>5. \A i, j \in 1 .. Len(marks) : i <= j => Start(i) <= Start(j)
  BY <1>2, <1>3, <1>4 DEF Start
<1>6. ASSUME NEW i \in 1 .. Len(marks) PROVE Start(i) \in Nat
  <2>1. marks[1][1] <= marks[i][1] /\ marks[1][1] \in Nat /\ marks[i][1] \in Nat
    BY <1>2, <1>3, <1>4
  <2> QED BY <2>1 DEF Start
<1>7. \A i \in 1 .. Len(marks) : i <= Len(marks)
  BY <1>1
<1> QED BY <1>1, <1>4, <1>5, <1>6, <1>7 DEF Span

(* Every chunk before the last instant has its window...                   *)
LEMMA WindowsCover ==
  ASSUME StreamInv, Len(marks) >= 1
  PROVE  UNION {InWindow(k) : k \in Windows} = {i \in DOMAIN marks : Start(i) < Span}
<1>1. ASSUME NEW k \in Windows, NEW i \in InWindow(k) PROVE i \in DOMAIN marks /\ Start(i) < Span
  <2>1. i \in 1 .. Len(marks) /\ NumWindows * Start(i) < Span * (k + 1)
    BY <1>1, StartOrder DEF InWindow
  <2>2. Start(i) \in Nat /\ Span \in Nat /\ k + 1 \in Nat /\ k + 1 <= NumWindows
    BY <2>1, StartOrder DEF Windows
  <2>3. Span * (k + 1) <= Span * NumWindows
    BY <2>2, TimesOrder
  <2>4. Span <= Start(i) => NumWindows * Span <= NumWindows * Start(i)
    BY <2>2, TimesOrder
  <2>5. Span * NumWindows = NumWindows * Span
    BY <2>2
  <2> QED BY <2>1, <2>2, <2>3, <2>4, <2>5, StartOrder
<1>2. ASSUME NEW i \in DOMAIN marks, Start(i) < Span PROVE \E k \in Windows : i \in InWindow(k)
  <2> DEFINE K == {k \in 0 .. NumWindows - 1 : NumWindows * Start(i) < Span * (k + 1)}
  <2>1. i \in 1 .. Len(marks) /\ Start(i) \in Nat /\ Span \in Nat
    BY StartOrder
  <2>2. NumWindows * Start(i) < Span * NumWindows
    <3>1. NumWindows * (Start(i) + 1) <= NumWindows * Span
      BY <1>2, <2>1, TimesOrder
    <3>2. NumWindows * (Start(i) + 1) = NumWindows * Start(i) + NumWindows
      BY <2>1
    <3>3. NumWindows * Span = Span * NumWindows
      BY <2>1
    <3>4. NumWindows * Start(i) \in Nat /\ NumWindows * Span \in Nat
      BY <2>1
    <3> QED BY <3>1, <3>2, <3>3, <3>4
  <2>3. NumWindows - 1 \in K
    BY <2>2
  <2>4. PICK k \in K : \A j \in K : k <= j
    <3>1. K \subseteq Nat
      OBVIOUS
    <3>2. K # {}
      BY <2>3
    <3> HIDE DEF K
    <3> QED BY <3>1, <3>2, Least
  <2>5. Span * k <= NumWindows * Start(i)
    <3>1. CASE k = 0
      BY <2>1, <3>1
    <3>2. CASE k # 0
      <4>1. k - 1 \in 0 .. NumWindows - 1 /\ k - 1 \notin K /\ k - 1 + 1 = k
        BY <2>4, <3>2
      <4>2. ~ (NumWindows * Start(i) < Span * k)
        BY <4>1
      <4>3. NumWindows * Start(i) \in Nat /\ Span * k \in Nat
        BY <2>1
      <4> QED BY <4>2, <4>3
    <3> QED BY <3>1, <3>2
  <2> QED BY <2>4, <2>5 DEF InWindow, Windows
<1> QED BY <1>1, <1>2

(* ...and only one.                                                        *)
LEMMA WindowsApart ==
  ASSUME StreamInv, Len(marks) >= 1, NEW k \in Windows, NEW j \in Windows, j < k
  PROVE  InWindow(j) \cap InWindow(k) = {}
<1> SUFFICES ASSUME NEW i \in InWindow(j), i \in InWindow(k) PROVE FALSE
  OBVIOUS
<1>1. i \in 1 .. Len(marks) /\ NumWindows * Start(i) < Span * (j + 1) /\ Span * k <= NumWindows * Start(i)
  BY StartOrder DEF InWindow
<1>2. Start(i) \in Nat /\ Span \in Nat /\ j + 1 \in Nat /\ k \in Nat /\ j + 1 <= k
  BY <1>1, StartOrder DEF Windows
<1>3. Span * (j + 1) <= Span * k
  BY <1>2, TimesOrder
<1>4. NumWindows * Start(i) \in Nat /\ Span * (j + 1) \in Nat /\ Span * k \in Nat
  BY <1>2
<1> QED BY <1>1, <1>3, <1>4

LEMMA WindowIsShort ==
  ASSUME StreamInv, Len(marks) >= 1, NEW k \in Windows, InWindow(k) # {}
  PROVE  WindowSeconds(k) * NumWindows < Span
<1> DEFINE F == FirstOf(InWindow(k))
           G == LastOf(InWindow(k))
<1>1. F \in InWindow(k) /\ G \in InWindow(k)
  BY StartOrder, OuterMarks DEF InWindow
<1> HIDE DEF F, G
<1>2. /\ F \in 1 .. Len(marks) /\ G \in 1 .. Len(marks)
      /\ Span * k <= NumWindows * Start(F)
      /\ NumWindows * Start(G) < Span * (k + 1)
  BY <1>1, StartOrder DEF InWindow
<1>3. Start(F) \in Nat /\ Start(G) \in Nat /\ Span \in Nat /\ k \in Nat
  BY <1>2, StartOrder DEF Windows
<1>4. Span * (k + 1) = Span * k + Span
  BY <1>3
<1>5. marks[1][1] \in Int /\ marks[F][1] \in Int /\ marks[G][1] \in Int
  <2>1. marks \in Seq((0 .. MaxClock) \X Nat) /\ 1 \in 1 .. Len(marks)
    BY StartOrder DEF StreamInv, StreamTypeOK
  <2>2. \A i \in 1 .. Len(marks) : marks[i] \in (0 .. MaxClock) \X Nat
    BY <2>1
  <2> QED BY <1>2, <2>1, <2>2
<1>6. WindowSeconds(k) = Start(G) - Start(F)
  BY <1>5 DEF WindowSeconds, Start, F, G
<1>7. (Start(G) - Start(F)) * NumWindows = NumWindows * Start(G) - NumWindows * Start(F)
  BY <1>3
<1>8. /\ NumWindows * Start(G) \in Nat /\ NumWindows * Start(F) \in Nat
      /\ Span * k \in Nat /\ Span * (k + 1) \in Nat
  BY <1>3
<1>9. NumWindows * Start(G) - NumWindows * Start(F) < Span
  BY <1>2, <1>3, <1>4, <1>8
<1> QED BY <1>6, <1>7, <1>9

LEMMA Between ==
  \A lower, a, x, b, upper \in Nat :
    lower <= a /\ a <= x /\ x <= b /\ b < upper => lower <= x /\ x < upper
OBVIOUS

(* A window holds every mark between its first and its last.               *)
LEMMA WindowIsWhole ==
  ASSUME StreamInv, Len(marks) >= 1, NEW k \in Windows,
         NEW a \in InWindow(k), NEW b \in InWindow(k), NEW i \in 1 .. Len(marks), a <= i, i <= b
  PROVE  i \in InWindow(k)
<1>1. /\ a \in 1 .. Len(marks) /\ b \in 1 .. Len(marks)
      /\ Span * k <= NumWindows * Start(a)
      /\ NumWindows * Start(b) < Span * (k + 1)
  BY StartOrder DEF InWindow
<1>2. /\ Start(a) \in Nat /\ Start(i) \in Nat /\ Start(b) \in Nat /\ Span \in Nat /\ k \in Nat
      /\ Start(a) <= Start(i) /\ Start(i) <= Start(b)
  BY <1>1, StartOrder DEF Windows
<1>3. NumWindows * Start(a) <= NumWindows * Start(i) /\ NumWindows * Start(i) <= NumWindows * Start(b)
  BY <1>2, TimesOrder
<1>4. /\ NumWindows * Start(a) \in Nat /\ NumWindows * Start(i) \in Nat
      /\ NumWindows * Start(b) \in Nat /\ Span * k \in Nat /\ Span * (k + 1) \in Nat
  BY <1>2
<1>5. Span * k <= NumWindows * Start(i) /\ NumWindows * Start(i) < Span * (k + 1)
  BY <1>1, <1>3, <1>4, Between
<1> QED BY <1>5, StartOrder DEF InWindow

LEMMA WindowCounts ==
  ASSUME StreamInv, Len(marks) >= 1, NEW k \in Windows, InWindow(k) # {}
  PROVE  WindowTokens(k) = SumOf(ArrivedIn(k), Len(arrivals))
<1> DEFINE F == FirstOf(InWindow(k))
           G == LastOf(InWindow(k))
           L == Len(marks)
           f == ArrivedIn(k)
<1>1. /\ F \in InWindow(k) /\ \A i \in InWindow(k) : F <= i
      /\ G \in InWindow(k) /\ \A i \in InWindow(k) : i <= G
  BY StartOrder, OuterMarks DEF InWindow
<1>2. /\ L \in Nat /\ L = Len(arrivals) /\ DOMAIN arrivals = 1 .. L
      /\ F \in 1 .. L /\ G \in 1 .. L /\ F <= G
  <2>1. F \in 1 .. L /\ G \in 1 .. L /\ L \in Nat
    BY <1>1, StartOrder DEF InWindow
  <2>2. F <= G
    BY <1>1
  <2>3. arrivals \in Seq([at : 0 .. MaxClock, tokens : 1 .. MaxTokens]) /\ L = Len(arrivals)
    BY DEF StreamInv, StreamTypeOK, MarksFollow
  <2>4. DOMAIN arrivals = 1 .. L
    BY <2>3
  <2> QED BY <2>1, <2>2, <2>3, <2>4
<1>3. ASSUME NEW i \in 1 .. L
      PROVE  /\ marks[i][2] \in Nat
             /\ marks[i][2] = Before(i) + Counted(arrivals[i].tokens)
             /\ Counted(arrivals[i].tokens) \in Nat
  <2>1. marks \in Seq((0 .. MaxClock) \X Nat) /\ i \in 1 .. Len(marks)
    BY DEF StreamInv, StreamTypeOK
  <2>2. marks[i] \in (0 .. MaxClock) \X Nat
    BY <2>1
  <2>3. marks[i][2] = Before(i) + Counted(arrivals[i].tokens)
    BY DEF StreamInv, MarksFollow
  <2>4. arrivals[i] \in [at : 0 .. MaxClock, tokens : 1 .. MaxTokens]
    <3>1. arrivals \in Seq([at : 0 .. MaxClock, tokens : 1 .. MaxTokens]) /\ i \in 1 .. Len(arrivals)
      BY <1>2 DEF StreamInv, StreamTypeOK
    <3> QED BY <3>1, ElementOfSeq
  <2>5. Counted(arrivals[i].tokens) \in Nat
    BY <2>4 DEF Counted
  <2> QED BY <2>2, <2>3, <2>5
<1>4. ASSUME NEW i \in 1 .. L
      PROVE  f[i] = IF i \in InWindow(k) /\ i # F THEN Counted(arrivals[i].tokens) ELSE 0
  BY <1>2 DEF ArrivedIn
<1>4a. marks[F][2] \in Int /\ marks[G][2] \in Int /\ \A i \in 1 .. L : marks[i][2] \in Int
  BY <1>2, <1>3
<1>5. WindowTokens(k) = marks[G][2] - marks[F][2]
  BY DEF WindowTokens
<1> HIDE DEF F, G, f
<1> DEFINE At(i) == IF i < F THEN 0
                    ELSE IF i <= G THEN marks[i][2] - marks[F][2]
                    ELSE marks[G][2] - marks[F][2]
           g == [i \in 0 .. L |-> At(i)]
<1>6. g \in [0 .. L -> Int]
  <2>1. ASSUME NEW i \in 0 .. L PROVE At(i) \in Int
    <3>1. i < F \/ i \in 1 .. L
      BY <1>2
    <3> QED BY <1>4a, <3>1
  <2> QED BY <2>1
<1>7. g[0] = 0
  BY <1>2
<1>8. ASSUME NEW i \in 1 .. L PROVE g[i] = g[i - 1] + f[i]
  <2>1. i \in 0 .. L /\ i - 1 \in 0 .. L
    BY <1>2
  <2>2. g[i] = At(i) /\ g[i - 1] = At(i - 1)
    BY <2>1
  <2>3. CASE i < F
    <3>1. f[i] = 0
      BY <1>1, <1>2, <1>4, <2>3
    <3>2. At(i) = 0 /\ At(i - 1) = 0
      BY <1>2, <2>3
    <3> QED BY <2>2, <3>1, <3>2
  <2>4. CASE i = F
    <3>1. f[i] = 0
      BY <1>4, <2>4
    <3>2. At(i) = 0 /\ At(i - 1) = 0
      BY <1>2, <1>3, <2>4
    <3> QED BY <2>2, <3>1, <3>2
  <2>5. CASE F < i /\ i <= G
    <3>1. i \in InWindow(k) /\ i # F
      BY <1>1, <1>2, <2>5, WindowIsWhole
    <3>2. f[i] = Counted(arrivals[i].tokens)
      BY <1>4, <3>1
    <3>3. At(i) = marks[i][2] - marks[F][2]
      BY <1>2, <2>5
    <3>4. At(i - 1) = marks[i - 1][2] - marks[F][2]
      BY <1>2, <2>5
    <3>5. Before(i) = marks[i - 1][2] /\ i - 1 \in 1 .. L
      BY <1>2, <2>5 DEF Before
    <3>6. marks[i][2] = marks[i - 1][2] + f[i] /\ f[i] \in Int
      BY <1>3, <3>2, <3>5
    <3>7. marks[i - 1][2] \in Int /\ marks[F][2] \in Int
      BY <1>4a, <3>5
    <3> HIDE DEF At, g
    <3> QED BY <2>2, <3>3, <3>4, <3>6, <3>7
  <2>6. CASE G < i
    <3>1. f[i] = 0
      BY <1>1, <1>2, <1>4, <2>6
    <3>2. At(i) = marks[G][2] - marks[F][2] /\ At(i - 1) = marks[G][2] - marks[F][2]
      BY <1>2, <2>6
    <3>3. marks[G][2] - marks[F][2] \in Int
      BY <1>4a
    <3> HIDE DEF At, g
    <3> QED BY <2>2, <3>1, <3>2, <3>3
  <2> QED BY <1>2, <2>3, <2>4, <2>5, <2>6
<1>9. g[L] = marks[G][2] - marks[F][2]
  BY <1>2
<1> HIDE DEF At, g, L
<1>10. SumOf(f, L) = g[L]
  <2>1. \A i \in 1 .. L : g[i] = g[i - 1] + f[i]
    BY <1>8
  <2>2. L \in Nat
    BY <1>2
  <2> QED BY <1>6, <1>7, <2>1, <2>2, SumIs
<1> QED BY <1>2, <1>5, <1>9, <1>10 DEF f

LEMMA InvMeansWindows == StreamInv => WindowsAreOfTheAnswer
<1> SUFFICES ASSUME StreamInv, Reports
             PROVE  /\ UNION {InWindow(k) : k \in Windows} = {i \in DOMAIN marks : Start(i) < Span}
                    /\ \A k \in Windows :
                         /\ \A j \in Windows \ {k} : InWindow(j) \cap InWindow(k) = {}
                         /\ InWindow(k) # {} =>
                              /\ WindowTokens(k) = SumOf(ArrivedIn(k), Len(arrivals))
                              /\ WindowSeconds(k) * NumWindows < Span
  BY DEF WindowsAreOfTheAnswer
<1>1. Len(marks) >= 1
  BY DEF Reports, StreamInv, StreamTypeOK
<1>2. ASSUME NEW k \in Windows, NEW j \in Windows \ {k} PROVE InWindow(j) \cap InWindow(k) = {}
  <2>1. j < k \/ k < j
    BY DEF Windows
  <2> QED BY <1>1, <2>1, WindowsApart
<1> QED BY <1>1, <1>2, WindowsCover, WindowCounts, WindowIsShort

(* Each chunk before the last instant falls in exactly one window, and a   *)
(* window reports the tokens and seconds of its chunks.                    *)
THEOREM StreamWindows == StreamSpec => []WindowsAreOfTheAnswer
BY StreamInit, StreamStep, InvMeansWindows, PTL DEF StreamSpec

-----------------------------------------------------------------------------
(* post_reseat_recover.sh                                                  *)

USE NodesAssumption, IndicesAssumption DEF NoAnswer, NoIp, Mismatch

(* The nodes whose shards were counted, and whose index was read.          *)
CountDone(n) == IF reseat \in {"count", "remount"} THEN n < node ELSE reseat # "off"
ReadDone(n)  == IF reseat = "gid" THEN n < node ELSE reseat \in {"restart", "exit0", "exit1"}

CountsSoFar == ~warned => \A n \in Nodes : CountDone(n) => n \in seen

(* `common` sums up the indices read so far.                               *)
CommonSoFar ==
  /\ \A n \in Nodes : ~ReadDone(n) => readings[n] = NoAnswer
  /\ common # Mismatch => \A n \in Nodes : readings[n] \in {NoAnswer, common}
  /\ common = Mismatch => Differ
  /\ common \notin {NoAnswer, Mismatch} => \E n \in Nodes : readings[n] = common

ReadsSoFar ==
  ~warned => /\ common # Mismatch
             /\ \A n \in Nodes : ReadDone(n) => readings[n] # NoAnswer

Status ==
  /\ reseat = "exit0" => common # Mismatch
  /\ reseat = "off" => node = 1

ReseatInv == ReseatTypeOK /\ CountsSoFar /\ CommonSoFar /\ ReadsSoFar /\ Status

-----------------------------------------------------------------------------
LEMMA ReseatInit == ReseatOff => ReseatInv
<1> SUFFICES ASSUME ReseatOff PROVE ReseatInv
  OBVIOUS
<1> USE DEF ReseatOff
<1>1. node \in Nodes
  BY DEF Nodes
<1>2. ReseatTypeOK
  BY <1>1 DEF ReseatTypeOK
<1>3. CountsSoFar /\ ReadsSoFar
  BY DEF CountsSoFar, ReadsSoFar, CountDone, ReadDone
<1>4. CommonSoFar
  BY DEF CommonSoFar
<1>5. Status
  BY DEF Status
<1> QED BY <1>2, <1>3, <1>4, <1>5 DEF ReseatInv

LEMMA ReseatTypes == ReseatTypeOK /\ [ReseatNext]_reseatVars => ReseatTypeOK'
<1> SUFFICES ASSUME ReseatTypeOK, [ReseatNext]_reseatVars PROVE ReseatTypeOK'
  OBVIOUS
<1> USE DEF ReseatTypeOK
<1>1. CASE StartReseat
  BY <1>1 DEF StartReseat
<1>n. ASSUME NEW loop, NEW next, NextNode(loop, next)
      PROVE  node' \in Nodes /\ reseat' \in {loop, next}
  BY <1>n DEF NextNode, Nodes
<1>2. CASE CountShards
  <2>1. node' \in Nodes /\ reseat' \in {"count", "gid", "remount"}
    BY <1>2, <1>n DEF CountShards
  <2>2. seen' \subseteq Nodes
    BY <1>2 DEF CountShards
  <2>3. UNCHANGED <<common, warned, readings, restarted>>
    BY <1>2 DEF CountShards
  <2> QED BY <2>1, <2>2, <2>3
<1>3. CASE RemountAndCount
  <2>1. node' \in Nodes /\ reseat' \in {"count", "gid"}
    BY <1>3, <1>n DEF RemountAndCount
  <2>2. seen' \subseteq Nodes
    BY <1>3 DEF RemountAndCount
  <2>3. warned' \in BOOLEAN
    BY <1>3 DEF RemountAndCount
  <2>4. UNCHANGED <<common, readings, restarted>>
    BY <1>3 DEF RemountAndCount
  <2> QED BY <2>1, <2>2, <2>3, <2>4
<1>4. CASE ReadIndex
  BY <1>4, <1>n DEF ReadIndex, Agreed
<1>5. CASE RestartEngine
  BY <1>5 DEF RestartEngine
<1>6. CASE UNCHANGED reseatVars
  BY <1>6 DEF reseatVars
<1> QED BY <1>1, <1>2, <1>3, <1>4, <1>5, <1>6 DEF ReseatNext

(* Counting moves on to a node all of whose predecessors were counted.     *)
LEMMA CountStep ==
  ASSUME ReseatInv, CountShards \/ RemountAndCount
  PROVE  CountsSoFar' /\ CommonSoFar' /\ ReadsSoFar' /\ Status'
<1> USE DEF ReseatInv, ReseatTypeOK, Nodes, NextNode
<1>1. UNCHANGED <<common, readings>>
  BY DEF CountShards, RemountAndCount
<1>2. \A n \in Nodes : ~ReadDone(n) /\ ~ReadDone(n)'
  BY DEF CountShards, RemountAndCount, ReadDone
<1>3. \A n \in Nodes : readings[n] = NoAnswer
  BY <1>2 DEF CommonSoFar
<1>4. common \in {NoAnswer, Mismatch}
  BY <1>3 DEF CommonSoFar
<1>5. common = NoAnswer
  BY <1>3, <1>4 DEF CommonSoFar, Differ
<1>6. CommonSoFar' /\ ReadsSoFar'
  BY <1>1, <1>2, <1>3, <1>5 DEF CommonSoFar, ReadsSoFar
<1>7. Status'
  BY DEF CountShards, RemountAndCount, Status
<1>8. CountsSoFar'
  BY DEF CountShards, RemountAndCount, CountsSoFar, CountDone
<1> QED BY <1>6, <1>7, <1>8

LEMMA ReadStep ==
  ASSUME ReseatInv, ReadIndex
  PROVE  CountsSoFar' /\ CommonSoFar' /\ ReadsSoFar' /\ Status'
<1> USE DEF ReseatInv, ReseatTypeOK, Nodes
<1>1. PICK idx \in Indices \cup {NoAnswer, NoIp} :
        /\ readings' = [readings EXCEPT ![node] = idx]
        /\ common' = Agreed(idx)
        /\ warned' = (warned \/ idx = NoAnswer \/ Agreed(idx) = Mismatch)
  BY DEF ReadIndex
<1>2. reseat = "gid" /\ NextNode("gid", "restart") /\ seen' = seen
  BY DEF ReadIndex
<1>3. \A n \in Nodes : ReadDone(n)' <=> ReadDone(n) \/ n = node
  BY <1>2 DEF ReadDone, NextNode
<1>4. readings[node] = NoAnswer
  BY <1>2 DEF CommonSoFar, ReadDone
<1>5. \A n \in Nodes : readings'[n] = IF n = node THEN idx ELSE readings[n]
  BY <1>1
<1>6. CommonSoFar'
  <2>1. \A n \in Nodes : ~ReadDone(n)' => readings'[n] = NoAnswer
    BY <1>3, <1>5 DEF CommonSoFar
  <2>2. CASE idx = NoAnswer
    <3>1. common' = common /\ readings' = readings
      BY <1>1, <1>4, <2>2 DEF Agreed
    <3> QED BY <2>1, <3>1 DEF CommonSoFar, Differ
  <2>3. CASE idx # NoAnswer /\ common \in {NoAnswer, idx}
    <3>1. common' = idx
      BY <1>1, <2>3 DEF Agreed
    <3> QED BY <1>5, <2>1, <2>3, <3>1 DEF CommonSoFar
  <2>4. CASE idx # NoAnswer /\ common \notin {NoAnswer, idx}
    <3>1. common' = Mismatch
      BY <1>1, <2>4 DEF Agreed
    <3>2. \E n, m \in Nodes :
            /\ readings[n] # NoAnswer /\ readings[m] # NoAnswer
            /\ readings[n] # readings[m] \/ (readings[n] = common /\ common # Mismatch)
      BY <2>4 DEF CommonSoFar, Differ
    <3>3. Differ'
      <4>1. CASE common = Mismatch
        BY <1>4, <1>5, <4>1 DEF CommonSoFar, Differ
      <4>2. CASE common # Mismatch
        <5>1. PICK n \in Nodes : readings[n] = common
          BY <2>4, <4>2 DEF CommonSoFar
        <5>2. n # node
          BY <1>4, <2>4, <5>1
        <5>3. readings'[n] = common /\ readings'[node] = idx
          BY <1>5, <5>1, <5>2
        <5> QED BY <2>4, <5>3 DEF Differ
      <4> QED BY <4>1, <4>2
    <3> QED BY <2>1, <3>1, <3>3 DEF CommonSoFar
  <2> QED BY <2>2, <2>3, <2>4
<1>7. ReadsSoFar'
  BY <1>1, <1>3, <1>5 DEF ReadsSoFar
<1>8. CountsSoFar'
  BY <1>1, <1>2 DEF CountsSoFar, CountDone, NextNode
<1>9. Status'
  BY <1>2 DEF Status, NextNode
<1> QED BY <1>6, <1>7, <1>8, <1>9

LEMMA ReseatStep == ReseatInv /\ [ReseatNext]_reseatVars => ReseatInv'
<1> SUFFICES ASSUME ReseatInv, [ReseatNext]_reseatVars PROVE ReseatInv'
  OBVIOUS
<1>1. ReseatTypeOK'
  BY ReseatTypes DEF ReseatInv
<1> USE DEF ReseatInv
<1>2. CASE StartReseat
  <2>1. reseat' = "count" /\ node' = 1 /\ UNCHANGED <<common, warned, seen, readings>>
    BY <1>2 DEF StartReseat, Status
  <2>2. \A n \in Nodes : ~CountDone(n)' /\ ~ReadDone(n)' /\ ~ReadDone(n)
    BY <1>2, <2>1 DEF StartReseat, CountDone, ReadDone, Nodes
  <2>3. CountsSoFar' /\ CommonSoFar' /\ ReadsSoFar'
    BY <2>1, <2>2 DEF CountsSoFar, CommonSoFar, ReadsSoFar, Differ
  <2>4. Status'
    BY <2>1 DEF Status
  <2> QED BY <1>1, <2>3, <2>4
<1>3. CASE CountShards \/ RemountAndCount
  BY <1>1, <1>3, CountStep
<1>4. CASE ReadIndex
  BY <1>1, <1>4, ReadStep
<1>5. CASE RestartEngine
  BY <1>1, <1>5 DEF RestartEngine, CountsSoFar, CommonSoFar, ReadsSoFar,
                    Status, CountDone, ReadDone, Differ
<1>6. CASE UNCHANGED reseatVars
  BY <1>1, <1>6 DEF reseatVars, CountsSoFar, CommonSoFar, ReadsSoFar,
                    Status, CountDone, ReadDone, Differ
<1> QED BY <1>2, <1>3, <1>4, <1>5, <1>6 DEF ReseatNext

LEMMA InvMeansHealed == ReseatInv => QuietMeansHealed
<1> SUFFICES ASSUME ReseatInv, reseat = "exit0" PROVE
      /\ ~Differ
      /\ ~warned => /\ seen = Nodes
                    /\ \E idx \in Indices \cup {NoIp} : \A n \in Nodes : readings[n] = idx
  BY DEF QuietMeansHealed
<1> USE DEF ReseatInv, ReseatTypeOK
<1>1. ~Differ
  BY DEF Status, CommonSoFar, Differ
<1>2. ASSUME ~warned
      PROVE  seen = Nodes /\ \E idx \in Indices \cup {NoIp} : \A n \in Nodes : readings[n] = idx
  <2>1. seen = Nodes
    BY <1>2 DEF CountsSoFar, CountDone
  <2>2. \A n \in Nodes : readings[n] = common /\ common # NoAnswer
    BY <1>2 DEF ReadsSoFar, ReadDone, CommonSoFar
  <2>3. 1 \in Nodes
    BY DEF Nodes
  <2>4. common \in Indices \cup {NoIp}
    BY <1>2, <2>2, <2>3 DEF ReadsSoFar
  <2> QED BY <2>1, <2>2, <2>4
<1> QED BY <1>1, <1>2

(* Status 0 means that no two nodes were read differently, whatever was    *)
(* read after a mismatch; without a warning it also means all shards seen  *)
(* and one reading everywhere.                                             *)
THEOREM QuietIsHealed == ReseatSpec => []QuietMeansHealed
BY ReseatInit, ReseatStep, InvMeansHealed, PTL DEF ReseatSpec

-----------------------------------------------------------------------------
(* The tools together.                                                     *)

(* Nothing has been asked of a deployment preflight.sh is not run on.      *)
LEMMA PreflightOffInv == PreflightOff => PreflightInv
<1> SUFFICES ASSUME PreflightOff PROVE PreflightInv
  OBVIOUS
<1> USE DEF PreflightOff
<1>1. TypeOK
  <2>1. lines \in [Ranks -> MountLists]
    BY SomeListAssumption
  <2>2. have \in [Ranks -> SUBSET Items] /\ newline \in [Ranks -> BOOLEAN]
    OBVIOUS
  <2>3. /\ asked \subseteq Options /\ input \in Seq(Files \cup {Comment})
        /\ rank \in 0 .. NumRanks /\ sshFailures \in 0 .. MaxSshFailures
        /\ pc = "exit" /\ fail = FALSE /\ unlisted = {}
    OBVIOUS
  <2> HIDE DEF PreflightOff
  <2> QED BY <2>1, <2>2, <2>3 DEF TypeOK
<1>2. RanksBehind
  <2>1. \A r \in Ranks : Present(r) /\ FilesChecked(r)
    BY DEF Present, FilesChecked, Items
  <2> QED BY <2>1 DEF RanksBehind
<1>3. Place /\ StepsBehind /\ LinesBehind
  BY DEF Place, StepsBehind, LinesBehind
<1> QED BY <1>1, <1>2, <1>3 DEF PreflightInv

ToolsInv == PreflightInv /\ GatesInv /\ StreamInv /\ ReseatInv

LEMMA ToolsStart == ToolsInit => ToolsInv
<1>1. ToolsInit => (Init \/ PreflightOff) /\ GatesOff /\ StreamOff /\ ReseatOff
  BY DEF ToolsInit
<1> QED BY <1>1, PreflightInit, PreflightOffInv, GatesInit, StreamInit, ReseatInit DEF ToolsInv

(* A step of one tool is a step of it, and of the others none.             *)
LEMMA OneTool ==
  [ToolsNext]_toolVars => /\ [Next]_vars /\ [GatesNext]_gatesVars
                          /\ [StreamNext]_streamVars /\ [ReseatNext]_reseatVars
<1>1. UNCHANGED toolVars => UNCHANGED <<vars, gatesVars, streamVars, reseatVars>>
  BY DEF toolVars
<1> QED BY <1>1 DEF ToolsNext

LEMMA ToolsStep == ToolsInv /\ [ToolsNext]_toolVars => ToolsInv'
BY OneTool, PreflightStep, GatesStep, StreamStep, ReseatStep DEF ToolsInv

LEMMA ToolsInvMeans ==
  ToolsInv => /\ ToolsTypeOK /\ PassMeansChecked /\ StatusIsTheAnswers
              /\ ClientsAgree /\ WindowsAreOfTheAnswer /\ QuietMeansHealed
<1>1. ToolsInv => ToolsTypeOK
  BY DEF ToolsInv, ToolsTypeOK, PreflightInv, GatesInv, StreamInv, ReseatInv
<1> QED BY <1>1, InvMeansChecked, InvMeansAnswers, InvMeansAgree, InvMeansWindows,
           InvMeansHealed DEF ToolsInv

(* The variables of all tools keep their types.                            *)
THEOREM ToolsTyped == ToolsSpec => []ToolsTypeOK
BY ToolsStart, ToolsStep, ToolsInvMeans, PTL DEF ToolsSpec

(* Whichever tool is run, each verdict means what it should.               *)
THEOREM ToolsVerdicts ==
  ToolsSpec => [](/\ PassMeansChecked /\ StatusIsTheAnswers /\ ClientsAgree
                  /\ WindowsAreOfTheAnswer /\ QuietMeansHealed)
BY ToolsStart, ToolsStep, ToolsInvMeans, PTL DEF ToolsSpec
=============================================================================
