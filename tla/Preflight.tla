------------------------------ MODULE Preflight ------------------------------
(* tools/preflight.sh: one pass over the ranks of a deployment, asking     *)
(* each whether what the launcher will need is there.  Rank 0 is local,    *)
(* the others are asked over ssh, and any single ssh call may fail.        *)
EXTENDS Naturals, Sequences

CONSTANTS
  NumRanks,        \* nodes of NODE_IPS
  Files,           \* names of patch files
  Comment,         \* a blank line or a comment of mounts.txt
  MountLists,      \* the mounts.txt a rank may have: sequences of the above
  Newlines,        \* whether a mounts.txt ends with a newline: subset of BOOLEAN
  MaxSshFailures   \* bound: ssh calls that fail for no lasting reason

ASSUME RanksAssumption == NumRanks \in Nat \ {0} /\ MaxSshFailures \in Nat
ASSUME ListsAssumption == Comment \notin Files /\ MountLists \subseteq Seq(Files \cup {Comment})
ASSUME NewlinesAssumption == Newlines \subseteq BOOLEAN

Ranks   == 0 .. NumRanks - 1
Options == {"image", "nccl", "mounts", "extra"}   \* IMAGE, NCCL_DIR, PATCH_DIR, EXTRA_PATHS
Items   == Options \cup {"ssh", "memory"} \cup Files

VARIABLES
  asked,        \* the options that are set
  have,         \* rank -> what is there
  lines,        \* rank -> its mounts.txt
  newline,      \* rank -> its mounts.txt ends with a newline
  rank, pc,     \* where the script is
  input,        \* what the loop over mounts.txt can still read
  fail,         \* its variable `fail`
  sshFailures,
  unlisted      \* history: ranks whose patch files were never asked for

world  == <<asked, have, lines, newline>>
script == <<rank, pc, input, fail>>
vars   == <<world, script, sshFailures, unlisted>>

(* The types of the variables.                                             *)
TypeOK ==
  /\ asked \subseteq Options
  /\ have \in [Ranks -> SUBSET Items]
  /\ lines \in [Ranks -> MountLists]
  /\ newline \in [Ranks -> BOOLEAN]
  /\ rank \in 0 .. NumRanks
  /\ pc \in {"ssh", "image", "nccl", "mounts", "list", "cat", "files", "extra", "memory", "exit"}
  /\ input \in Seq(Files \cup {Comment})
  /\ fail \in BOOLEAN
  /\ sshFailures \in 0 .. MaxSshFailures
  /\ unlisted \subseteq Ranks

Init ==
  /\ asked \in SUBSET Options
  /\ have \in [Ranks -> {Items} \cup {Items \ {item} : item \in Items}]
  /\ \A r \in Ranks : r = 0 => "ssh" \in have[r]
  /\ lines \in [Ranks -> MountLists]
  /\ newline \in [Ranks -> Newlines]
  /\ rank = 0 /\ pc = "ssh" /\ input = <<>>
  /\ fail = FALSE
  /\ sshFailures = 0 /\ unlisted = {}

-----------------------------------------------------------------------------
(* (A definition whose name ends in _Something is a plausible bug in the   *)
(* definition of that name, kept to see that the properties notice it.)    *)

(* `remote`: the exit status of a test for an item on the current rank.    *)
Answers(item, yes) ==
  \/ yes = (item \in have[rank] /\ "ssh" \in have[rank]) /\ UNCHANGED sshFailures
  \/ /\ rank # 0 /\ sshFailures < MaxSshFailures
     /\ ~yes /\ sshFailures' = sshFailures + 1

Goes(from, to) == pc = from /\ pc' = to /\ UNCHANGED <<world, rank>>

NextRank ==
  /\ rank' = rank + 1
  /\ pc' = IF rank + 1 = NumRanks THEN "exit" ELSE "ssh"
  /\ UNCHANGED world

Reach ==
  /\ pc = "ssh"
  /\ \E yes \in BOOLEAN :
       /\ Answers("ssh", yes)
       /\ IF yes THEN Goes("ssh", "image") /\ UNCHANGED fail
                 ELSE NextRank /\ fail' = TRUE
  /\ UNCHANGED <<input, unlisted>>

(* ok or bad, for an option that is set.                                   *)
Check(item, to) ==
  /\ Goes(item, to)
  /\ IF item \in asked
     THEN \E yes \in BOOLEAN : Answers(item, yes) /\ fail' = (fail \/ ~yes)
     ELSE UNCHANGED <<fail, sshFailures>>
  /\ UNCHANGED <<input, unlisted>>

Unlists(failed) == unlisted' = IF failed THEN unlisted \cup {rank} ELSE unlisted

(* The second test for mounts.txt, whose answer is not reported.           *)
TestList ==
  /\ pc = "list"
  /\ IF "mounts" \in asked
     THEN \E yes \in BOOLEAN :
            /\ Answers("mounts", yes) /\ Unlists(~yes)
            /\ Goes("list", IF yes THEN "cat" ELSE "extra")
     ELSE Goes("list", "extra") /\ UNCHANGED <<sshFailures, unlisted>>
  /\ UNCHANGED <<input, fail>>

(* `read` returns only the lines that end in a newline.                    *)
Readable(r) == IF newline[r] \/ lines[r] = <<>> THEN lines[r]
               ELSE SubSeq(lines[r], 1, Len(lines[r]) - 1)

CatOutput_WithErrors(yes) == IF yes THEN Readable(rank) ELSE <<"cat: no such file">>

CatOutput(yes) == IF yes THEN Readable(rank) ELSE <<>>

CatList ==
  /\ Goes("cat", "files")
  /\ \E yes \in BOOLEAN : Answers("mounts", yes) /\ Unlists(~yes) /\ input' = CatOutput(yes)
  /\ UNCHANGED fail

SkipsComment_Never == FALSE

SkipsComment == Head(input) = Comment

SkipLine ==
  /\ Goes("files", "files")
  /\ input # <<>> /\ SkipsComment
  /\ input' = Tail(input)
  /\ UNCHANGED <<fail, sshFailures, unlisted>>

Records_InSubshell(yes) == fail' = fail

Records(yes) == fail' = (fail \/ ~yes)

(* The test runs with the loop's input as its own: bash leaves it alone,   *)
(* ssh reads as much of it as it gets before the test returns.             *)
CheckFile ==
  /\ Goes("files", "files")
  /\ input # <<>> /\ ~SkipsComment
  /\ \E yes \in BOOLEAN : Answers(Head(input), yes) /\ Records(yes)
  /\ \E eaten \in 0 .. Len(input) - 1 :
       /\ rank = 0 => eaten = 0
       /\ input' = SubSeq(input, 2 + eaten, Len(input))
  /\ UNCHANGED unlisted

EndOfList ==
  /\ Goes("files", "extra") /\ input = <<>>
  /\ UNCHANGED <<input, fail, sshFailures, unlisted>>

(* Without an answer the memory available counts as 0.                     *)
CheckMemory ==
  /\ pc = "memory" /\ NextRank
  /\ \E yes \in BOOLEAN : Answers("memory", yes) /\ fail' = (fail \/ ~yes)
  /\ UNCHANGED <<input, unlisted>>

Next ==
  \/ Reach \/ Check("image", "nccl") \/ Check("nccl", "mounts") \/ Check("mounts", "list")
  \/ TestList \/ CatList \/ SkipLine \/ CheckFile \/ EndOfList
  \/ Check("extra", "memory") \/ CheckMemory

Spec == Init /\ [][Next]_vars

-----------------------------------------------------------------------------
(* Properties.                                                             *)

Listed(list) == {list[i] : i \in DOMAIN list} \ {Comment}
Passed       == pc = "exit" /\ ~fail
Present(r)   == (asked \cup {"ssh", "memory"}) \subseteq have[r]

FirstFile(list) ==
  {list[i] : i \in {n \in DOMAIN list : list[n] # Comment /\ \A j \in 1 .. n - 1 : list[j] = Comment}}

(* "PREFLIGHT OK" is printed only if every rank has everything it was      *)
(* asked for apart from patch files, the head has all patch files of its   *)
(* mounts.txt that `read` sees, and any other rank the first of them - if  *)
(* the two calls that find and fetch that rank's mounts.txt went through,  *)
(* for no failure of theirs is reported (lines 60 and 65).                 *)
PassMeansChecked ==
  Passed => \A r \in Ranks :
    /\ Present(r)
    /\ "mounts" \in asked /\ r \notin unlisted => FirstFile(Readable(r)) \subseteq have[r]
    /\ "mounts" \in asked /\ r = 0 => r \notin unlisted /\ Listed(Readable(r)) \subseteq have[r]

(* "every patch file must exist locally, on every rank" (line 57).         *)
EveryPatchFileChecked ==
  Passed /\ "mounts" \in asked => \A r \in Ranks : Listed(lines[r]) \subseteq have[r]
=============================================================================
