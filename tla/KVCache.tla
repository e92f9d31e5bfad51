------------------------------- MODULE KVCache -------------------------------
(* What tools/kv_persist_policy.py promises of its tier, without slots,    *)
(* allocator, saver or index: a cache that outlives its process.  It may   *)
(* forget anything that is not being read, but what it serves is what the  *)
(* running configuration stored, and what it brings back at a start is     *)
(* what is still there.                                                    *)
EXTENDS Naturals

CONSTANTS
  Keys,     \* block hashes
  Configs   \* what the fingerprint tells apart

VARIABLES
  running,  \* a process is running
  config,   \* the configuration it runs
  hits,     \* the keys a lookup finds
  readers,  \* key -> loads under way
  kept      \* <<configuration, key>>: data that outlives the process

vars == <<running, config, hits, readers, kept>>

NoReaders == [k \in Keys |-> 0]
Served(d) == d[1] = config /\ d[2] \in hits

Init ==
  /\ running = FALSE /\ config \in Configs
  /\ hits = {} /\ readers = NoReaders /\ kept = {}

(* A block is stored; the tier need not serve it afterwards.               *)
Store(k) ==
  /\ running
  /\ kept' = kept \cup {<<config, k>>}
  /\ hits' \in {hits, hits \cup {k}}
  /\ UNCHANGED <<running, config, readers>>

Forget(k) ==
  /\ running
  /\ readers[k] = 0
  /\ hits' = hits \ {k}
  /\ UNCHANGED <<running, config, readers, kept>>

(* Space is needed: never that of a block which is being served.           *)
Overwrite(d) ==
  /\ running
  /\ ~Served(d)
  /\ kept' = kept \ {d}
  /\ UNCHANGED <<running, config, hits, readers>>

Read(k) ==
  /\ running /\ k \in hits
  /\ readers' = [readers EXCEPT ![k] = @ + 1]
  /\ UNCHANGED <<running, config, hits, kept>>

Release(k) ==
  /\ running /\ readers[k] > 0
  /\ readers' = [readers EXCEPT ![k] = @ - 1]
  /\ UNCHANGED <<running, config, hits, kept>>

Die ==
  /\ running /\ running' = FALSE
  /\ hits' = {} /\ readers' = NoReaders
  /\ UNCHANGED <<config, kept>>

Start(c) ==
  /\ ~running /\ running' = TRUE
  /\ config' = c
  /\ hits' \in SUBSET {k \in Keys : <<c, k>> \in kept}
  /\ UNCHANGED <<readers, kept>>

Next ==
  \/ \E k \in Keys : Store(k) \/ Forget(k) \/ Read(k) \/ Release(k)
  \/ \E d \in kept : Overwrite(d)
  \/ Die
  \/ \E c \in Configs : Start(c)

Spec == Init /\ [][Next]_vars
=============================================================================
