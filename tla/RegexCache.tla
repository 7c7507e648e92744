------------------------------- MODULE RegexCache -------------------------------
(***************************************************************************)
(* The compiled patterns that the steps of one engine share.  A lookup and *)
(* a publication hold the lock; the compilation between them does not, so  *)
(* that steps that run at the same time race for the same pattern.         *)
(***************************************************************************)
EXTENDS Integers, FiniteSets, Functions

CONSTANTS
  Tasks,
  Patterns,
  Long,          (* the patterns that are too long to be retained         *)
  Capacity,
  MaxCompiles    (* bound: the compilations of a behaviour                *)

ASSUME CacheAssumption ==
  /\ Long \subseteq Patterns /\ Capacity \in Nat \ {0} /\ MaxCompiles \in Nat

VARIABLES
  cache,         (* by pattern: the compilation that is retained           *)
  task,          (* by task: what it does, and for which pattern           *)
  compiled       (* the pattern of each compilation so far                 *)

cacheVars == <<cache, task, compiled>>

Idle == [at |-> "idle", pattern |-> 0, result |-> 0]

CacheInit ==
  /\ cache = [p \in {} |-> 0] /\ compiled = [n \in {} |-> 0]
  /\ task = [t \in Tasks |-> Idle]

\* A long pattern is not looked up.
Lookup(t, p) ==
  /\ task[t].at = "idle"
  /\ task' = [task EXCEPT ![t] =
       IF p \notin Long /\ p \in DOMAIN cache
       THEN [at |-> "done", pattern |-> p, result |-> cache[p]]
       ELSE [at |-> "miss", pattern |-> p, result |-> 0]]
  /\ UNCHANGED <<cache, compiled>>

\* The lock is not held.
Compile(t) ==
  LET n == Cardinality(DOMAIN compiled) + 1 IN
  /\ task[t].at = "miss" /\ n <= MaxCompiles
  /\ compiled' = [k \in 1 .. n |-> IF k = n THEN task[t].pattern ELSE compiled[k]]
  /\ task' = [task EXCEPT ![t].result = n,
                          ![t].at = IF task[t].pattern \in Long THEN "done" ELSE "publish"]
  /\ UNCHANGED cache

SingleEntry(p, n) == [q \in {p} |-> n]
Retain(kept, p, n) == [q \in DOMAIN kept \union {p} |-> IF q = p THEN n ELSE kept[q]]

\* mutant: a task that lost the race keeps its own compilation
PublishOwn(t) ==
  LET p == task[t].pattern IN
  /\ task[t].at = "publish"
  /\ cache' = IF p \in DOMAIN cache THEN cache
              ELSE IF Cardinality(DOMAIN cache) = Capacity THEN SingleEntry(p, task[t].result)
              ELSE Retain(cache, p, task[t].result)
  /\ task' = [task EXCEPT ![t].at = "done"]
  /\ UNCHANGED compiled

\* Another task may have published the pattern: its entry stays, and is the result.
Publish(t) ==
  LET p == task[t].pattern IN
  /\ task[t].at = "publish"
  /\ cache' = IF p \in DOMAIN cache THEN cache
              ELSE IF Cardinality(DOMAIN cache) = Capacity THEN SingleEntry(p, task[t].result)
              ELSE Retain(cache, p, task[t].result)
  /\ task' = [task EXCEPT ![t].at = "done", ![t].result = cache'[p]]
  /\ UNCHANGED compiled

Return(t) ==
  /\ task[t].at = "done"
  /\ task' = [task EXCEPT ![t] = Idle]
  /\ UNCHANGED <<cache, compiled>>

CacheNext ==
  \E t \in Tasks :
    \/ \E p \in Patterns : Lookup(t, p)
    \/ Compile(t) \/ Publish(t) \/ Return(t)

CacheSpec == CacheInit /\ [][CacheNext]_cacheVars

(***************************************************************************)
(* Properties                                                              *)
(***************************************************************************)
\* The cache holds no more than its capacity, whoever races, and never a long pattern.
RetainedBounded ==
  Cardinality(DOMAIN cache) <= Capacity /\ DOMAIN cache \intersect Long = {}

\* What a task is given is a compilation of the pattern it asked for, be it its own,
\* that of a task it raced with, or one found in the cache.
OwnPattern ==
  /\ \A t \in Tasks : task[t].at = "done" => compiled[task[t].result] = task[t].pattern
  /\ \A p \in DOMAIN cache : compiled[cache[p]] = p

\* An entry is never replaced by another of its pattern, and a step that drops
\* entries does so for a new pattern at capacity: racing tasks do not evict.
OnlyNewPatternsEvict ==
  [][/\ \A p \in DOMAIN cache \intersect DOMAIN cache' : cache'[p] = cache[p]
     /\ ~(DOMAIN cache \subseteq DOMAIN cache') =>
          Cardinality(DOMAIN cache) = Capacity /\ ~(DOMAIN cache' \subseteq DOMAIN cache)]_cacheVars

\* All the tasks that are given a pattern between two evictions of it are given the
\* same compilation, unless it is a long one.
OneResultShared ==
  [][\A t \in Tasks : task'[t].at = "done" /\ task[t].at # "done" /\ task'[t].pattern \notin Long =>
       task'[t].pattern \in DOMAIN cache' /\ cache'[task'[t].pattern] = task'[t].result]_cacheVars

\* Steps that race for the patterns of an engine: the cache stays within its capacity,
\* evicts only for a new pattern, and all who ask for a pattern while it is retained
\* share one compilation of that pattern and no other (RegexCache::get_or_compile).
CompilationsAreShared ==
  /\ [](RetainedBounded /\ OwnPattern)
  /\ OnlyNewPatternsEvict
  /\ OneResultShared
=============================================================================
