----------------------------- MODULE EventWriter ----------------------------
(***************************************************************************)
(* helpers/events.py: emit, with the descriptor that a process keeps.      *)
(*                                                                         *)
(* Threads of a job emit lines; the job may fork in any of them, name      *)
(* another events file, open and close files of its own, and a write may   *)
(* fail.  The cache is read and changed under _lock, the write is outside  *)
(* it.  A finaliser of a response may run where the collector may: in the  *)
(* thread that is opening the file, with the lock held.                    *)
(*                                                                         *)
(* Lines are one write each; a write of a part of a line is not modelled.  *)
(***************************************************************************)
EXTENDS Integers

CONSTANTS
  Threads,     \* the threads of the parent
  Child,       \* the thread of the child, a copy of the one that forked
  Paths,       \* names that SCRAPESCOPE_EVENTS takes, the first one first
  Descriptors, \* descriptor numbers
  Habits,      \* what the job does besides: sets of "forks", "renames", "opens", "fills", "forgets"
  MaxLines     \* bound: lines that a thread emits

Everyone  == Threads \cup {Child}
Processes == {"parent", "child"}
Home(t)   == IF t = Child THEN "child" ELSE "parent"
Nobody    == "nobody"
Closed    == -1     \* what a free descriptor names; a file of the job's own is Own
Own       == -2
NoCache   == [pid |-> Nobody, path |-> Closed, fd |-> Closed]

ASSUME WriterAssumption ==
  /\ Child \notin Threads /\ Nobody \notin Everyone
  /\ Paths \subseteq Nat /\ Paths # {} /\ Descriptors \subseteq Nat
  /\ Habits \subseteq SUBSET {"forks", "renames", "opens", "fills", "forgets"}
  /\ MaxLines \in Nat

VARIABLES
  habits,   \* one of Habits
  named,    \* named[p]: the value of SCRAPESCOPE_EVENTS
  cache,    \* cache[p]: _fd_cache
  lock,     \* lock[p]: who holds _lock
  table,    \* table[p][d]: what descriptor d of p names
  thread,   \* thread[t]: where it is in emit, the path and the descriptor it has
  forked,   \* "no"; or the child exists, forked "quietly" or in the "middle" of a _descriptor
  lines,    \* lines[t]: how many t began, and whether one went into another file
  closed    \* closed[p]: what the helper's closes in p hit: events files' paths, Own, Closed

writerVars == <<habits, named, cache, lock, table, thread, forked, lines, closed>>

Least(n, S) == n \in S /\ \A m \in S : n <= m

InitWriter ==
  /\ habits \in Habits
  /\ \E n \in Paths : Least(n, Paths) /\ named = [p \in Processes |-> n]
  /\ cache = [p \in Processes |-> NoCache]
  /\ lock = [p \in Processes |-> Nobody]
  /\ table = [p \in Processes |-> [d \in Descriptors |-> Closed]]
  /\ thread = [t \in Everyone |->
       [pc |-> IF t = Child THEN "unborn" ELSE "idle", path |-> Closed, fd |-> Closed]]
  /\ forked = "no"
  /\ lines = [t \in Everyone |-> [begun |-> 0, stray |-> FALSE]]
  /\ closed = [p \in Processes |-> {}]

Moves(t, pc) == thread' = [thread EXCEPT ![t].pc = pc]
Free(p) == {d \in Descriptors : table[p][d] = Closed}
Becomes(p, d, f) == table' = [table EXCEPT ![p][d] = f]

-----------------------------------------------------------------------------
(* emit.                                                                    *)

Emit(t) ==
  /\ thread[t].pc = "idle" /\ lines[t].begun < MaxLines
  /\ thread' = [thread EXCEPT ![t] = [pc |-> "wants", path |-> named[Home(t)], fd |-> Closed]]
  /\ lines' = [lines EXCEPT ![t].begun = @ + 1]
  /\ UNCHANGED <<habits, named, cache, lock, table, forked, closed>>

\* A cached descriptor of this process and path.
CachedOfAnyPath(t) == cache[Home(t)].pid = Home(t)
Cached(t) == cache[Home(t)].pid = Home(t) /\ cache[Home(t)].path = thread[t].path

\* _descriptor: the lock; a cached descriptor is returned, else the lock is kept.
Enter(t) ==
  LET p == Home(t) IN
  /\ thread[t].pc = "wants" /\ lock[p] = Nobody
  /\ IF Cached(t)
     THEN /\ thread' = [thread EXCEPT ![t].pc = "writes", ![t].fd = cache[p].fd]
          /\ UNCHANGED lock
     ELSE /\ Moves(t, IF cache[p].pid = Nobody THEN "opens" ELSE "replaces")
          /\ lock' = [lock EXCEPT ![p] = t]
  /\ UNCHANGED <<habits, named, cache, table, forked, lines, closed>>

\* Another path, or the parent's copy: closed, and then forgotten.
Replace(t) ==
  LET p == Home(t) d == cache[p].fd IN
  /\ thread[t].pc = "replaces"
  /\ Moves(t, "forgets") /\ Becomes(p, d, Closed)
  /\ closed' = [closed EXCEPT ![p] = @ \cup {table[p][d]}]
  /\ UNCHANGED <<habits, named, cache, lock, forked, lines>>
Forget(t) ==
  /\ thread[t].pc = "forgets"
  /\ Moves(t, "opens")
  /\ cache' = [cache EXCEPT ![Home(t)] = NoCache]
  /\ UNCHANGED <<habits, named, lock, table, forked, lines, closed>>

\* os.open, which may fail (no descriptor is free, the file is gone); what is no regular
\* file is closed at once.  The descriptor is cached and the lock released.
Open(t) ==
  LET p == Home(t) IN
  /\ thread[t].pc = "opens"
  /\ \/ /\ \E d \in Free(p) :
             /\ Least(d, Free(p))
             /\ thread' = [thread EXCEPT ![t].pc = "caches", ![t].fd = d]
             /\ Becomes(p, d, thread[t].path)
        /\ UNCHANGED lock
     \/ /\ Moves(t, "idle")
        /\ lock' = [lock EXCEPT ![p] = Nobody]
        /\ UNCHANGED table
  /\ UNCHANGED <<habits, named, cache, forked, lines, closed>>
Cache(t) ==
  LET p == Home(t) IN
  /\ thread[t].pc = "caches"
  /\ Moves(t, "writes")
  /\ cache' = [cache EXCEPT ![p] = [pid |-> p, path |-> thread[t].path, fd |-> thread[t].fd]]
  /\ lock' = [lock EXCEPT ![p] = Nobody]
  /\ UNCHANGED <<habits, named, table, forked, lines, closed>>

\* A finaliser runs in the middle of that, emits, and waits for the lock which its
\* own thread holds.
Finaliser(t) ==
  /\ "forgets" \in habits /\ thread[t].pc \in {"opens", "caches"}
  /\ Moves(t, "stuck")
  /\ UNCHANGED <<habits, named, cache, lock, table, forked, lines, closed>>

\* os.write, outside the lock: into whatever the number names by now.
Write(t) ==
  LET p == Home(t) file == table[p][thread[t].fd] IN
  /\ thread[t].pc = "writes"
  /\ \/ /\ file # Closed
        /\ Moves(t, "idle")
        /\ lines' = [lines EXCEPT ![t].stray = @ \/ file # thread[t].path]
     \/ /\ file = Closed \/ "fills" \in habits
        /\ Moves(t, "drops")
        /\ UNCHANGED lines
  /\ UNCHANGED <<habits, named, cache, lock, table, forked, closed>>

\* _drop_descriptor after a failed write.
Drop(t) ==
  LET p == Home(t) mine == cache[p].fd = thread[t].fd IN
  /\ thread[t].pc = "drops" /\ lock[p] = Nobody
  /\ Moves(t, "idle")
  /\ cache' = IF mine THEN [cache EXCEPT ![p] = NoCache] ELSE cache
  /\ IF mine THEN Becomes(p, thread[t].fd, Closed) ELSE UNCHANGED table
  /\ closed' = IF mine THEN [closed EXCEPT ![p] = @ \cup {table[p][thread[t].fd]}] ELSE closed
  /\ UNCHANGED <<habits, named, lock, forked, lines>>

-----------------------------------------------------------------------------
(* The job.                                                                 *)

\* A thread outside emit forks: the child has copies of all but the other threads,
\* and a new lock (_after_fork_in_child).
LockCopied    == [lock EXCEPT !["child"] = lock["parent"]]
LockAfterFork == [lock EXCEPT !["child"] = Nobody]
Fork(t) ==
  /\ "forks" \in habits /\ forked = "no" /\ t \in Threads /\ thread[t].pc = "idle"
  /\ forked' = IF lock["parent"] = Nobody THEN "quietly" ELSE "middle"
  /\ Moves(Child, "idle")
  /\ named' = [named EXCEPT !["child"] = named["parent"]]
  /\ cache' = [cache EXCEPT !["child"] = cache["parent"]]
  /\ table' = [table EXCEPT !["child"] = table["parent"]]
  /\ lock' = LockAfterFork
  /\ UNCHANGED <<habits, lines, closed>>

Rename(p) ==
  /\ "renames" \in habits
  /\ \E n \in Paths : n > named[p] /\ named' = [named EXCEPT ![p] = n]
  /\ UNCHANGED <<habits, cache, lock, table, thread, forked, lines, closed>>

OpenOwn(p) ==
  /\ "opens" \in habits /\ (p = "child" => forked # "no")
  /\ \E d \in Free(p) : Least(d, Free(p)) /\ Becomes(p, d, Own)
  /\ UNCHANGED <<habits, named, cache, lock, thread, forked, lines, closed>>
CloseOwn(p, d) ==
  /\ "opens" \in habits /\ table[p][d] = Own
  /\ Becomes(p, d, Closed)
  /\ UNCHANGED <<habits, named, cache, lock, thread, forked, lines, closed>>

Steps(t) == Enter(t) \/ Replace(t) \/ Forget(t) \/ Open(t) \/ Cache(t) \/ Write(t) \/ Drop(t)

NextWriter ==
  \/ \E t \in Everyone : Emit(t) \/ Steps(t) \/ Finaliser(t) \/ Fork(t)
  \/ \E p \in Processes : Rename(p) \/ OpenOwn(p) \/ \E d \in Descriptors : CloseOwn(p, d)

WriterSpec == InitWriter /\ [][NextWriter]_writerVars

-----------------------------------------------------------------------------
(* Properties.                                                              *)

\* A line is written to the file that SCRAPESCOPE_EVENTS named when it was emitted,
\* in the child as in the parent, after a new name and after failures; it goes
\* astray only where the helper has closed a descriptor meanwhile, for another
\* thread's failed write or new name.  A process holds no descriptor of an events
\* file but the cached one and the one being opened, and the helper closes no
\* file of the job; of both a child is sure only if no thread was in _descriptor
\* when it was forked.
DescriptorIsOurs ==
  \A p \in Processes :
    /\ closed[p] = {} => \A t \in Everyone : Home(t) = p => ~lines[t].stray
    /\ (p = "child" => forked # "middle")
       => /\ Own \notin closed[p]
          /\ \A d \in Descriptors : table[p][d] \in Paths =>
               d \in {cache[p].fd} \cup (IF lock[p] = Nobody THEN {} ELSE {thread[lock[p]].fd})

\* Nobody waits for the lock for ever: who holds it is a thread of that process on
\* its way through _descriptor, whoever held it at a fork; only a response that
\* nobody closed, collected with the lock held, leaves its own thread waiting.
LockIsLetGo ==
  \A p \in Processes : lock[p] # Nobody =>
    /\ Home(lock[p]) = p
    /\ thread[lock[p]].pc = "stuck" => "forgets" \in habits
    /\ thread[lock[p]].pc \notin {"idle", "wants", "writes", "drops"}
=============================================================================
