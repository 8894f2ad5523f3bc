------------------------------- MODULE RwLock -------------------------------
(***************************************************************************)
(* parking_lot::RwLock, the lock around both maps of the repository        *)
(* (src/src/repo.rs:25-26).  External code: modelled from the two ways     *)
(* repo.rs uses it, `read()` and `write()`, each of which returns a guard  *)
(* that unlocks when it is dropped.                                        *)
(*                                                                         *)
(* `write()` works in two steps.  It first takes the writer bit, which     *)
(* only one thread may own, and then waits until the readers have left.    *)
(* While the bit is taken `read()` blocks, also for a thread that already  *)
(* holds a read guard: the lock is task-fair and not recursive.            *)
(*                                                                         *)
(* A guard that is dropped before its thread takes any other lock is       *)
(* never seen held by another thread that could not equally have run just  *)
(* before or after, so such a `read()` is only a test of MayRead.          *)
(***************************************************************************)

\* The owner of the writer bit, if any, and the threads holding a read guard.
Unlocked == [writer |-> {}, readers |-> {}]

Locks(Threads) == [writer : SUBSET Threads, readers : SUBSET Threads]

MayRead(lock) == lock.writer = {}

Read(lock, t) == [lock EXCEPT !.readers = @ \cup {t}]

ReadDone(lock, t) == [lock EXCEPT !.readers = @ \ {t}]

MayReserve(lock) == lock.writer = {}

Reserve(lock, t) == [lock EXCEPT !.writer = {t}]

Exclusive(lock, t) == lock.writer = {t} /\ lock.readers = {}

\* Whom a `write()` of t waits for, in either of its steps.
Blockers(lock, t) == IF t \in lock.writer THEN lock.readers ELSE lock.writer

WriteDone(lock) == [lock EXCEPT !.writer = {}]

=============================================================================
