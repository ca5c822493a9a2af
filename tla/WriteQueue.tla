----------------------------- MODULE WriteQueue -----------------------------
(***************************************************************************)
(* What the write-behind queue (src/src/daemon/writer.rs) promises to the  *)
(* rest of the daemon, with the jobs reduced to counts: a bounded channel, *)
(* a fixed number of worker threads, and the in-flight counter.            *)
(*                                                                         *)
(* A worker owns a job in two stages.  Between the return of `recv` and    *)
(* `InFlightGuard::enter` the job is `inHand`: it is in neither the        *)
(* channel nor the counter.  From `enter` to the guard's drop it is        *)
(* counted by `inFlight`.  `is_drained` reads the channel and the counter  *)
(* only.                                                                   *)
(*                                                                         *)
(* Module Supervisor is composed with this contract; module WriteBehind,   *)
(* which has the jobs themselves, is shown to implement it.                *)
(***************************************************************************)
EXTENDS Naturals

CONSTANTS
  Capacity,     \* WRITE_QUEUE_CAPACITY: the bound of the channel
  WorkerCount   \* WRITE_WORKERS: the number of worker threads

ASSUME QueueAssumption ==
  /\ Capacity \in Nat \ {0}
  /\ WorkerCount \in Nat

VARIABLES
  waiting,    \* jobs in the channel
  inHand,     \* jobs received by a worker that has not entered its guard
  inFlight,   \* the AtomicUsize: jobs between guard entry and guard drop
  dead        \* workers whose thread ended by a panic in a job

qvars == <<waiting, inHand, inFlight, dead>>

QInit ==
  /\ waiting = 0
  /\ inHand = 0
  /\ inFlight = 0
  /\ dead = 0

\* Mutant: an unbounded channel.
PushUnbounded ==
  /\ waiting' = waiting + 1
  /\ UNCHANGED <<inHand, inFlight, dead>>

\* `try_push` on a channel with room.
Push ==
  /\ waiting < Capacity
  /\ waiting' = waiting + 1
  /\ UNCHANGED <<inHand, inFlight, dead>>

\* A free worker's `recv` returns a job.
Recv ==
  /\ waiting > 0
  /\ inHand + inFlight + dead < WorkerCount
  /\ waiting' = waiting - 1
  /\ inHand' = inHand + 1
  /\ UNCHANGED <<inFlight, dead>>

\* `InFlightGuard::enter`.
Enter ==
  /\ inHand > 0
  /\ inHand' = inHand - 1
  /\ inFlight' = inFlight + 1
  /\ UNCHANGED <<waiting, dead>>

\* The job returned; its guard is dropped.
Leave ==
  /\ inFlight > 0
  /\ inFlight' = inFlight - 1
  /\ UNCHANGED <<waiting, inHand, dead>>

\* The job panicked; unwinding drops the guard and ends the thread.
Panic ==
  /\ inFlight > 0
  /\ inFlight' = inFlight - 1
  /\ dead' = dead + 1
  /\ UNCHANGED <<waiting, inHand>>

QNext == Push \/ Recv \/ Enter \/ Leave \/ Panic

QSpec == QInit /\ [][QNext]_qvars

\* The two reads `is_drained` makes, in the order it makes them.
ChannelEmpty == waiting = 0
NoneInFlight == inFlight = 0
=============================================================================
