---------------------------- MODULE BlockingQueue ----------------------------
(***************************************************************************)
(* BlockingQueue of include/blocking_queue.hpp: a queue under a mutex with *)
(* one condition variable, used by any number of threads.                  *)
(*                                                                         *)
(* A critical section is one step.  push and close unlock the mutex before *)
(* they notify, so the notification is a step of its own that any other    *)
(* thread may precede.  A consumer that finds nothing waits; it is woken   *)
(* by a notification, or spuriously, and looks again under the mutex.      *)
(***************************************************************************)
EXTENDS Naturals, Sequences, FiniteSets

CONSTANTS
  Producers,    \* threads that push
  Consumers,    \* threads that pop and try_pop
  Closers       \* threads that close

ASSUME ThreadsAssumption ==
  /\ IsFiniteSet(Producers)
  /\ IsFiniteSet(Consumers)
  /\ Producers \cap Consumers = {}
  /\ Producers \cap Closers = {}
  /\ Consumers \cap Closers = {}

VARIABLES
  queue,    \* queue_
  closed,   \* closed_
  at        \* where each thread is

queueVars == <<queue, closed, at>>

Threads == Producers \cup Consumers \cup Closers

QueueInit ==
  /\ queue = <<>>
  /\ closed = FALSE
  /\ at = [t \in Threads |-> "outside"]

GoTo(t, label) == at' = [at EXCEPT ![t] = label]

Waiting   == {c \in Consumers : at[c] = "waiting"}
Popping   == {c \in Consumers : at[c] = "popping"}
Notifying == {p \in Producers : at[p] = "notify_one"}

-----------------------------------------------------------------------------
(* push                                                                    *)

\* Mutant: closed_ is not looked at.
push_anyway(p, value) ==
  /\ at[p] = "outside"
  /\ queue' = Append(queue, value)
  /\ GoTo(p, "notify_one")
  /\ UNCHANGED closed

push(p, value) ==
  /\ at[p] = "outside"
  /\ ~ closed
  /\ queue' = Append(queue, value)
  /\ GoTo(p, "notify_one")
  /\ UNCHANGED closed

\* push returns false
push_refused(p) ==
  /\ at[p] = "outside"
  /\ closed
  /\ UNCHANGED queueVars

\* Mutant: a notification only for the first value of the queue.
notify_one_if_first(p) ==
  /\ at[p] = "notify_one"
  /\ at' = IF Waiting = {} \/ Len(queue) # 1
           THEN [at EXCEPT ![p] = "outside"]
           ELSE [at EXCEPT ![p] = "outside",
                           ![CHOOSE c \in Waiting : TRUE] = "popping"]
  /\ UNCHANGED <<queue, closed>>

\* condition_.notify_one wakes one of the waiting consumers, if there is any.
notify_one(p) ==
  /\ at[p] = "notify_one"
  /\ \/ Waiting = {} /\ GoTo(p, "outside")
     \/ \E c \in Waiting : at' = [at EXCEPT ![p] = "outside", ![c] = "popping"]
  /\ UNCHANGED <<queue, closed>>

-----------------------------------------------------------------------------
(* pop and try_pop                                                         *)

pop(c) ==
  /\ at[c] = "outside"
  /\ GoTo(c, "popping")
  /\ UNCHANGED <<queue, closed>>

\* pop returns the front of the queue, also of a closed one.
pop_value(c) ==
  /\ at[c] = "popping"
  /\ queue # <<>>
  /\ queue' = Tail(queue)
  /\ GoTo(c, "outside")
  /\ UNCHANGED closed

\* pop returns nullopt
pop_nothing(c) ==
  /\ at[c] = "popping"
  /\ closed /\ queue = <<>>
  /\ GoTo(c, "outside")
  /\ UNCHANGED <<queue, closed>>

\* The predicate of condition_.wait does not hold.
wait(c) ==
  /\ at[c] = "popping"
  /\ ~ closed /\ queue = <<>>
  /\ GoTo(c, "waiting")
  /\ UNCHANGED <<queue, closed>>

spurious_wakeup(c) ==
  /\ at[c] = "waiting"
  /\ GoTo(c, "popping")
  /\ UNCHANGED <<queue, closed>>

try_pop(c) ==
  /\ at[c] = "outside"
  /\ queue' = IF queue = <<>> THEN queue ELSE Tail(queue)
  /\ UNCHANGED <<closed, at>>

-----------------------------------------------------------------------------
(* close                                                                   *)

\* Mutant: the queue is closed without a notification.
close_silently(k) ==
  /\ at[k] = "outside"
  /\ closed' = TRUE
  /\ UNCHANGED <<queue, at>>

\* A second close returns at once.
close(k) ==
  /\ at[k] = "outside"
  /\ closed' = TRUE
  /\ IF closed THEN UNCHANGED at ELSE GoTo(k, "notify_all")
  /\ UNCHANGED queue

notify_all(k) ==
  /\ at[k] = "notify_all"
  /\ at' = [t \in Threads |->
              IF t = k THEN "outside" ELSE IF t \in Waiting THEN "popping" ELSE at[t]]
  /\ UNCHANGED <<queue, closed>>

=============================================================================
