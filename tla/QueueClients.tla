----------------------------- MODULE QueueClients -----------------------------
(***************************************************************************)
(* Threads that use one BlockingQueue in every way its interface allows:   *)
(* several producers, several consumers that block or try, and closers.    *)
(* The n-th accepted value is n.                                           *)
(***************************************************************************)
EXTENDS BlockingQueue

CONSTANT MaxPushes    \* bound on the accepted values

ASSUME MaxPushesAssumption == MaxPushes \in Nat

VARIABLES
  pushed,   \* history: how many values were accepted
  ended     \* history: the consumers that pop has returned nullopt to

allVars == <<queue, closed, at, pushed, ended>>

ClientsInit == QueueInit /\ pushed = 0 /\ ended = {}

Push(p) ==
  /\ pushed < MaxPushes
  /\ push(p, pushed + 1)
  /\ pushed' = pushed + 1
  /\ UNCHANGED ended

PopNothing(c) ==
  /\ pop_nothing(c)
  /\ ended' = ended \cup {c}
  /\ UNCHANGED pushed

\* The rest of a call that has begun.
Continue(t) ==
  \/ t \in Producers /\ notify_one(t) /\ UNCHANGED <<pushed, ended>>
  \/ t \in Consumers /\ (pop_value(t) \/ wait(t)) /\ UNCHANGED <<pushed, ended>>
  \/ t \in Consumers /\ PopNothing(t)
  \/ t \in Closers /\ notify_all(t) /\ UNCHANGED <<pushed, ended>>

Begin(t) ==
  \/ t \in Producers /\ Push(t)
  \/ t \in Producers /\ push_refused(t) /\ UNCHANGED <<pushed, ended>>
  \/ t \in Consumers /\ (pop(t) \/ try_pop(t)) /\ UNCHANGED <<pushed, ended>>
  \/ t \in Closers /\ close(t) /\ UNCHANGED <<pushed, ended>>

SpuriousWakeup(c) == spurious_wakeup(c) /\ UNCHANGED <<pushed, ended>>

ClientsNext ==
  \/ \E t \in Threads : Begin(t) \/ Continue(t)
  \/ \E c \in Consumers : SpuriousWakeup(c)

\* A thread inside a call goes on unless it waits: the mutex is only ever held
\* for a few instructions.  Nobody has to begin a call.
ClientsSpec ==
  /\ ClientsInit
  /\ [][ClientsNext]_allVars
  /\ \A t \in Threads : WF_allVars(Continue(t))

-----------------------------------------------------------------------------
(* Properties                                                              *)

ProducerLabels == {"outside", "notify_one"}
ConsumerLabels == {"outside", "popping", "waiting"}
CloserLabels   == {"outside", "notify_all"}

\* Every thread is at a place of the method it may call.
ClientsTypeOK ==
  /\ queue \in Seq(Nat)
  /\ closed \in BOOLEAN
  /\ at \in [Threads -> ProducerLabels \cup ConsumerLabels \cup CloserLabels]
  /\ \A p \in Producers : at[p] \in ProducerLabels
  /\ \A c \in Consumers : at[c] \in ConsumerLabels
  /\ \A k \in Closers : at[k] \in CloserLabels
  /\ pushed \in Nat
  /\ ended \subseteq Consumers

\* While a consumer sleeps, each value in the queue has a thread that will see
\* to it: a producer about to notify or a consumer that is awake.  After close
\* nobody sleeps unless the notification of all is still to come.  So
\* notifying after the mutex is released loses no wakeup.
NoLostWakeup ==
  Waiting # {} =>
    /\ Len(queue) <= Cardinality(Notifying) + Cardinality(Popping)
    /\ closed => \E k \in Closers : at[k] = "notify_all"

\* Once any pop has returned nullopt the queue is closed and drained for good:
\* a consumer may stop at the first nullopt, as worker_loop does.
EndIsFinal == ended # {} => closed /\ queue = <<>>

\* Part of ConsumersProgress: the value at the front is taken if some consumer is inside pop.
FrontIsTaken ==
  \A v \in 1 .. MaxPushes :
    (queue # <<>> /\ queue[1] = v /\ Waiting \cup Popping # {})
      ~> (\A i \in 1 .. Len(queue) : queue[i] # v)

\* Part of ConsumersProgress: close lets every sleeping consumer go, and none falls asleep afterwards.
CloseReleasesConsumers == closed ~> [](Waiting = {})

\* No consumer is left behind in pop, before close or after it.
ConsumersProgress == FrontIsTaken /\ CloseReleasesConsumers
=============================================================================
