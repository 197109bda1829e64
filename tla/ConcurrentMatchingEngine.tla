----------------------- MODULE ConcurrentMatchingEngine -----------------------
(***************************************************************************)
(* ConcurrentMatchingEngine of src/concurrent_matching_engine.cpp:         *)
(* producers turn engine calls into commands with a promise, one worker    *)
(* takes them from a BlockingQueue and runs them on the engine, and the    *)
(* owner shuts the whole down.                                             *)
(*                                                                         *)
(* Command n is the n-th that the queue accepted.  The engine is reduced   *)
(* to what queries can tell apart: which commands the orders and the trade *)
(* history contain.  MatchingEngine.tla is its full model; what matters    *)
(* here is that an operation takes effect as a whole or throws, which      *)
(* MatchingRefinement.tla shows.                                           *)
(***************************************************************************)
EXTENDS Naturals, Sequences, FiniteSets

CONSTANTS
  Producers,
  MaxCommands     \* bound on the accepted commands

worker == "worker"
owner  == "owner"

ASSUME CommandsAssumption ==
  /\ MaxCommands \in Nat
  /\ worker \notin Producers /\ owner \notin Producers

VARIABLES
  queue, closed, at,   \* command_queue_ and where each thread is
  commands,            \* history: the kind of every accepted command
  futures,             \* what the future of each command holds
  engine,              \* engine_
  current,             \* the command that the worker runs, 0 for none
  done                 \* worker when its loop has ended, owner when joined

workerVars == <<queue, closed, at, commands, futures, engine, current, done>>

Q == INSTANCE BlockingQueue WITH Consumers <- {worker}, Closers <- {owner}

\* place_limit_*, execute_market_*, cancel_order and modify_order change the
\* engine; the others read it or clear the trade history.
Kinds == {"change", "active_limit_orders", "trade_history", "clear_trade_history"}

pending   == [status |-> "pending"]
exception == [status |-> "exception"]
value(v)  == [status |-> "value", value |-> v]

\* The worker thread starts in worker_loop.
WorkerInit ==
  /\ Q!QueueInit
  /\ commands = <<>>
  /\ futures = <<>>
  /\ engine = [orders |-> <<>>, trades |-> <<>>]
  /\ current = 0
  /\ done = {}

-----------------------------------------------------------------------------
(* Producers                                                               *)

\* Each of the nine methods: the command, its future, and the push.
submit(p, kind) ==
  /\ Len(commands) < MaxCommands
  /\ Q!push(p, Len(commands) + 1)
  /\ commands' = Append(commands, kind)
  /\ futures' = Append(futures, pending)
  /\ UNCHANGED <<engine, current, done>>

\* push returned false: the method throws and the command is gone.
submit_refused(p) ==
  /\ Q!push_refused(p)
  /\ UNCHANGED <<commands, futures, engine, current, done>>

submit_returns(p) ==
  /\ Q!notify_one(p)
  /\ UNCHANGED <<commands, futures, engine, current, done>>

-----------------------------------------------------------------------------
(* worker_loop                                                             *)

next_command ==
  /\ current = 0 /\ worker \notin done
  /\ Q!pop(worker)
  /\ UNCHANGED <<commands, futures, engine, current, done>>

\* Mutant: the newest command first.
take_command_newest ==
  /\ at[worker] = "popping" /\ queue # <<>>
  /\ queue' = SubSeq(queue, 1, Len(queue) - 1)
  /\ at' = [at EXCEPT ![worker] = "outside"]
  /\ current' = queue[Len(queue)]
  /\ UNCHANGED <<closed, commands, futures, engine, done>>

take_command ==
  /\ Q!pop_value(worker)
  /\ current' = Head(queue)
  /\ UNCHANGED <<commands, futures, engine, done>>

sleep ==
  /\ Q!wait(worker)
  /\ UNCHANGED <<commands, futures, engine, current, done>>

spurious_wakeup ==
  /\ Q!spurious_wakeup(worker)
  /\ UNCHANGED <<commands, futures, engine, current, done>>

\* pop returned nullopt: the loop and the thread end.
worker_exit ==
  /\ Q!pop_nothing(worker)
  /\ done' = done \cup {worker}
  /\ UNCHANGED <<commands, futures, engine, current>>

\* The promise is set, and the worker is ready for the next command.
answer(result) ==
  /\ futures' = [futures EXCEPT ![current] = result]
  /\ current' = 0
  /\ UNCHANGED <<queue, closed, at, commands, done>>

\* Mutant: the exception leaves worker_loop.
command_throws_out ==
  /\ current # 0
  /\ done' = done \cup {worker}
  /\ current' = 0
  /\ UNCHANGED <<queue, closed, at, commands, futures, engine>>

\* execute_command catches what the engine throws.
command_throws ==
  /\ current # 0
  /\ commands[current] # "clear_trade_history"
  /\ answer(exception)
  /\ UNCHANGED engine

change_engine(traded) ==
  /\ current # 0
  /\ commands[current] = "change"
  /\ engine' = [orders |-> Append(engine.orders, current),
                trades |-> IF traded THEN Append(engine.trades, current)
                                     ELSE engine.trades]
  /\ answer(value(traded))

\* The worker copies the vector that the engine returns a reference to.
copy_active_orders ==
  /\ current # 0
  /\ commands[current] = "active_limit_orders"
  /\ answer(value(engine.orders))
  /\ UNCHANGED engine

copy_trade_history ==
  /\ current # 0
  /\ commands[current] = "trade_history"
  /\ answer(value(engine.trades))
  /\ UNCHANGED engine

clear_trade_history ==
  /\ current # 0
  /\ commands[current] = "clear_trade_history"
  /\ engine' = [engine EXCEPT !.trades = <<>>]
  /\ answer(value({}))

process_command ==
  \/ command_throws
  \/ \E traded \in BOOLEAN : change_engine(traded)
  \/ copy_active_orders
  \/ copy_trade_history
  \/ clear_trade_history

-----------------------------------------------------------------------------
(* shutdown, by the owner alone                                            *)

shutdown ==
  /\ ~ closed
  /\ Q!close(owner)
  /\ UNCHANGED <<commands, futures, engine, current, done>>

shutdown_notifies ==
  /\ Q!notify_all(owner)
  /\ UNCHANGED <<commands, futures, engine, current, done>>

\* Mutant: shutdown returns without the join.
join_not_waiting ==
  /\ closed /\ at[owner] = "outside" /\ owner \notin done
  /\ done' = done \cup {owner}
  /\ UNCHANGED <<queue, closed, at, commands, futures, engine, current>>

\* worker_.join() returns when the worker thread has ended.
join ==
  /\ closed /\ at[owner] = "outside" /\ owner \notin done
  /\ worker \in done
  /\ done' = done \cup {owner}
  /\ UNCHANGED <<queue, closed, at, commands, futures, engine, current>>

\* shutdown again, also from the destructor: nothing to close, nothing to join
shutdown_again ==
  /\ owner \in done
  /\ UNCHANGED workerVars

-----------------------------------------------------------------------------
Worker == next_command \/ take_command \/ sleep \/ worker_exit \/ process_command

WorkerNext ==
  \/ \E p \in Producers :
       \/ \E kind \in Kinds : submit(p, kind)
       \/ submit_refused(p)
       \/ submit_returns(p)
  \/ Worker
  \/ spurious_wakeup
  \/ shutdown
  \/ shutdown_notifies
  \/ join
  \/ shutdown_again

\* A method that has begun goes on; the worker runs whenever it can.  Nobody
\* has to submit a command, and the owner need not shut down.
WorkerSpec ==
  /\ WorkerInit /\ [][WorkerNext]_workerVars
  /\ \A p \in Producers : WF_workerVars(submit_returns(p))
  /\ WF_workerVars(Worker)
  /\ WF_workerVars(shutdown_notifies) /\ WF_workerVars(join)

-----------------------------------------------------------------------------
(* Properties                                                              *)

Accepted == 1 .. Len(commands)

Status == {"pending", "exception", "value"}

\* Part of AnswersInQueueOrder: the queue holds numbers of accepted commands,
\* and each has one future.
WorkerTypeOK ==
  /\ queue \in Seq(Accepted)
  /\ closed \in BOOLEAN
  /\ commands \in Seq(Kinds)
  /\ Len(futures) = Len(commands)
  /\ \A n \in Accepted : futures[n].status \in Status
  /\ engine.orders \in Seq(Accepted) /\ engine.trades \in Seq(Accepted)
  /\ current \in Accepted \cup {0}
  /\ done \subseteq {worker, owner}

\* What one thread running the commands in the order of their acceptance
\* would have changed before command n
Changed(n)  == {i \in 1 .. n - 1 : commands[i] = "change" /\ futures[i].status = "value"}
Cleared(n)  == {i \in 1 .. n - 1 : commands[i] = "clear_trade_history"}
Traded(n)   == {i \in Changed(n) : futures[i].value /\ \A c \in Cleared(n) : c < i}

\* s has the members of S, the smallest first
Lists(s, S) ==
  /\ {s[i] : i \in DOMAIN s} = S
  /\ \A i, j \in DOMAIN s : i < j => s[i] < s[j]

\* Answers come in the order in which the queue accepted the commands, and a
\* query is answered with exactly what the commands before it left, those of
\* other producers and those accepted during shutdown included
\* (docs/concurrency.md, "Producer Concurrency").
AnswersInQueueOrder ==
  /\ WorkerTypeOK
  /\ \A n \in Accepted : futures[n].status # "pending" =>
       /\ \A i \in 1 .. n - 1 : futures[i].status # "pending"
       /\ futures[n].status = "value" =>
            /\ commands[n] = "active_limit_orders" => Lists(futures[n].value, Changed(n))
            /\ commands[n] = "trade_history" => Lists(futures[n].value, Traded(n))

\* When shutdown returns, every accepted command has been answered, whatever
\* was being submitted when the queue closed.
ShutdownDrains ==
  owner \in done => queue = <<>> /\ \A n \in Accepted : futures[n].status # "pending"

\* A producer that holds a future gets its answer, with or without shutdown
\* and however many commands before it threw.
AcceptedAreAnswered ==
  \A n \in 1 .. MaxCommands :
    (n \in Accepted) ~> (n \in Accepted /\ futures[n].status # "pending")

\* shutdown does not hang: the worker wakes up, drains the queue and ends.
ShutdownReturns == closed ~> (owner \in done)
=============================================================================
