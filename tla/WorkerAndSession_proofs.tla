----------------------- MODULE WorkerAndSession_proofs -----------------------
(***************************************************************************)
(* Proofs about the two components that serve callers or a connection in a *)
(* loop of their own.                                                      *)
(*                                                                         *)
(* ConcurrentMatchingEngine.tla: commands are answered in the order of the *)
(* queue, each query with what the commands before it left, and shutdown   *)
(* returns with every command answered, for any set of producers and any   *)
(* number of commands.  The commands are cut in three by two positions:    *)
(* those up to Finished are answered, the next one is the worker's if it   *)
(* has one, and the queue holds the rest in order.  The engine lists what  *)
(* the finished commands changed, so an answer copied from it is right     *)
(* when it is given; and it stays right because no later step touches an   *)
(* earlier future.                                                         *)
(*                                                                         *)
(* WebSocketSession.tla is proved for every interval, timeout, delay and   *)
(* lateness of the timer.  Each action preserves one inductive invariant,  *)
(* Inv, from which its safety properties follow.                           *)
(***************************************************************************)
EXTENDS WebSocketSession, ConcurrentMatchingEngine, TLAPS

-----------------------------------------------------------------------------
(* The worker thread                                                       *)

\* How many commands the worker has taken, and how many it has answered
Taken    == Len(commands) - Len(queue)
Finished == IF current = 0 THEN Taken ELSE Taken - 1

Future ==
  {pending, exception}
    \cup [status : {"value"}, value : BOOLEAN \cup Seq(Nat) \cup {{}}]

\* Every variable but at; the queue and the worker hold the commands that are
\* not answered yet, in order.
CommandsInLine ==
  /\ commands \in Seq(Kinds)
  /\ futures \in Seq(Future)
  /\ Len(futures) = Len(commands)
  /\ queue \in Seq(Nat)
  /\ Len(queue) <= Len(commands)
  /\ \A i \in 1 .. Len(queue) : queue[i] = Taken + i
  /\ current \in {0, Taken} /\ current \in Nat
  /\ \A n \in Accepted : futures[n].status = "pending" <=> n > Finished

\* Where the worker and the owner are
WorkerLabels == {"outside", "popping", "waiting"}

ThreadsInLine ==
  /\ closed \in BOOLEAN
  /\ done \subseteq {worker, owner}
  /\ DOMAIN at = Producers \cup {worker, owner}
  /\ at[worker] \in WorkerLabels
  /\ current # 0 => at[worker] = "outside"
  /\ worker \in done => at[worker] = "outside" /\ closed /\ queue = <<>> /\ current = 0
  /\ owner \in done => worker \in done

\* The engine lists what the finished commands did.
EngineInLine ==
  /\ engine = [orders |-> engine.orders, trades |-> engine.trades]
  /\ engine.orders \in Seq(Nat) /\ engine.trades \in Seq(Nat)
  /\ Lists(engine.orders, Changed(Finished + 1))
  /\ Lists(engine.trades, Traded(Finished + 1))

\* What AnswersInQueueOrder says of the answer to a query
AnswerRight(n) ==
  futures[n].status = "value" =>
    /\ commands[n] = "active_limit_orders" => Lists(futures[n].value, Changed(n))
    /\ commands[n] = "trade_history" => Lists(futures[n].value, Traded(n))

AnswersInLine ==
  /\ \A n \in Accepted : commands[n] = "change" /\ futures[n].status = "value"
                           => futures[n].value \in BOOLEAN
  /\ \A n \in 1 .. Finished : AnswerRight(n)

WorkerInv == CommandsInLine /\ ThreadsInLine /\ EngineInLine /\ AnswersInLine

-----------------------------------------------------------------------------
(* Lists and the commands before a position                                *)

\* An engine operation appends its own number, which is the largest so far.
LEMMA ListsAppend ==
  ASSUME NEW s \in Seq(Nat), NEW S, NEW n \in Nat, Lists(s, S), \A x \in S : x < n
  PROVE  Append(s, n) \in Seq(Nat) /\ Lists(Append(s, n), S \cup {n})
<1> DEFINE t == Append(s, n)
<1>1. /\ t \in Seq(Nat) /\ Len(t) = Len(s) + 1 /\ Len(s) \in Nat
      /\ DOMAIN t = 1 .. Len(s) + 1 /\ DOMAIN s = 1 .. Len(s)
      /\ t[Len(s) + 1] = n
      /\ \A i \in 1 .. Len(s) : t[i] = s[i]
  OBVIOUS
<1> HIDE DEF t
<1>2. \A i \in 1 .. Len(s) : s[i] \in S
  BY Zenon, <1>1 DEF Lists
<1>3. {t[i] : i \in DOMAIN t} = S \cup {n}
  <2>1. ASSUME NEW i \in DOMAIN t PROVE t[i] \in S \cup {n}
    BY <1>1, <1>2
  <2>2. ASSUME NEW x \in S PROVE \E i \in DOMAIN t : t[i] = x
    <3>1. PICK i \in 1 .. Len(s) : s[i] = x
      BY Zenon, <1>1 DEF Lists
    <3>2. i \in DOMAIN t /\ t[i] = x
      BY <1>1, <3>1
    <3> QED BY Zenon, <3>2
  <2>3. \E i \in DOMAIN t : t[i] = n
    BY <1>1
  <2> QED BY Zenon, <2>1, <2>2, <2>3
<1>4. ASSUME NEW i \in DOMAIN t, NEW j \in DOMAIN t, i < j PROVE t[i] < t[j]
  <2>1. i \in 1 .. Len(s) /\ t[i] = s[i]
    BY <1>1, <1>4
  <2>2. CASE j = Len(s) + 1
    BY Zenon, <1>1, <1>2, <2>1, <2>2
  <2>3. CASE j \in 1 .. Len(s)
    BY Zenon, <1>1, <1>4, <2>1, <2>3 DEF Lists
  <2> QED BY <1>1, <2>2, <2>3
<1>5. Lists(t, S \cup {n})
  BY Zenon, <1>3, <1>4 DEF Lists
<1> QED BY Zenon, <1>1, <1>5 DEF t

\* An empty vector lists no command (clear_trade_history, and the start).
LEMMA ListsNothing == <<>> \in Seq(Nat) /\ Lists(<<>>, {})
BY DEF Lists

\* What Append leaves and adds
LEMMA AppendFacts ==
  ASSUME NEW T, NEW s \in Seq(T), NEW x \in T
  PROVE  /\ Append(s, x) \in Seq(T) /\ Len(s) \in Nat /\ Len(Append(s, x)) = Len(s) + 1
         /\ Append(s, x)[Len(s) + 1] = x
         /\ \A i \in 1 .. Len(s) : Append(s, x)[i] = s[i]
OBVIOUS

\* What the commands before n did depends on those commands and their futures.
LEMMA SamePast ==
  ASSUME NEW n, \A i \in 1 .. n - 1 : commands'[i] = commands[i] /\ futures'[i] = futures[i]
  PROVE  Changed(n)' = Changed(n) /\ Cleared(n)' = Cleared(n) /\ Traded(n)' = Traded(n)
<1>1. Changed(n)' = Changed(n)
  BY Zenon DEF Changed
<1>2. Cleared(n)' = Cleared(n)
  BY Zenon DEF Cleared
<1>3. \A i \in Changed(n) : futures'[i] = futures[i]
  BY Zenon DEF Changed
<1> QED BY Zenon, <1>1, <1>2, <1>3 DEF Traded

-----------------------------------------------------------------------------
(* The steps                                                               *)

\* A step that leaves the queue, the commands, the futures, the engine and the
\* worker's command alone concerns the threads only.
LEMMA ThreadStep ==
  ASSUME WorkerInv, queue' = queue, commands' = commands, futures' = futures,
         engine' = engine, current' = current, ThreadsInLine'
  PROVE  WorkerInv'
<1>1. /\ Taken' = Taken /\ Finished' = Finished /\ Accepted' = Accepted
  BY Zenon DEF Taken, Finished, Accepted
<1>2. CommandsInLine'
  BY Zenon, <1>1 DEF WorkerInv, CommandsInLine
<1>3. EngineInLine'
  BY Zenon, <1>1 DEF WorkerInv, EngineInLine, Changed, Traded, Cleared
<1>4. AnswersInLine'
  BY Zenon, <1>1 DEF WorkerInv, AnswersInLine, AnswerRight, Changed, Traded, Cleared
<1> QED BY Zenon, <1>2, <1>3, <1>4 DEF WorkerInv

\* Numbers that the steps share
LEMMA CommandPositions ==
  ASSUME CommandsInLine
  PROVE  /\ Len(commands) \in Nat /\ Len(queue) \in Nat
         /\ Taken \in 0 .. Len(commands) /\ Finished \in 0 .. Len(commands)
         /\ current # 0 => current = Taken /\ Finished = current - 1 /\ current \in Accepted
         /\ current = 0 => Finished = Taken
         /\ Len(commands) = Taken + Len(queue)
         /\ \A n \in 1 .. Len(commands) : commands[n] \in Kinds /\ futures[n] \in Future
<1>1. Len(commands) \in Nat /\ Len(queue) \in Nat
  BY DEF CommandsInLine
<1>2. Taken \in 0 .. Len(commands) /\ Len(commands) = Taken + Len(queue)
  BY <1>1 DEF Taken, CommandsInLine
<1>3. current # 0 => current = Taken /\ Finished = current - 1 /\ current \in 1 .. Len(commands)
  BY <1>1, <1>2 DEF CommandsInLine, Finished
<1>4. current = 0 => Finished = Taken
  BY Zenon DEF Finished
<1>5. Finished \in 0 .. Len(commands)
  BY <1>1, <1>2, <1>3, <1>4
<1>6. \A n \in 1 .. Len(commands) : commands[n] \in Kinds /\ futures[n] \in Future
  BY DEF CommandsInLine
<1> QED BY Zenon, <1>1, <1>2, <1>3, <1>4, <1>5, <1>6 DEF Accepted

\* A producer puts its command at the end of the line.
LEMMA SubmitKeeps ==
  ASSUME WorkerInv, NEW p \in Producers, NEW kind \in Kinds, submit(p, kind)
  PROVE  WorkerInv'
<1> DEFINE N == Len(commands)
<1>1. CommandsInLine /\ ThreadsInLine /\ EngineInLine /\ AnswersInLine
  BY Zenon DEF WorkerInv
<1>2. /\ queue' = Append(queue, N + 1) /\ commands' = Append(commands, kind)
      /\ futures' = Append(futures, pending)
      /\ engine' = engine /\ current' = current /\ done' = done
      /\ at' = [at EXCEPT ![p] = "notify_one"] /\ closed' = closed /\ ~ closed
  BY Zenon DEF submit, Q!push, Q!GoTo
<1>3. /\ N \in Nat /\ Len(queue) \in Nat /\ N = Taken + Len(queue)
      /\ Taken \in 0 .. N /\ Finished \in 0 .. N
  BY Zenon, <1>1, CommandPositions
<1>4. /\ Len(queue') = Len(queue) + 1 /\ Len(commands') = N + 1 /\ Len(futures') = N + 1
      /\ queue'[Len(queue) + 1] = N + 1
      /\ \A i \in 1 .. Len(queue) : queue'[i] = queue[i]
      /\ \A i \in 1 .. N : commands'[i] = commands[i] /\ futures'[i] = futures[i]
      /\ commands'[N + 1] = kind /\ futures'[N + 1] = pending
      /\ queue' \in Seq(Nat) /\ commands' \in Seq(Kinds) /\ futures' \in Seq(Future)
  <2>1. pending \in Future /\ N + 1 \in Nat
    BY <1>3 DEF Future
  <2>2. queue \in Seq(Nat) /\ commands \in Seq(Kinds) /\ futures \in Seq(Future) /\ Len(futures) = N
    BY Zenon, <1>1 DEF CommandsInLine
  <2>3. /\ Len(queue') = Len(queue) + 1 /\ queue'[Len(queue) + 1] = N + 1
        /\ \A i \in 1 .. Len(queue) : queue'[i] = queue[i]
        /\ queue' \in Seq(Nat)
    BY <1>2, <2>1, <2>2, AppendFacts
  <2>4. /\ Len(commands') = N + 1 /\ commands'[N + 1] = kind
        /\ \A i \in 1 .. N : commands'[i] = commands[i]
        /\ commands' \in Seq(Kinds)
    BY <1>2, <2>2, AppendFacts
  <2>5. /\ Len(futures') = N + 1 /\ futures'[N + 1] = pending
        /\ \A i \in 1 .. N : futures'[i] = futures[i]
        /\ futures' \in Seq(Future)
    BY <1>2, <2>1, <2>2, AppendFacts
  <2> QED BY Zenon, <2>3, <2>4, <2>5
<1>5. Taken' = Taken /\ Finished' = Finished /\ Accepted' = 1 .. N + 1
  <2>1. Taken' = Taken
    BY <1>3, <1>4 DEF Taken
  <2> QED BY Zenon, <1>2, <1>4, <2>1 DEF Finished, Accepted
<1>6. CommandsInLine'
  <2>1. ASSUME NEW i \in 1 .. Len(queue') PROVE queue'[i] = Taken' + i
    <3>1. CASE i \in 1 .. Len(queue)
      BY Zenon, <1>1, <1>4, <1>5, <3>1 DEF CommandsInLine
    <3>2. CASE i = Len(queue) + 1
      BY <1>3, <1>4, <1>5, <3>2
    <3> QED BY <1>3, <1>4, <3>1, <3>2
  <2>2. ASSUME NEW n \in 1 .. N + 1
        PROVE  futures'[n].status = "pending" <=> n > Finished
    <3>1. CASE n \in 1 .. N
      BY Zenon, <1>1, <1>4, <3>1 DEF CommandsInLine, Accepted
    <3>2. CASE n = N + 1
      BY <1>3, <1>4, <3>2 DEF pending
    <3> QED BY <1>3, <3>1, <3>2
  <2> QED BY SMTT(20), <1>1, <1>2, <1>3, <1>4, <1>5, <2>1, <2>2 DEF CommandsInLine
<1>7. ThreadsInLine'
  <2>1. at[worker]' = at[worker] /\ DOMAIN at' = DOMAIN at
    BY <1>2, CommandsAssumption
  <2> QED BY Zenon, <1>1, <1>2, <2>1 DEF ThreadsInLine
<1>8. \A n \in 1 .. N + 1 : Changed(n)' = Changed(n) /\ Traded(n)' = Traded(n)
  <2> TAKE n \in 1 .. N + 1
  <2>1. \A i \in 1 .. n - 1 : commands'[i] = commands[i] /\ futures'[i] = futures[i]
    BY SMTT(20), <1>3, <1>4
  <2> QED BY Zenon, <2>1, SamePast
<1>9. EngineInLine'
  <2>1. PICK m \in 1 .. N + 1 : m = Finished + 1
    BY <1>3
  <2>2. Changed(m)' = Changed(m) /\ Traded(m)' = Traded(m)
    BY Zenon, <1>8
  <2>3. Changed(Finished + 1)' = Changed(m)' /\ Traded(Finished + 1)' = Traded(m)'
    BY Zenon, <1>5, <2>1 DEF Changed, Traded, Cleared
  <2> QED BY Zenon, <1>1, <1>2, <2>1, <2>2, <2>3 DEF EngineInLine
<1>10. AnswersInLine'
  <2>1. ASSUME NEW n \in 1 .. N + 1, commands'[n] = "change", futures'[n].status = "value"
        PROVE  futures'[n].value \in BOOLEAN
    <3>1. CASE n \in 1 .. N
      BY Zenon, <1>1, <1>4, <2>1, <3>1 DEF AnswersInLine, Accepted
    <3>2. CASE n = N + 1
      BY <1>4, <2>1, <3>2 DEF pending
    <3> QED BY <1>3, <3>1, <3>2
  <2>2. ASSUME NEW n \in 1 .. Finished PROVE AnswerRight(n)'
    <3>1. n \in 1 .. N
      BY <1>3
    <3>2. Changed(n)' = Changed(n) /\ Traded(n)' = Traded(n)
      BY <1>3, <1>8, <3>1
    <3> QED BY SMTT(20), <1>1, <1>4, <3>1, <3>2 DEF AnswersInLine, AnswerRight
  <2> QED BY Zenon, <1>5, <2>1, <2>2 DEF AnswersInLine
<1> QED BY Zenon, <1>6, <1>7, <1>9, <1>10 DEF WorkerInv

\* The worker takes the first command of the line.
LEMMA TakeKeeps ==
  ASSUME WorkerInv, take_command
  PROVE  WorkerInv'
<1>1. CommandsInLine /\ ThreadsInLine /\ EngineInLine /\ AnswersInLine
  BY Zenon DEF WorkerInv
<1>2. /\ queue' = Tail(queue) /\ queue # <<>> /\ current' = Head(queue)
      /\ commands' = commands /\ futures' = futures /\ engine' = engine /\ done' = done
      /\ at[worker] = "popping" /\ at' = [at EXCEPT ![worker] = "outside"] /\ closed' = closed
  BY Zenon DEF take_command, Q!pop_value, Q!GoTo
<1>3. /\ current = 0 /\ worker \notin done
  BY Zenon, <1>1, <1>2 DEF ThreadsInLine
<1>4. /\ Len(commands) \in Nat /\ Len(queue) \in Nat /\ Len(commands) = Taken + Len(queue)
      /\ Taken \in 0 .. Len(commands) /\ Finished = Taken
  BY Zenon, <1>1, <1>3, CommandPositions
<1>5. /\ Len(queue') = Len(queue) - 1 /\ queue' \in Seq(Nat) /\ Len(queue) > 0
      /\ \A i \in 1 .. Len(queue) - 1 : queue'[i] = queue[i + 1]
      /\ current' = queue[1]
  BY <1>1, <1>2 DEF CommandsInLine
<1>6. Taken' = Taken + 1 /\ current' = Taken + 1 /\ Finished' = Finished
  <2>1. Taken' = Taken + 1
    BY <1>2, <1>4, <1>5 DEF Taken
  <2>2. current' = Taken + 1
    BY <1>1, <1>4, <1>5 DEF CommandsInLine
  <2> QED BY <1>4, <2>1, <2>2 DEF Finished
<1>7. CommandsInLine'
  <2>1. ASSUME NEW i \in 1 .. Len(queue') PROVE queue'[i] = Taken' + i
    <3>1. i \in 1 .. Len(queue) - 1 /\ i + 1 \in 1 .. Len(queue) /\ i \in Nat
      BY <1>4, <1>5
    <3>2. queue'[i] = queue[i + 1] /\ queue[i + 1] = Taken + (i + 1)
      BY Zenon, <1>1, <1>5, <3>1 DEF CommandsInLine
    <3> QED BY <1>4, <1>6, <3>1, <3>2
  <2>2. Len(queue') <= Len(commands') /\ current' \in Nat
    BY <1>2, <1>4, <1>5, <1>6
  <2>3. Accepted' = Accepted
    BY Zenon, <1>2 DEF Accepted
  <2> QED BY Zenon, <1>1, <1>2, <1>5, <1>6, <2>1, <2>2, <2>3 DEF CommandsInLine
<1>8. ThreadsInLine'
  <2>1. at'[worker] = "outside" /\ DOMAIN at' = DOMAIN at
    BY Zenon, <1>1, <1>2 DEF ThreadsInLine
  <2> QED BY Zenon, <1>1, <1>2, <1>3, <2>1 DEF ThreadsInLine, WorkerLabels
<1>9. EngineInLine'
  BY Zenon, <1>1, <1>2, <1>6 DEF EngineInLine, Changed, Traded, Cleared
<1>10. AnswersInLine'
  BY Zenon, <1>1, <1>2, <1>6 DEF AnswersInLine, AnswerRight, Accepted, Changed, Traded, Cleared
<1> QED BY Zenon, <1>7, <1>8, <1>9, <1>10 DEF WorkerInv

\* Whatever the worker answers its command with, the answered commands grow by
\* that command, and the answers and the past before it stay as they were.
LEMMA AnswerFacts ==
  ASSUME WorkerInv, current # 0, NEW result \in Future, result.status # "pending", answer(result)
  PROVE  /\ CommandsInLine' /\ ThreadsInLine'
         /\ current \in 1 .. Len(commands) /\ Finished = current - 1 /\ Finished' = current
         /\ commands' = commands /\ Len(futures') = Len(commands)
         /\ futures'[current] = result
         /\ \A n \in Accepted : n # current => futures'[n] = futures[n]
         /\ \A n \in 1 .. current : Changed(n)' = Changed(n) /\ Traded(n)' = Traded(n)
<1>1. CommandsInLine /\ ThreadsInLine
  BY Zenon DEF WorkerInv
<1>2. /\ futures' = [futures EXCEPT ![current] = result] /\ current' = 0
      /\ queue' = queue /\ closed' = closed /\ at' = at /\ commands' = commands /\ done' = done
  BY Zenon DEF answer
<1>3. /\ Len(commands) \in Nat /\ Taken \in 0 .. Len(commands) /\ Taken = current
      /\ Finished = current - 1 /\ current \in 1 .. Len(commands)
  BY Zenon, <1>1, CommandPositions DEF Accepted
<1>4. /\ Taken' = Taken /\ Finished' = current /\ Accepted' = Accepted
  <2>1. Taken' = Taken
    BY Zenon, <1>2 DEF Taken
  <2> QED BY Zenon, <1>2, <1>3, <2>1 DEF Finished, Accepted
<1>5. /\ futures' \in Seq(Future) /\ Len(futures') = Len(commands)
      /\ futures'[current] = result
      /\ \A n \in 1 .. Len(commands) : n # current => futures'[n] = futures[n]
  <2>1. futures \in Seq(Future) /\ Len(futures) = Len(commands)
    BY Zenon, <1>1 DEF CommandsInLine
  <2> QED BY <1>2, <1>3, <2>1
<1>6. CommandsInLine'
  <2>1. ASSUME NEW n \in Accepted PROVE futures'[n].status = "pending" <=> n > current
    <3>1. CASE n = current
      BY <1>3, <1>5, <3>1
    <3>2. CASE n # current
      <4>1. futures'[n] = futures[n] /\ (futures[n].status = "pending" <=> n > Finished)
        BY Zenon, <1>1, <1>5, <3>2 DEF CommandsInLine, Accepted
      <4> QED BY <1>3, <3>2, <4>1 DEF Accepted
    <3> QED BY Zenon, <3>1, <3>2
  <2> QED BY Zenon, <1>1, <1>2, <1>4, <1>5, <2>1 DEF CommandsInLine
<1>7. ThreadsInLine'
  BY Zenon, <1>1, <1>2 DEF ThreadsInLine
<1>8. \A n \in 1 .. current : Changed(n)' = Changed(n) /\ Traded(n)' = Traded(n)
  <2> TAKE n \in 1 .. current
  <2>1. \A i \in 1 .. n - 1 : commands'[i] = commands[i] /\ futures'[i] = futures[i]
    BY <1>2, <1>3, <1>5
  <2> QED BY Zenon, <2>1, SamePast
<1> QED BY Zenon, <1>2, <1>3, <1>4, <1>5, <1>6, <1>7, <1>8 DEF Accepted

\* The invariant is kept when the answer is right and the engine lists what the
\* command left.
LEMMA AnswerKeeps ==
  ASSUME WorkerInv, NEW n \in Nat, n = current, current # 0,
         NEW result \in Future, result.status # "pending", answer(result),
         /\ engine' = [orders |-> engine'.orders, trades |-> engine'.trades]
         /\ engine'.orders \in Seq(Nat) /\ Lists(engine'.orders, Changed(n + 1)')
         /\ engine'.trades \in Seq(Nat) /\ Lists(engine'.trades, Traded(n + 1)'),
         result.status = "value" =>
           /\ commands[n] = "change" => result.value \in BOOLEAN
           /\ commands[n] = "active_limit_orders" => Lists(result.value, Changed(n))
           /\ commands[n] = "trade_history" => Lists(result.value, Traded(n))
  PROVE  WorkerInv'
<1>1. /\ CommandsInLine' /\ ThreadsInLine'
      /\ n \in 1 .. Len(commands) /\ Finished = n - 1 /\ Finished' = n
      /\ commands' = commands /\ futures'[n] = result
      /\ \A i \in Accepted : i # n => futures'[i] = futures[i]
      /\ \A i \in 1 .. n : Changed(i)' = Changed(i) /\ Traded(i)' = Traded(i)
  BY Zenon, AnswerFacts
<1>2. AnswersInLine /\ Accepted' = Accepted
  BY Zenon, <1>1 DEF WorkerInv, Accepted
<1>3. EngineInLine'
  BY <1>1 DEF EngineInLine, Changed, Traded, Cleared
<1>4. AnswersInLine'
  <2>1. ASSUME NEW i \in Accepted, commands'[i] = "change", futures'[i].status = "value"
        PROVE  futures'[i].value \in BOOLEAN
    BY Zenon, <1>1, <1>2, <2>1 DEF AnswersInLine
  <2>2. ASSUME NEW i \in 1 .. n PROVE AnswerRight(i)'
    <3>1. CASE i = n
      BY Zenon, <1>1, <3>1 DEF AnswerRight
    <3>2. CASE i # n
      <4>1. i \in Accepted /\ i \in 1 .. Finished
        BY <1>1, <3>2 DEF Accepted
      <4> QED BY Zenon, <1>1, <1>2, <3>2, <4>1 DEF AnswersInLine, AnswerRight
    <3> QED BY Zenon, <3>1, <3>2
  <2> QED BY Zenon, <1>1, <1>2, <2>1, <2>2 DEF AnswersInLine
<1> QED BY Zenon, <1>1, <1>3, <1>4 DEF WorkerInv

\* What the worker's command adds to the past: itself if it changed the engine,
\* and nothing before it in the trade history if it cleared that.
LEMMA PastGrows ==
  ASSUME WorkerInv, NEW n \in Nat, n = current, current # 0,
         NEW result \in Future, result.status # "pending", answer(result)
  PROVE  /\ \A x \in Changed(n) : x \in Nat /\ x < n
         /\ Traded(n) \subseteq Changed(n)
         /\ ~ (commands[n] = "change" /\ result.status = "value") => Changed(n + 1)' = Changed(n)
         /\ commands[n] = "change" /\ result.status = "value" => Changed(n + 1)' = Changed(n) \cup {n}
         /\ commands[n] = "clear_trade_history" => Traded(n + 1)' = {}
         /\ commands[n] # "clear_trade_history" /\ ~ (commands[n] = "change" /\ result.status = "value")
              => Traded(n + 1)' = Traded(n)
         /\ commands[n] = "change" /\ result = value(TRUE)  => Traded(n + 1)' = Traded(n) \cup {n}
         /\ commands[n] = "change" /\ result = value(FALSE) => Traded(n + 1)' = Traded(n)
<1>1. /\ n \in 1 .. Len(commands) /\ commands' = commands /\ futures'[n] = result
      /\ \A i \in 1 .. n - 1 : futures'[i] = futures[i]
      /\ Changed(n)' = Changed(n) /\ Traded(n)' = Traded(n)
  <2>1. /\ n \in 1 .. Len(commands) /\ commands' = commands /\ futures'[n] = result
        /\ \A i \in Accepted : i # n => futures'[i] = futures[i]
        /\ \A i \in 1 .. n : Changed(i)' = Changed(i) /\ Traded(i)' = Traded(i)
    BY Zenon, AnswerFacts
  <2>2. Len(commands) \in Nat
    BY Zenon, CommandPositions DEF WorkerInv
  <2> QED BY <2>1, <2>2 DEF Accepted
<1>2. \A i : i \in 1 .. (n + 1) - 1 <=> i \in 1 .. n - 1 \/ i = n
  BY <1>1
<1>3. \A x \in Changed(n) : x \in 1 .. n - 1 /\ x \in Nat /\ x < n
  BY DEF Changed
<1>4. Traded(n) \subseteq Changed(n)
  BY Zenon DEF Traded
<1>5. /\ ~ (commands[n] = "change" /\ result.status = "value") => Changed(n + 1)' = Changed(n)
      /\ commands[n] = "change" /\ result.status = "value" => Changed(n + 1)' = Changed(n) \cup {n}
  BY <1>1, <1>2 DEF Changed
<1>6. /\ commands[n] # "clear_trade_history" => Cleared(n + 1)' = Cleared(n)
      /\ commands[n] = "clear_trade_history" => n \in Cleared(n + 1)'
      /\ \A c \in Cleared(n) : c \in Nat /\ c < n
  BY <1>1, <1>2 DEF Cleared
<1>7. ASSUME commands[n] = "clear_trade_history" PROVE Traded(n + 1)' = {}
  <2>1. Changed(n + 1)' = Changed(n)
    BY Zenon, <1>5, <1>7
  <2>2. \A x \in Changed(n) : ~ (n < x)
    BY <1>3
  <2> QED BY Zenon, <1>6, <1>7, <2>1, <2>2 DEF Traded
<1>8. ASSUME commands[n] # "clear_trade_history", Changed(n + 1)' = Changed(n)
      PROVE  Traded(n + 1)' = Traded(n)
  <2>1. \A x \in Changed(n) : futures'[x] = futures[x]
    BY Zenon, <1>1, <1>3
  <2> QED BY Zenon, <1>6, <1>8, <2>1 DEF Traded
<1>9. ASSUME NEW traded \in BOOLEAN, commands[n] = "change", result = value(traded)
      PROVE  /\ traded => Traded(n + 1)' = Traded(n) \cup {n}
             /\ ~ traded => Traded(n + 1)' = Traded(n)
  <2>1. result.status = "value" /\ futures'[n].value = traded
    BY <1>1, <1>9 DEF value
  <2>2. Changed(n + 1)' = Changed(n) \cup {n} /\ Cleared(n + 1)' = Cleared(n)
    BY Zenon, <1>5, <1>6, <1>9, <2>1
  <2>3. \A x \in Changed(n) : futures'[x] = futures[x]
    BY Zenon, <1>1, <1>3
  <2>4. n \in Traded(n + 1)' <=> traded
    BY Zenon, <1>6, <2>1, <2>2 DEF Traded
  <2>5. ASSUME NEW x, x # n PROVE x \in Traded(n + 1)' <=> x \in Traded(n)
    BY Zenon, <2>2, <2>3, <2>5 DEF Traded
  <2>6. n \notin Traded(n)
    BY <1>3, <1>4
  <2> QED BY <2>4, <2>5, <2>6
<1>10. commands[n] = "change" => commands[n] # "clear_trade_history"
  BY Zenon
<1> QED BY Zenon, <1>3, <1>4, <1>5, <1>7, <1>8, <1>9, <1>10

\* The worker runs its command: each kind of command, and the exception.
LEMMA ProcessKeeps ==
  ASSUME WorkerInv, process_command
  PROVE  WorkerInv'
<1>1. current # 0
  BY Zenon DEF process_command, command_throws, change_engine, copy_active_orders,
         copy_trade_history, clear_trade_history
<1>2. PICK n \in Nat : n = current
  BY Zenon DEF WorkerInv, CommandsInLine
<1>3. Finished = n - 1 /\ n \in Nat \ {0}
  BY Zenon, <1>1, <1>2, CommandPositions DEF WorkerInv
<1>4. /\ engine = [orders |-> engine.orders, trades |-> engine.trades]
      /\ engine.orders \in Seq(Nat) /\ engine.trades \in Seq(Nat)
      /\ Lists(engine.orders, Changed(n)) /\ Lists(engine.trades, Traded(n))
  <2>1. Finished + 1 = n
    BY <1>3
  <2> QED BY Zenon, <2>1 DEF WorkerInv, EngineInLine
<1>5. exception \in Future /\ exception.status = "exception"
  BY Zenon DEF Future, exception
<1>6. \A v \in BOOLEAN \cup Seq(Nat) \cup {{}} :
        value(v) \in Future /\ value(v).status = "value" /\ value(v).value = v
  BY Zenon DEF Future, value
<1>7. CASE command_throws
  <2>1. answer(exception) /\ engine' = engine /\ commands[n] # "clear_trade_history"
    BY Zenon, <1>2, <1>7 DEF command_throws
  <2>2. Changed(n + 1)' = Changed(n) /\ Traded(n + 1)' = Traded(n)
    BY Zenon, <1>1, <1>2, <1>5, <2>1, PastGrows
  <2> QED BY Zenon, <1>1, <1>2, <1>4, <1>5, <2>1, <2>2, AnswerKeeps
<1>8. ASSUME NEW traded \in BOOLEAN, change_engine(traded) PROVE WorkerInv'
  <2>1. /\ answer(value(traded)) /\ commands[n] = "change"
        /\ engine' = [orders |-> Append(engine.orders, n),
                      trades |-> IF traded THEN Append(engine.trades, n) ELSE engine.trades]
    BY Zenon, <1>2, <1>8 DEF change_engine
  <2>2. /\ \A x \in Changed(n) : x < n
        /\ Traded(n) \subseteq Changed(n)
        /\ Changed(n + 1)' = Changed(n) \cup {n}
        /\ traded  => Traded(n + 1)' = Traded(n) \cup {n}
        /\ ~ traded => Traded(n + 1)' = Traded(n)
    <3>1. value(traded) \in Future /\ value(traded).status = "value"
      BY Zenon, <1>6
    <3>2. traded = TRUE \/ traded = FALSE
      BY Zenon
    <3> QED BY Zenon, <1>1, <1>2, <2>1, <3>1, <3>2, PastGrows
  <2>3. Append(engine.orders, n) \in Seq(Nat) /\ Lists(Append(engine.orders, n), Changed(n) \cup {n})
    BY Zenon, <1>4, <2>2, ListsAppend
  <2>4. Append(engine.trades, n) \in Seq(Nat) /\ Lists(Append(engine.trades, n), Traded(n) \cup {n})
    BY Zenon, <1>4, <2>2, ListsAppend
  <2>5. /\ engine' = [orders |-> engine'.orders, trades |-> engine'.trades]
        /\ engine'.orders \in Seq(Nat) /\ Lists(engine'.orders, Changed(n + 1)')
        /\ engine'.trades \in Seq(Nat) /\ Lists(engine'.trades, Traded(n + 1)')
    <3>1. CASE traded
      BY Zenon, <2>1, <2>2, <2>3, <2>4, <3>1
    <3>2. CASE ~ traded
      BY Zenon, <1>4, <2>1, <2>2, <2>3, <3>2
    <3> QED BY Zenon, <3>1, <3>2
  <2>6. value(traded) \in Future /\ value(traded).status = "value" /\ value(traded).value = traded
    BY Zenon, <1>6
  <2> QED BY Zenon, <1>1, <1>2, <2>1, <2>5, <2>6, AnswerKeeps
<1>9. CASE copy_active_orders
  <2>1. answer(value(engine.orders)) /\ engine' = engine /\ commands[n] = "active_limit_orders"
    BY Zenon, <1>2, <1>9 DEF copy_active_orders
  <2>2. /\ value(engine.orders) \in Future /\ value(engine.orders).status = "value"
        /\ value(engine.orders).value = engine.orders
    BY Zenon, <1>4, <1>6
  <2>3. Changed(n + 1)' = Changed(n) /\ Traded(n + 1)' = Traded(n)
    BY Zenon, <1>1, <1>2, <2>1, <2>2, PastGrows
  <2> QED BY Zenon, <1>1, <1>2, <1>4, <2>1, <2>2, <2>3, AnswerKeeps
<1>10. CASE copy_trade_history
  <2>1. answer(value(engine.trades)) /\ engine' = engine /\ commands[n] = "trade_history"
    BY Zenon, <1>2, <1>10 DEF copy_trade_history
  <2>2. /\ value(engine.trades) \in Future /\ value(engine.trades).status = "value"
        /\ value(engine.trades).value = engine.trades
    BY Zenon, <1>4, <1>6
  <2>3. Changed(n + 1)' = Changed(n) /\ Traded(n + 1)' = Traded(n)
    BY Zenon, <1>1, <1>2, <2>1, <2>2, PastGrows
  <2> QED BY Zenon, <1>1, <1>2, <1>4, <2>1, <2>2, <2>3, AnswerKeeps
<1>11. CASE clear_trade_history
  <2>1. answer(value({})) /\ commands[n] = "clear_trade_history"
    BY Zenon, <1>2, <1>11 DEF clear_trade_history
  <2>2. engine' = [orders |-> engine.orders, trades |-> <<>>]
    BY Zenon, <1>4, <1>11 DEF clear_trade_history
  <2>3. value({}) \in Future /\ value({}).status = "value"
    BY Zenon, <1>6
  <2>4. Changed(n + 1)' = Changed(n) /\ Traded(n + 1)' = {}
    BY Zenon, <1>1, <1>2, <2>1, <2>3, PastGrows
  <2> QED BY Zenon, <1>1, <1>2, <1>4, <2>1, <2>2, <2>3, <2>4, ListsNothing, AnswerKeeps
<1> QED BY Zenon, <1>7, <1>8, <1>9, <1>10, <1>11 DEF process_command

\* The steps that move threads only: the waits and notifications of the queue,
\* its closing, and the ends of the worker and of shutdown
Moves ==
  \/ \E p \in Producers : submit_refused(p) \/ submit_returns(p)
  \/ next_command \/ sleep \/ spurious_wakeup \/ worker_exit
  \/ shutdown \/ shutdown_notifies \/ join \/ shutdown_again
  \/ UNCHANGED workerVars

\* They leave the commands where they are, and the worker ends only with the
\* queue closed and empty.
LEMMA MovesKeep ==
  ASSUME WorkerInv, Moves
  PROVE  WorkerInv'
<1>1. ThreadsInLine
  BY Zenon DEF WorkerInv
<1> USE <1>1, CommandsAssumption DEF ThreadsInLine, WorkerLabels
<1>2. ASSUME NEW p \in Producers, submit_refused(p) PROVE WorkerInv'
  BY Zenon, <1>2, ThreadStep DEF submit_refused, Q!push_refused, Q!queueVars
<1>3. ASSUME NEW p \in Producers, submit_returns(p) PROVE WorkerInv'
  <2>1. /\ queue' = queue /\ closed' = closed /\ commands' = commands /\ futures' = futures
        /\ engine' = engine /\ current' = current /\ done' = done
    BY Zenon, <1>3 DEF submit_returns, Q!notify_one
  <2>2. CASE at' = [at EXCEPT ![p] = "outside"]
    BY Zenon, <2>1, <2>2, ThreadStep
  <2>3. CASE at[worker] = "waiting" /\ at' = [at EXCEPT ![p] = "outside", ![worker] = "popping"]
    <3>1. at'[worker] = "popping" /\ DOMAIN at' = DOMAIN at
      BY Zenon, <2>3
    <3> QED BY Zenon, <2>1, <2>3, <3>1, ThreadStep
  <2> QED BY Zenon, <1>3, <2>2, <2>3 DEF submit_returns, Q!notify_one, Q!GoTo, Q!Waiting
<1>4. ASSUME next_command PROVE WorkerInv'
  BY Zenon, <1>4, ThreadStep DEF next_command, Q!pop, Q!GoTo
<1>5. ASSUME sleep PROVE WorkerInv'
  BY Zenon, <1>5, ThreadStep DEF sleep, Q!wait, Q!GoTo
<1>6. ASSUME spurious_wakeup PROVE WorkerInv'
  BY Zenon, <1>6, ThreadStep DEF spurious_wakeup, Q!spurious_wakeup, Q!GoTo
<1>7. ASSUME worker_exit PROVE WorkerInv'
  BY Zenon, <1>7, ThreadStep DEF worker_exit, Q!pop_nothing, Q!GoTo
<1>8. ASSUME shutdown PROVE WorkerInv'
  BY Zenon, <1>8, ThreadStep DEF shutdown, Q!close, Q!GoTo, worker, owner
<1>9. ASSUME shutdown_notifies PROVE WorkerInv'
  <2>1. /\ queue' = queue /\ closed' = closed /\ commands' = commands /\ futures' = futures
        /\ engine' = engine /\ current' = current /\ done' = done
        /\ at' = [t \in Producers \cup {worker} \cup {owner} |->
                    IF t = owner THEN "outside"
                    ELSE IF t \in Q!Waiting THEN "popping" ELSE at[t]]
    BY Zenon, <1>9 DEF shutdown_notifies, Q!notify_all, Q!Threads
  <2>2. /\ DOMAIN at' = DOMAIN at
        /\ at'[worker] = IF at[worker] = "waiting" THEN "popping" ELSE at[worker]
    BY Zenon, <2>1 DEF Q!Waiting, worker, owner
  <2> QED BY Zenon, <2>1, <2>2, ThreadStep
<1>10. ASSUME join PROVE WorkerInv'
  BY Zenon, <1>10, ThreadStep DEF join
<1>11. ASSUME UNCHANGED workerVars PROVE WorkerInv'
  BY Zenon, <1>11, ThreadStep DEF workerVars
<1>12. ASSUME shutdown_again PROVE WorkerInv'
  BY Zenon, <1>11, <1>12 DEF shutdown_again
<1> QED BY Zenon, <1>2, <1>3, <1>4, <1>5, <1>6, <1>7, <1>8, <1>9, <1>10, <1>11, <1>12 DEF Moves

\* The queue, the engine and the vectors are empty at the start.
LEMMA WorkerInitInv == WorkerInit => WorkerInv
<1> SUFFICES ASSUME WorkerInit PROVE WorkerInv
  BY Zenon
<1>1. /\ queue = <<>> /\ closed = FALSE /\ commands = <<>> /\ futures = <<>> /\ current = 0
      /\ engine = [orders |-> <<>>, trades |-> <<>>] /\ done = {}
      /\ at = [t \in Producers \cup {worker} \cup {owner} |-> "outside"]
  BY Zenon DEF WorkerInit, Q!QueueInit, Q!Threads
<1>2. Len(commands) = 0 /\ Len(queue) = 0 /\ Taken = 0 /\ Finished = 0 /\ Accepted = {}
  BY <1>1 DEF Taken, Finished, Accepted
<1>3. CommandsInLine
  BY <1>1, <1>2 DEF CommandsInLine
<1>4. ThreadsInLine
  BY Zenon, <1>1 DEF ThreadsInLine, WorkerLabels
<1>5. Changed(Finished + 1) = {} /\ Traded(Finished + 1) = {}
  <2>1. Changed(Finished + 1) = {}
    BY <1>2 DEF Changed
  <2> QED BY Zenon, <2>1 DEF Traded
<1>6. EngineInLine
  BY Zenon, <1>1, <1>5, ListsNothing DEF EngineInLine
<1>7. AnswersInLine
  BY <1>2 DEF AnswersInLine
<1> QED BY Zenon, <1>3, <1>4, <1>6, <1>7 DEF WorkerInv

\* Every step of the engine is one of those above.
LEMMA WorkerNextInv == WorkerInv /\ [WorkerNext]_workerVars => WorkerInv'
<1> SUFFICES ASSUME WorkerInv, [WorkerNext]_workerVars PROVE WorkerInv'
  BY Zenon
<1>1. \/ \E p \in Producers : \E kind \in Kinds : submit(p, kind)
      \/ take_command \/ process_command \/ Moves
  BY Zenon DEF WorkerNext, Worker, Moves
<1> QED BY Zenon, <1>1, SubmitKeeps, TakeKeeps, ProcessKeeps, MovesKeep

-----------------------------------------------------------------------------
(* What the invariant says                                                 *)

\* With the positions in line, the answered commands are those up to Finished,
\* and the answer of each is the one that AnswersInQueueOrder describes.
LEMMA InvAnswers == WorkerInv => AnswersInQueueOrder
<1> SUFFICES ASSUME WorkerInv PROVE AnswersInQueueOrder
  BY Zenon
<1>1. CommandsInLine /\ ThreadsInLine /\ EngineInLine /\ AnswersInLine
  BY Zenon DEF WorkerInv
<1>2. /\ Len(commands) \in Nat /\ Len(queue) \in Nat
      /\ Taken \in 0 .. Len(commands) /\ Finished \in 0 .. Len(commands)
      /\ current # 0 => current \in Accepted
      /\ Len(commands) = Taken + Len(queue)
      /\ \A n \in 1 .. Len(commands) : futures[n] \in Future
  BY Zenon, <1>1, CommandPositions
<1>3. queue \in Seq(Accepted)
  <2>1. \A i \in 1 .. Len(queue) : queue[i] \in Accepted
    BY SMTT(20), <1>1, <1>2 DEF CommandsInLine, Accepted
  <2>2. queue \in Seq(Nat)
    BY Zenon, <1>1 DEF CommandsInLine
  <2> QED BY <2>1, <2>2
<1>4. \A f \in Future : f.status \in Status
  BY DEF Future, Status, pending, exception
<1>5. ASSUME NEW s \in Seq(Nat), NEW S, Lists(s, S), S \subseteq Accepted PROVE s \in Seq(Accepted)
  <2>1. \A i \in 1 .. Len(s) : s[i] \in Accepted
    BY <1>5 DEF Lists
  <2> QED BY <2>1
<1>6. Changed(Finished + 1) \subseteq Accepted /\ Traded(Finished + 1) \subseteq Accepted
  <2>1. Changed(Finished + 1) \subseteq Accepted
    BY <1>2 DEF Changed, Accepted
  <2> QED BY Zenon, <2>1 DEF Traded
<1>7. engine.orders \in Seq(Accepted) /\ engine.trades \in Seq(Accepted)
  BY Zenon, <1>1, <1>5, <1>6 DEF EngineInLine
<1>8. WorkerTypeOK
  BY Zenon, <1>1, <1>2, <1>3, <1>4, <1>7 DEF WorkerTypeOK, CommandsInLine, ThreadsInLine, Accepted
<1>9. ASSUME NEW n \in Accepted, futures[n].status # "pending"
      PROVE  (\A i \in 1 .. n - 1 : futures[i].status # "pending") /\ AnswerRight(n)
  <2>1. n \in 1 .. Finished
    BY <1>1, <1>2, <1>9 DEF CommandsInLine, Accepted
  <2>2. \A i \in 1 .. n - 1 : i \in Accepted /\ ~ (i > Finished)
    BY <1>2, <2>1 DEF Accepted
  <2> QED BY Zenon, <1>1, <2>1, <2>2 DEF CommandsInLine, AnswersInLine
<1> QED BY Zenon, <1>8, <1>9 DEF AnswersInQueueOrder, AnswerRight

\* The owner's join needs the worker's end, which found the queue empty.
LEMMA InvDrains == WorkerInv => ShutdownDrains
<1> SUFFICES ASSUME WorkerInv, owner \in done
             PROVE  queue = <<>> /\ \A n \in Accepted : futures[n].status # "pending"
  BY Zenon DEF ShutdownDrains
<1>1. queue = <<>> /\ current = 0 /\ CommandsInLine
  BY Zenon DEF WorkerInv, ThreadsInLine
<1>2. Finished = Len(commands) /\ Len(commands) \in Nat
  BY <1>1, CommandPositions
<1> QED BY <1>1, <1>2 DEF CommandsInLine, Accepted

\* The commands are in line in every state of the engine.
THEOREM AlwaysInLine == WorkerSpec => []WorkerInv
BY WorkerInitInv, WorkerNextInv, PTL DEF WorkerSpec

\* Answers come in the order in which the queue accepted the commands, and each
\* query is answered with what exactly the commands before it left: for any
\* producers, any number of commands, and whatever throws
\* (ConcurrentMatchingEngine::worker_loop and execute_command).
THEOREM AnswersAlwaysInQueueOrder == WorkerSpec => []AnswersInQueueOrder
BY AlwaysInLine, InvAnswers, PTL

\* When shutdown returns, the queue is empty and every accepted command has its
\* answer (ConcurrentMatchingEngine::shutdown, BlockingQueue::close).
THEOREM ShutdownAlwaysDrains == WorkerSpec => []ShutdownDrains
BY AlwaysInLine, InvDrains, PTL

-----------------------------------------------------------------------------
(* The session: the inductive invariant                                    *)

\* Outside a connection everything that belongs to one is as constructed.
Fresh ==
  /\ NothingPending
  /\ connection_stopped = FALSE /\ force_close = FALSE
  /\ heartbeat_write_in_progress = FALSE
  /\ heartbeat = NewHeartbeat
  /\ quiet = 0 /\ stalled = FALSE

PhaseInv ==
  /\ phase \notin {"running", "closing"} => Fresh
  /\ slept > 0 => phase = "waiting"

\* Operations are counted by the flags, and the timer runs until the
\* connection is stopped, which has a reason.
PendingInv ==
  /\ reads + (IF start_read_next THEN 1 ELSE 0) <= 1
  /\ writes = IF heartbeat_write_in_progress THEN 1 ELSE 0
  /\ Live => timer = "armed"
  /\ connection_stopped => force_close \/ shutdown_requested
  /\ phase = "closing" => connection_stopped

\* Time since the signal is no longer than the timer's current period.
ShutdownInv ==
  /\ ~ shutdown_requested => since_shutdown = 0
  /\ phase \in {"loop", "connecting", "waiting"} => since_shutdown = 0
  /\ Live => since_shutdown <= timer_age

\* While no ping has stalled: a ping is due only since the timer last fired,
\* one that is being written is the last, and the seconds without a pong are
\* those before the first unanswered ping and those since.
SilenceInv ==
  Live /\ ~ stalled =>
    /\ heartbeat_write_in_progress =>
         /\ write_age + heartbeat.next_ping_in = heartbeat_interval
         /\ heartbeat.next_ping_in > 0
    /\ heartbeat.next_ping_in = 0 => timer_age >= 1
    /\ heartbeat.ping_age = pong_timeout => timer_age >= 1
    /\ ~ heartbeat.awaiting_pong =>
         quiet + heartbeat.next_ping_in <=
           heartbeat_interval
             + (IF heartbeat.next_ping_in = 0 THEN timer_age - 1 ELSE 0)
    /\ heartbeat.awaiting_pong =>
         quiet <= heartbeat_interval + MaxLate + heartbeat.ping_age
                    + (IF heartbeat.ping_age = pong_timeout
                           THEN timer_age - 1 ELSE 0)

\* No ping has been unanswered for longer than the pongs have been missing.
PingInv ==
  /\ Live /\ heartbeat.awaiting_pong => quiet >= heartbeat.ping_age
  /\ ~ heartbeat.awaiting_pong => heartbeat.ping_age = 0

Inv == TypeOK /\ PhaseInv /\ PendingInv /\ ShutdownInv /\ SilenceInv /\ PingInv

\* TypeOK in three parts: SMT is poor at Boolean variables among the others.
FlagsTyped ==
  /\ shutdown_requested \in BOOLEAN /\ start_read_next \in BOOLEAN
  /\ connection_stopped \in BOOLEAN /\ force_close \in BOOLEAN
  /\ heartbeat_write_in_progress \in BOOLEAN /\ stalled \in BOOLEAN

ValuesTyped ==
  /\ phase \in Phases
  /\ handlers \in {"default", "client"} /\ previous \in {"default", "client"}
  /\ delay \in initial_delay_seconds .. maximum_delay_seconds
  /\ slept \in 0 .. delay
  /\ reads \in Nat /\ writes \in Nat
  /\ timer \in {"idle", "armed", "cancelled"}
  /\ timer_age \in 0 .. 1 + MaxLate /\ write_age \in 0 .. heartbeat_interval
  /\ quiet \in 0 .. SilenceBound + 1
  /\ since_shutdown \in 0 .. ShutdownBound + 1
  /\ retries \in 0 .. MaxRetries

USE HeartbeatAssumption, BackoffAssumption, TimingAssumption

\* A connection starts with a heartbeat of the right type.
LEMMA NewHeartbeatType == NewHeartbeat \in Heartbeat
BY DEF NewHeartbeat, Heartbeat

\* Before the call nothing is pending.
LEMMA InitInv == Init => Inv
<1> SUFFICES ASSUME Init PROVE Inv
  BY Zenon
<1> USE DEF Init, NothingPending
<1>1. FlagsTyped
  BY Zenon DEF FlagsTyped
<1>2. ValuesTyped
  BY DEF ValuesTyped, Phases, SilenceBound, ShutdownBound
<1>3. heartbeat \in Heartbeat
  BY Zenon, NewHeartbeatType
<1>4. TypeOK
  BY Zenon, <1>1, <1>2, <1>3 DEF TypeOK, FlagsTyped, ValuesTyped
<1>5. PhaseInv /\ PendingInv /\ ShutdownInv /\ SilenceInv /\ PingInv
  BY DEF PhaseInv, Fresh, PendingInv, ShutdownInv, SilenceInv, PingInv, Live,
         NewHeartbeat
<1> QED
  BY Zenon, <1>4, <1>5 DEF Inv

-----------------------------------------------------------------------------
(* Every action preserves the invariant                                    *)

\* The call of stream_market.
LEMMA EnterKept ==
  ASSUME Inv, stream_market \/ subscription_refused
  PROVE Inv'
<1> USE DEF Inv, TypeOK, FlagsTyped, ValuesTyped, Phases, stream_market,
            subscription_refused, EnterStream, operations, flags
<1>1. FlagsTyped'
  BY Zenon
<1>2. ValuesTyped'
  BY DEF PhaseInv, SilenceBound, ShutdownBound, Later
<1>3. heartbeat' \in Heartbeat
  BY Zenon
<1>4. PhaseInv'
  BY DEF PhaseInv, Fresh, NothingPending
<1>5. PendingInv'
  BY DEF PendingInv, Live, PhaseInv, Fresh, NothingPending
<1>6. ShutdownInv'
  BY Zenon DEF ShutdownInv, Live
<1>7. SilenceInv'
  BY Zenon DEF SilenceInv, Live
<1>8. PingInv'
  BY Zenon DEF PingInv, Live
<1> QED
  BY Zenon, <1>1, <1>2, <1>3, <1>4, <1>5, <1>6, <1>7, <1>8

\* The signal handler.
LEMMA SignalKept == ASSUME Inv, handle_shutdown_signal PROVE Inv'
<1> USE DEF Inv, TypeOK, FlagsTyped, ValuesTyped, Phases,
            handle_shutdown_signal, stream, operations, flags, history
<1>1. FlagsTyped'
  BY Zenon
<1>2. ValuesTyped'
  BY Zenon
<1>3. heartbeat' \in Heartbeat
  BY Zenon
<1>4. PhaseInv'
  BY Zenon DEF PhaseInv, Fresh, NothingPending
<1>5. PendingInv'
  BY Zenon DEF PendingInv, Live
<1>6. ShutdownInv'
  BY Zenon DEF ShutdownInv, Live
<1>7. SilenceInv'
  BY Zenon DEF SilenceInv, Live
<1>8. PingInv'
  BY Zenon DEF PingInv, Live
<1> QED
  BY Zenon, <1>1, <1>2, <1>3, <1>4, <1>5, <1>6, <1>7, <1>8

\* The loop around the connections.
LEMMA LoopKept ==
  ASSUME Inv, attempt \/ connect_fails \/ begin_wait
  PROVE Inv'
<1> USE DEF Inv, TypeOK, FlagsTyped, ValuesTyped, Phases, attempt,
            connect_fails, begin_wait, stream, operations, flags, history
<1>1. FlagsTyped'
  OBVIOUS
<1>2. ValuesTyped'
  OBVIOUS
<1>3. heartbeat' \in Heartbeat
  BY Zenon
<1>4. PhaseInv'
  BY Zenon DEF PhaseInv, Fresh, NothingPending
<1>5. PendingInv'
  BY DEF PendingInv, Live
<1>6. ShutdownInv'
  BY Zenon DEF ShutdownInv, Live
<1>7. SilenceInv'
  BY Zenon DEF SilenceInv, Live
<1>8. PingInv'
  BY Zenon DEF PingInv, Live
<1> QED
  BY Zenon, <1>1, <1>2, <1>3, <1>4, <1>5, <1>6, <1>7, <1>8

\* A connection begins with a read and an armed timer.
LEMMA ConnectKept == ASSUME Inv, connect PROVE Inv'
<1> USE DEF Inv, TypeOK, FlagsTyped, ValuesTyped, Phases, connect, stream,
            flags, history
<1>1. FlagsTyped'
  BY Zenon
<1>2. ValuesTyped'
  OBVIOUS
<1>3. heartbeat' \in Heartbeat
  BY Zenon
<1>4. PhaseInv'
  BY Zenon DEF PhaseInv, Fresh
<1>5. PendingInv'
  BY DEF PendingInv, Live, PhaseInv, Fresh, NothingPending
<1>6. ShutdownInv'
  BY DEF ShutdownInv, Live
<1>7. SilenceInv'
  BY DEF SilenceInv, Live, PendingInv, PhaseInv, Fresh, NothingPending,
         NewHeartbeat, PingInv, SilenceBound, Later, Heartbeat
<1>8. PingInv'
  BY DEF PingInv, Live, PhaseInv, Fresh, NothingPending, NewHeartbeat,
         SilenceBound, Later, Heartbeat
<1> QED
  BY Zenon, <1>1, <1>2, <1>3, <1>4, <1>5, <1>6, <1>7, <1>8

\* Waiting and the growth of the delay.
LEMMA WaitKept == ASSUME Inv, sleep_second \/ end_wait PROVE Inv'
<1> USE DEF Inv, TypeOK, FlagsTyped, ValuesTyped, Phases, sleep_second,
            end_wait, advance, operations, flags, history
<1>1. FlagsTyped'
  OBVIOUS
<1>2. ValuesTyped'
  BY DEF PhaseInv, SilenceBound, ShutdownBound, Later
<1>3. heartbeat' \in Heartbeat
  BY Zenon
<1>4. PhaseInv'
  BY DEF PhaseInv, Fresh, NothingPending
<1>5. PendingInv'
  BY DEF PendingInv, Live
<1>6. ShutdownInv'
  BY Zenon DEF ShutdownInv, Live
<1>7. SilenceInv'
  BY Zenon DEF SilenceInv, Live
<1>8. PingInv'
  BY Zenon DEF PingInv, Live
<1> QED
  BY Zenon, <1>1, <1>2, <1>3, <1>4, <1>5, <1>6, <1>7, <1>8

\* The end of stream_market.
LEMMA FinishKept == ASSUME Inv, finish PROVE Inv'
<1> USE DEF Inv, TypeOK, FlagsTyped, ValuesTyped, Phases, finish, operations,
            flags, history
<1>1. FlagsTyped'
  BY Zenon
<1>2. ValuesTyped'
  BY Zenon
<1>3. heartbeat' \in Heartbeat
  BY Zenon
<1>4. PhaseInv'
  BY Zenon DEF PhaseInv, Fresh, NothingPending
<1>5. PendingInv'
  BY Zenon DEF PendingInv, Live
<1>6. ShutdownInv'
  BY Zenon DEF ShutdownInv, Live
<1>7. SilenceInv'
  BY Zenon DEF SilenceInv, Live
<1>8. PingInv'
  BY Zenon DEF PingInv, Live
<1> QED
  BY Zenon, <1>1, <1>2, <1>3, <1>4, <1>5, <1>6, <1>7, <1>8

\* The handler of a read that ends the connection or finds it ended.
LEMMA ReadEndsKept ==
  ASSUME Inv, read_after_stop \/ read_after_shutdown \/ read_fails
  PROVE Inv'
<1> USE DEF Inv, TypeOK, FlagsTyped, ValuesTyped, Phases, read_after_stop,
            read_after_shutdown, read_fails, ReadReturns, Dispatching,
            stop_connection
<1>1. FlagsTyped'
  BY Zenon
<1>2. ValuesTyped'
  OBVIOUS
<1>3. heartbeat' \in Heartbeat
  BY Zenon
<1>4. PhaseInv'
  BY Zenon DEF PhaseInv, Fresh
<1>5. PendingInv'
  BY DEF PendingInv, Live
<1>6. ShutdownInv'
  BY Zenon DEF ShutdownInv, Live
<1>7. SilenceInv'
  BY Zenon DEF SilenceInv, Live
<1>8. PingInv'
  BY Zenon DEF PingInv, Live
<1> QED
  BY <1>1, <1>2, <1>3, <1>4, <1>5, <1>6, <1>7, <1>8

\* The handler of a read that has a message; a pong ends the silence.
LEMMA ReadMessageKept ==
  ASSUME Inv, \E is_pong \in BOOLEAN : read_message(is_pong)
  PROVE Inv'
<1> USE DEF Inv, TypeOK, FlagsTyped, ValuesTyped, Phases, read_message,
            ReadReturns, Dispatching, on_pong_received
<1>1. FlagsTyped'
  BY Zenon
<1>2. ValuesTyped'
  BY DEF PhaseInv, SilenceBound, ShutdownBound, Later
<1>3. heartbeat' \in Heartbeat
  BY DEF Heartbeat
<1>4. PhaseInv'
  BY Zenon DEF PhaseInv, Fresh
<1>5. PendingInv'
  BY DEF PendingInv, Live
<1>6. ShutdownInv'
  BY Zenon DEF ShutdownInv, Live
<1>7. SilenceInv'
  BY DEF SilenceInv, Live, PingInv, Heartbeat
<1>8. PingInv'
  BY DEF PingInv, Live
<1> QED
  BY <1>1, <1>2, <1>3, <1>4, <1>5, <1>6, <1>7, <1>8

\* The next read replaces the one that returned.
LEMMA StartReadKept == ASSUME Inv, start_read PROVE Inv'
<1> USE DEF Inv, TypeOK, FlagsTyped, ValuesTyped, Phases, start_read, stream,
            flags, history
<1>1. FlagsTyped'
  BY Zenon
<1>2. ValuesTyped'
  OBVIOUS
<1>3. heartbeat' \in Heartbeat
  BY Zenon
<1>4. PhaseInv'
  BY Zenon DEF PhaseInv, Fresh
<1>5. PendingInv'
  BY DEF PendingInv, Live
<1>6. ShutdownInv'
  BY Zenon DEF ShutdownInv, Live
<1>7. SilenceInv'
  BY Zenon DEF SilenceInv, Live
<1>8. PingInv'
  BY Zenon DEF PingInv, Live
<1> QED
  BY Zenon, <1>1, <1>2, <1>3, <1>4, <1>5, <1>6, <1>7, <1>8

\* The handler of the timer once the connection is to end.
LEMMA TimerEndsKept ==
  ASSUME Inv, timer_after_stop \/ timer_after_shutdown
  PROVE Inv'
<1> USE DEF Inv, TypeOK, FlagsTyped, ValuesTyped, Phases, timer_after_stop,
            timer_after_shutdown, TimerFires, Dispatching, stop_connection,
            stream, flags, history
<1>1. FlagsTyped'
  BY Zenon
<1>2. ValuesTyped'
  OBVIOUS
<1>3. heartbeat' \in Heartbeat
  BY Zenon
<1>4. PhaseInv'
  BY Zenon DEF PhaseInv, Fresh
<1>5. PendingInv'
  BY DEF PendingInv, Live
<1>6. ShutdownInv'
  BY Zenon DEF ShutdownInv, Live
<1>7. SilenceInv'
  BY Zenon DEF SilenceInv, Live
<1>8. PingInv'
  BY DEF PingInv, Live
<1> QED
  BY <1>1, <1>2, <1>3, <1>4, <1>5, <1>6, <1>7, <1>8

\* The handler of the timer gives the connection up.
LEMMA HeartbeatFailsKept == ASSUME Inv, heartbeat_fails PROVE Inv'
<1> USE DEF Inv, TypeOK, FlagsTyped, ValuesTyped, Phases, heartbeat_fails,
            TimerFires, Dispatching, stop_connection, stream, history
<1>1. FlagsTyped'
  BY Zenon
<1>2. ValuesTyped'
  OBVIOUS
<1>3. heartbeat' \in Heartbeat
  BY Zenon
<1>4. PhaseInv'
  BY Zenon DEF PhaseInv, Fresh
<1>5. PendingInv'
  BY Zenon DEF PendingInv, Live
<1>6. ShutdownInv'
  BY Zenon DEF ShutdownInv, Live
<1>7. SilenceInv'
  BY Zenon DEF SilenceInv, Live
<1>8. PingInv'
  BY Zenon DEF PingInv, Live
<1> QED
  BY <1>1, <1>2, <1>3, <1>4, <1>5, <1>6, <1>7, <1>8

\* A ping is sent at most MaxLate seconds after it was due.
LEMMA SendPingKept == ASSUME Inv, send_ping PROVE Inv'
<1> USE DEF Inv, TypeOK, FlagsTyped, ValuesTyped, Phases, send_ping,
            TimerFires, Dispatching, CanPing, should_send_ping, on_ping_sent,
            pong_timed_out, stream, history
<1>1. FlagsTyped'
  BY Zenon
<1>2. ValuesTyped'
  OBVIOUS
<1>3. heartbeat' \in Heartbeat
  BY DEF Heartbeat
<1>4. PhaseInv'
  BY Zenon DEF PhaseInv, Fresh
<1>5. PendingInv'
  BY DEF PendingInv, Live
<1>6. ShutdownInv'
  BY DEF ShutdownInv, Live
<1>7. SilenceInv'
  BY DEF SilenceInv, Live
<1>8. PingInv'
  BY DEF PingInv, Live
<1> QED
  BY <1>1, <1>2, <1>3, <1>4, <1>5, <1>6, <1>7, <1>8

\* No ping is due, or one is being written and the timer goes on.
LEMMA NoPingKept == ASSUME Inv, no_ping PROVE Inv'
<1> USE DEF Inv, TypeOK, FlagsTyped, ValuesTyped, Phases, no_ping, TimerFires,
            Dispatching, CanPing, should_send_ping, pong_timed_out, stream,
            flags, history
<1>1. FlagsTyped'
  BY Zenon
<1>2. ValuesTyped'
  OBVIOUS
<1>3. heartbeat' \in Heartbeat
  BY Zenon
<1>4. PhaseInv'
  BY Zenon DEF PhaseInv, Fresh
<1>5. PendingInv'
  BY Zenon DEF PendingInv, Live
<1>6. ShutdownInv'
  BY DEF ShutdownInv, Live
<1>7. SilenceInv'
  BY DEF SilenceInv, Live, PingInv, Heartbeat
<1>8. PingInv'
  BY Zenon DEF PingInv, Live
<1> QED
  BY <1>1, <1>2, <1>3, <1>4, <1>5, <1>6, <1>7, <1>8

\* The handler of a write.
LEMMA WriteKept == ASSUME Inv, ping_written \/ write_fails PROVE Inv'
<1> USE DEF Inv, TypeOK, FlagsTyped, ValuesTyped, Phases, ping_written,
            write_fails, WriteReturns, Dispatching, stop_connection, stream,
            history
<1>1. FlagsTyped'
  BY Zenon
<1>2. ValuesTyped'
  OBVIOUS
<1>3. heartbeat' \in Heartbeat
  BY Zenon
<1>4. PhaseInv'
  BY Zenon DEF PhaseInv, Fresh
<1>5. PendingInv'
  BY DEF PendingInv, Live
<1>6. ShutdownInv'
  BY Zenon DEF ShutdownInv, Live
<1>7. SilenceInv'
  BY Zenon DEF SilenceInv, Live
<1>8. PingInv'
  BY Zenon DEF PingInv, Live
<1> QED
  BY <1>1, <1>2, <1>3, <1>4, <1>5, <1>6, <1>7, <1>8

\* run() returns when nothing is pending, so the connection was stopped.
LEMMA RunReturnsKept == ASSUME Inv, run_returns PROVE Inv'
<1> USE DEF Inv, TypeOK, FlagsTyped, ValuesTyped, Phases, run_returns,
            Dispatching, stream, operations, flags, history
<1>1. FlagsTyped'
  BY Zenon
<1>2. ValuesTyped'
  BY Zenon
<1>3. heartbeat' \in Heartbeat
  BY Zenon
<1>4. PhaseInv'
  BY DEF PhaseInv, Fresh
<1>5. PendingInv'
  BY DEF PendingInv, Live
<1>6. ShutdownInv'
  BY DEF ShutdownInv, Live
<1>7. SilenceInv'
  BY DEF SilenceInv, Live
<1>8. PingInv'
  BY DEF PingInv, Live
<1> QED
  BY <1>1, <1>2, <1>3, <1>4, <1>5, <1>6, <1>7, <1>8

\* What belongs to the connection is destroyed.
LEMMA DisconnectKept ==
  ASSUME Inv, handler_throws \/ close_socket \/ close_websocket
  PROVE Inv'
<1> USE DEF Inv, TypeOK, FlagsTyped, ValuesTyped, Phases, handler_throws,
            close_socket, close_websocket, Disconnect, stream
<1>1. FlagsTyped'
  BY Zenon
<1>2. ValuesTyped'
  BY DEF PhaseInv, SilenceBound, ShutdownBound, Later
<1>3. heartbeat' \in Heartbeat
  BY Zenon, NewHeartbeatType
<1>4. PhaseInv'
  BY Zenon DEF PhaseInv, Fresh, NothingPending
<1>5. PendingInv'
  BY DEF PendingInv, Live
<1>6. ShutdownInv'
  BY Zenon DEF ShutdownInv, Live
<1>7. SilenceInv'
  BY Zenon DEF SilenceInv, Live
<1>8. PingInv'
  BY DEF PingInv, Live, PhaseInv, Fresh, NothingPending, NewHeartbeat,
         SilenceBound, Later, Heartbeat
<1> QED
  BY <1>1, <1>2, <1>3, <1>4, <1>5, <1>6, <1>7, <1>8

\* A second passes: every bound grows by one at most, with the timer.
LEMMA SecondKept == ASSUME Inv, second_passes PROVE Inv'
<1> USE DEF Inv, TypeOK, FlagsTyped, ValuesTyped, Phases, second_passes,
            Dispatching, Later, SilenceBound, ShutdownBound, second_later,
            stream, flags
<1>1. FlagsTyped'
  OBVIOUS
<1>2. ValuesTyped'
  OBVIOUS
<1>3. heartbeat' \in Heartbeat
  BY DEF Heartbeat
<1>4. PhaseInv'
  BY Zenon DEF PhaseInv, Fresh
<1>5. PendingInv'
  BY DEF PendingInv, Live
<1>6. ShutdownInv'
  BY DEF ShutdownInv, Live
<1>7. SilenceInv'
  BY DEF SilenceInv, Live, PendingInv, PhaseInv, Fresh, NothingPending,
         NewHeartbeat, PingInv, SilenceBound, Later, Heartbeat
<1>8. PingInv'
  BY DEF PingInv, Live, PhaseInv, Fresh, NothingPending, NewHeartbeat,
         SilenceBound, Later, Heartbeat
<1> QED
  BY Zenon, <1>1, <1>2, <1>3, <1>4, <1>5, <1>6, <1>7, <1>8

\* Every step of the client, of its peer and of the clock, and stuttering.
LEMMA NextInv == Inv /\ [Next]_vars => Inv'
<1> SUFFICES ASSUME Inv, [Next]_vars PROVE Inv'
  BY Zenon
<1>1. CASE Next
  BY <1>1, EnterKept, SignalKept, LoopKept, ConnectKept, WaitKept, FinishKept,
     ReadEndsKept, ReadMessageKept, StartReadKept, TimerEndsKept,
     HeartbeatFailsKept, SendPingKept, NoPingKept, WriteKept, RunReturnsKept,
     DisconnectKept, SecondKept, Zenon
  DEF Next, Thread, timer_error, heartbeat_timeout
<1>2. CASE UNCHANGED vars
  <2>1. TypeOK' /\ PhaseInv' /\ PendingInv'
    BY <1>2 DEF Inv, TypeOK, PhaseInv, Fresh, NothingPending, PendingInv, Live,
                vars, stream, operations, flags, history
  <2>2. ShutdownInv' /\ SilenceInv' /\ PingInv'
    BY <1>2 DEF Inv, ShutdownInv, SilenceInv, PingInv, Live,
                vars, stream, operations, flags, history
  <2> QED
    BY <2>1, <2>2 DEF Inv
<1> QED
  BY Zenon, <1>1, <1>2

\* stream_market keeps the invariant, whatever the peer and the clock do.
LEMMA Invariance == Spec => []Inv
BY InitInv, NextInv, PTL DEF Spec

-----------------------------------------------------------------------------
(* Theorems                                                                *)

\* Every variable of stream_market keeps a value of its type.
THEOREM TypeCorrect == Spec => []TypeOK
<1>1. Inv => TypeOK
  BY Zenon DEF Inv
<1> QED
  BY <1>1, Invariance, PTL

\* start_read and the heartbeat never begin a second read or write.
THEOREM OneOperationEachHolds == Spec => []OneOperationEach
<1>1. Inv => OneOperationEach
  BY DEF Inv, PendingInv, OneOperationEach, TypeOK
<1> QED
  BY <1>1, Invariance, PTL

\* The heartbeat gives a silent peer up within an interval, a timeout and
\* twice the lateness of the timer, in whole seconds, unless a ping stalled.
THEOREM SilenceIsNoticedHolds == Spec => []SilenceIsNoticed
<1>1. Inv => SilenceIsNoticed
  BY DEF Inv, SilenceInv, SilenceIsNoticed, SilenceBound, TypeOK, Heartbeat,
         Live
<1> QED
  BY <1>1, Invariance, PTL

\* A timeout is only declared after a whole timeout without a pong.
THEOREM NoHastyTimeoutHolds == Spec => NoHastyTimeout
<1>1. Inv => (Live /\ heartbeat_timeout => quiet >= pong_timeout)
  BY DEF Inv, PingInv, TypeOK, Heartbeat, heartbeat_timeout, pong_timed_out
<1> QED
  BY <1>1, Invariance, PTL DEF NoHastyTimeout

\* run() returns only because the connection was stopped, for a reason.
THEOREM ClosingIsDecidedHolds == Spec => []ClosingIsDecided
<1>1. Inv => ClosingIsDecided
  BY Zenon DEF Inv, PendingInv, ClosingIsDecided
<1> QED
  BY <1>1, Invariance, PTL

\* A signal ends reading within one period of the timer.
THEOREM ShutdownIsPromptHolds == Spec => []ShutdownIsPrompt
<1>1. Inv => ShutdownIsPrompt
  BY DEF Inv, ShutdownInv, ShutdownIsPrompt, ShutdownBound, TypeOK, Live
<1> QED
  BY <1>1, Invariance, PTL
=============================================================================
