--------------------------- MODULE WebSocketSession ---------------------------
(***************************************************************************)
(* WebSocketClient::stream_market of src/websocket_client.cpp: connect,    *)
(* read and send heartbeats until the connection or the process is to end, *)
(* close, wait and connect again.                                          *)
(*                                                                         *)
(* One thread runs everything.  While phase is "running" it is inside      *)
(* io_context.run(), which calls the handlers of the operations that are   *)
(* pending and returns when none is.  The signal handler may set           *)
(* shutdown_requested between any two steps.  Time passes in seconds; a    *)
(* handler of the timer runs at most MaxLate seconds late, while reads and *)
(* writes take as long as the network likes.  What the messages say is the *)
(* business of MarketFeed.tla.                                             *)
(***************************************************************************)
EXTENDS HeartbeatState

CONSTANTS
  MaxLate,      \* bound on the delay of the timer's handler, in seconds
  MaxRetries    \* bound on the retries that are counted

ASSUME TimingAssumption ==
  /\ MaxLate \in Nat
  /\ MaxRetries \in Nat

VARIABLES
  phase,                \* where stream_market is
  shutdown_requested,   \* set by the signal handler
  handlers, previous,   \* the signal handlers of the process, the saved ones
  delay, slept,         \* reconnect_backoff, seconds of the wait so far
  reads, writes,        \* reads and writes that are pending
  timer,                \* heartbeat_timer: idle, armed or cancelled
  timer_age, write_age, \* seconds since they began
  start_read_next,      \* a message was handled, start_read is called next
  connection_stopped, force_close, heartbeat_write_in_progress,
  heartbeat,
  quiet,                \* history: seconds without a pong
  stalled,              \* history: a ping took an interval to be written
  since_shutdown,       \* history: seconds since the signal
  retries               \* history: waits since the last message

stream == <<handlers, previous, delay, slept>>
operations == <<reads, writes, timer, timer_age, write_age, start_read_next>>
flags == <<connection_stopped, force_close, heartbeat_write_in_progress>>
history == <<quiet, stalled, since_shutdown, retries>>

vars == <<phase, shutdown_requested, stream, operations, flags, heartbeat, history>>

\* The longest time without a pong that a connection survives.
SilenceBound == heartbeat_interval + pong_timeout + 2 * MaxLate

\* The longest time that a running connection or a wait outlives the signal.
ShutdownBound == 1 + MaxLate

Later(n, bound) == IF n < bound THEN n + 1 ELSE n

NothingPending ==
  /\ reads = 0 /\ writes = 0 /\ timer = "idle"
  /\ timer_age = 0 /\ write_age = 0
  /\ start_read_next = FALSE

Init ==
  /\ phase = "outside"
  /\ shutdown_requested = FALSE
  /\ handlers = "default" /\ previous = "default"
  /\ delay = initial_delay_seconds /\ slept = 0
  /\ NothingPending
  /\ connection_stopped = FALSE /\ force_close = FALSE
  /\ heartbeat_write_in_progress = FALSE
  /\ heartbeat = NewHeartbeat
  /\ quiet = 0 /\ stalled = FALSE /\ since_shutdown = 0 /\ retries = 0

-----------------------------------------------------------------------------
(* The call, the signal, the loop around the connections                   *)

EnterStream ==
  /\ phase = "outside"
  /\ delay' = initial_delay_seconds
  /\ slept' = 0
  /\ shutdown_requested' = FALSE
  /\ previous' = handlers
  /\ handlers' = "client"
  /\ since_shutdown' = 0 /\ retries' = 0
  /\ UNCHANGED <<operations, flags, heartbeat, quiet, stalled>>

stream_market == EnterStream /\ phase' = "loop"

\* build_subscription_message throws out of stream_market.
subscription_refused == EnterStream /\ phase' = "outside"

\* SIGINT or SIGTERM while the client's handler is installed
handle_shutdown_signal ==
  /\ handlers = "client"
  /\ shutdown_requested' = TRUE
  /\ UNCHANGED <<phase, stream, operations, flags, heartbeat, history>>

attempt ==
  /\ phase = "loop" /\ ~ shutdown_requested
  /\ phase' = "connecting"
  /\ UNCHANGED <<shutdown_requested, stream, operations, flags, heartbeat, history>>

\* Resolving, connecting, both handshakes and the subscription succeed; then
\* start_read and schedule_heartbeat are called on the fresh state of the
\* connection.
connect ==
  /\ phase = "connecting"
  /\ phase' = "running"
  /\ reads' = IF shutdown_requested THEN 0 ELSE 1
  /\ timer' = "armed" /\ timer_age' = 0
  /\ UNCHANGED <<shutdown_requested, stream, writes, write_age, start_read_next,
                 flags, heartbeat, history>>

\* One of the blocking calls throws.
connect_fails ==
  /\ phase = "connecting"
  /\ phase' = "disconnected"
  /\ UNCHANGED <<shutdown_requested, stream, operations, flags, heartbeat, history>>

begin_wait ==
  /\ phase = "disconnected" /\ ~ shutdown_requested
  /\ phase' = "waiting"
  /\ UNCHANGED <<shutdown_requested, stream, operations, flags, heartbeat, history>>

sleep_second ==
  /\ phase = "waiting"
  /\ slept < delay /\ ~ shutdown_requested
  /\ slept' = slept + 1
  /\ UNCHANGED <<phase, shutdown_requested, handlers, previous, delay, operations,
                 flags, heartbeat, history>>

\* Mutant: one second too many is waited for.
end_wait_late ==
  /\ phase = "waiting"
  /\ slept > delay \/ shutdown_requested
  /\ phase' = "loop"
  /\ delay' = advance(delay)
  /\ slept' = 0
  /\ retries' = Later(retries, MaxRetries)
  /\ UNCHANGED <<shutdown_requested, handlers, previous, operations, flags, heartbeat,
                 quiet, stalled, since_shutdown>>

\* The wait is over or cut short; reconnect_backoff.advance()
end_wait ==
  /\ phase = "waiting"
  /\ slept >= delay \/ shutdown_requested
  /\ phase' = "loop"
  /\ delay' = advance(delay)
  /\ slept' = 0
  /\ retries' = Later(retries, MaxRetries)
  /\ UNCHANGED <<shutdown_requested, handlers, previous, operations, flags, heartbeat,
                 quiet, stalled, since_shutdown>>

\* Mutant: the previous signal handlers are not restored.
finish_without_handlers ==
  /\ phase \in {"loop", "disconnected"} /\ shutdown_requested
  /\ phase' = "outside"
  /\ UNCHANGED <<shutdown_requested, stream, operations, flags, heartbeat, history>>

\* The loop condition or the break after a connection
finish ==
  /\ phase \in {"loop", "disconnected"} /\ shutdown_requested
  /\ phase' = "outside"
  /\ handlers' = previous
  /\ UNCHANGED <<shutdown_requested, previous, delay, slept, operations, flags,
                 heartbeat, history>>

-----------------------------------------------------------------------------
(* Handlers of the connection                                              *)

\* io_context.run() may call a handler.
Dispatching == phase = "running" /\ ~ start_read_next

\* What stop_connection does besides clearing the pending operations, whose
\* handlers are called with operation_aborted: idempotent.
stop_connection(timer_then) ==
  /\ connection_stopped' = TRUE
  /\ timer' = IF timer_then = "armed" THEN "cancelled" ELSE timer_then

ReadReturns ==
  /\ Dispatching /\ reads > 0
  /\ reads' = reads - 1
  /\ UNCHANGED <<phase, shutdown_requested, handlers, previous, slept, writes,
                 write_age, timer_age, heartbeat_write_in_progress, stalled,
                 since_shutdown>>

read_after_stop ==
  /\ ReadReturns
  /\ connection_stopped
  /\ UNCHANGED <<delay, timer, start_read_next, connection_stopped, force_close,
                 heartbeat, quiet, retries>>

read_after_shutdown ==
  /\ ReadReturns
  /\ ~ connection_stopped /\ shutdown_requested
  /\ stop_connection(timer)
  /\ UNCHANGED <<delay, start_read_next, force_close, heartbeat, quiet, retries>>

\* Mutant: an error ends the connection but leaves force_close unset.
read_fails_unforced ==
  /\ ReadReturns
  /\ ~ connection_stopped /\ ~ shutdown_requested
  /\ stop_connection(timer)
  /\ UNCHANGED <<delay, start_read_next, force_close, heartbeat, quiet, retries>>

\* websocket::error::closed or another error
read_fails ==
  /\ ReadReturns
  /\ ~ connection_stopped /\ ~ shutdown_requested
  /\ force_close' = TRUE
  /\ stop_connection(timer)
  /\ UNCHANGED <<delay, start_read_next, heartbeat, quiet, retries>>

\* Mutant: only market data resets the backoff.
read_message_no_reset(is_pong) ==
  /\ ReadReturns
  /\ ~ connection_stopped /\ ~ shutdown_requested
  /\ retries' = 0
  /\ heartbeat' = IF is_pong THEN on_pong_received(heartbeat) ELSE heartbeat
  /\ quiet' = IF is_pong THEN 0 ELSE quiet
  /\ start_read_next' = TRUE
  /\ UNCHANGED <<delay, timer, connection_stopped, force_close>>

\* A message was read: a pong, or one that is ignored or processed without
\* letting an exception out.
read_message(is_pong) ==
  /\ ReadReturns
  /\ ~ connection_stopped /\ ~ shutdown_requested
  /\ delay' = initial_delay_seconds
  /\ retries' = 0
  /\ heartbeat' = IF is_pong THEN on_pong_received(heartbeat) ELSE heartbeat
  /\ quiet' = IF is_pong THEN 0 ELSE quiet
  /\ start_read_next' = TRUE
  /\ UNCHANGED <<timer, connection_stopped, force_close>>

\* The signal may have come since the handler looked.
start_read ==
  /\ phase = "running" /\ start_read_next
  /\ start_read_next' = FALSE
  /\ reads' = IF connection_stopped \/ shutdown_requested THEN reads ELSE reads + 1
  /\ UNCHANGED <<phase, shutdown_requested, stream, writes, timer, timer_age,
                 write_age, flags, heartbeat, history>>

TimerFires ==
  /\ Dispatching
  /\ timer = "cancelled" \/ (timer = "armed" /\ timer_age >= 1)
  /\ timer_age' = 0
  /\ UNCHANGED <<phase, shutdown_requested, stream, reads, start_read_next, history>>

timer_after_stop ==
  /\ TimerFires
  /\ connection_stopped
  /\ timer' = "idle"
  /\ UNCHANGED <<writes, write_age, flags, heartbeat>>

\* The timer reports an error or the awaited pong is overdue.
heartbeat_fails ==
  /\ TimerFires
  /\ ~ connection_stopped
  /\ force_close' = TRUE
  /\ stop_connection("idle")
  /\ UNCHANGED <<writes, write_age, heartbeat_write_in_progress, heartbeat>>

timer_error == heartbeat_fails

heartbeat_timeout ==
  /\ ~ shutdown_requested /\ pong_timed_out(heartbeat)
  /\ heartbeat_fails

timer_after_shutdown ==
  /\ TimerFires
  /\ ~ connection_stopped /\ shutdown_requested
  /\ stop_connection("idle")
  /\ UNCHANGED <<writes, write_age, force_close, heartbeat_write_in_progress,
                 heartbeat>>

\* Mutant: a ping that is still being written is forgotten.
CanPing_busy == should_send_ping(heartbeat)

CanPing == should_send_ping(heartbeat) /\ ~ heartbeat_write_in_progress

\* A ping if one is due and none is being written; schedule_heartbeat
send_ping ==
  /\ TimerFires
  /\ ~ connection_stopped /\ ~ shutdown_requested
  /\ ~ pong_timed_out(heartbeat)
  /\ CanPing
  /\ heartbeat_write_in_progress' = TRUE
  /\ heartbeat' = on_ping_sent(heartbeat)
  /\ writes' = writes + 1 /\ write_age' = 0
  /\ timer' = "armed"
  /\ UNCHANGED <<connection_stopped, force_close>>

\* Mutant: the signal is not looked at.
no_ping_deaf ==
  /\ TimerFires
  /\ ~ connection_stopped
  /\ ~ pong_timed_out(heartbeat)
  /\ ~ CanPing
  /\ timer' = "armed"
  /\ UNCHANGED <<writes, write_age, flags, heartbeat>>

no_ping ==
  /\ TimerFires
  /\ ~ connection_stopped /\ ~ shutdown_requested
  /\ ~ pong_timed_out(heartbeat)
  /\ ~ CanPing
  /\ timer' = "armed"
  /\ UNCHANGED <<writes, write_age, flags, heartbeat>>

WriteReturns ==
  /\ Dispatching /\ writes > 0
  /\ writes' = writes - 1 /\ write_age' = 0
  /\ heartbeat_write_in_progress' = FALSE
  /\ UNCHANGED <<phase, shutdown_requested, stream, reads, timer_age,
                 start_read_next, heartbeat, history>>

\* Also when the connection was stopped in the meantime
ping_written ==
  /\ WriteReturns
  /\ UNCHANGED <<timer, connection_stopped, force_close>>

write_fails ==
  /\ WriteReturns
  /\ ~ connection_stopped
  /\ force_close' = TRUE
  /\ stop_connection(timer)

-----------------------------------------------------------------------------
(* The end of a connection                                                 *)

run_returns ==
  /\ Dispatching
  /\ reads = 0 /\ writes = 0 /\ timer = "idle"
  /\ phase' = "closing"
  /\ UNCHANGED <<shutdown_requested, stream, operations, flags, heartbeat, history>>

\* The end of the try block destroys what belongs to the connection.
Disconnect ==
  /\ phase' = "disconnected"
  /\ reads' = 0 /\ writes' = 0 /\ timer' = "idle"
  /\ timer_age' = 0 /\ write_age' = 0
  /\ start_read_next' = FALSE
  /\ connection_stopped' = FALSE /\ force_close' = FALSE
  /\ heartbeat_write_in_progress' = FALSE
  /\ heartbeat' = NewHeartbeat
  /\ quiet' = 0 /\ stalled' = FALSE
  /\ UNCHANGED <<shutdown_requested, stream, since_shutdown, retries>>

\* A handler runs out of memory and the exception leaves run().
handler_throws == phase = "running" /\ Disconnect

\* The socket is closed without a word.
close_socket == phase = "closing" /\ force_close /\ Disconnect

\* ws.close() waits for the peer to answer the close frame, if still open.
close_websocket == phase = "closing" /\ ~ force_close /\ Disconnect

-----------------------------------------------------------------------------
(* Time                                                                    *)

\* The timer's handler is at most MaxLate seconds late.  After
\* stop_connection nothing depends on time.
second_passes ==
  /\ Dispatching /\ ~ connection_stopped
  /\ timer = "armed" /\ timer_age < 1 + MaxLate
  /\ timer_age' = timer_age + 1
  /\ write_age' = IF writes > 0 THEN Later(write_age, heartbeat_interval) ELSE 0
  /\ stalled' = (stalled \/ write_age' = heartbeat_interval)
  /\ heartbeat' = second_later(heartbeat)
  /\ quiet' = Later(quiet, SilenceBound + 1)
  /\ since_shutdown' = IF shutdown_requested
                         THEN Later(since_shutdown, ShutdownBound + 1) ELSE 0
  /\ UNCHANGED <<phase, shutdown_requested, stream, reads, writes, timer,
                 start_read_next, flags, retries>>

-----------------------------------------------------------------------------
\* The steps of the thread that need nothing from the peer
Thread ==
  \/ attempt \/ begin_wait \/ sleep_second \/ end_wait \/ finish
  \/ start_read \/ timer_after_stop \/ timer_after_shutdown \/ heartbeat_timeout
  \/ send_ping \/ no_ping \/ run_returns \/ close_socket

Next ==
  \/ stream_market \/ subscription_refused \/ handle_shutdown_signal
  \/ Thread
  \/ connect \/ connect_fails
  \/ read_after_stop \/ read_after_shutdown \/ read_fails
  \/ \E is_pong \in BOOLEAN : read_message(is_pong)
  \/ timer_error
  \/ ping_written \/ write_fails
  \/ handler_throws
  \/ close_websocket
  \/ second_passes

\* The thread goes on and time passes; an operation that stop_connection
\* cancelled returns.  The peer need not send anything, take what is written,
\* accept a connection or answer a close frame: the calls that wait for the
\* last two have no timeout, and nothing says that they return.
Spec ==
  /\ Init /\ [][Next]_vars
  /\ WF_vars(Thread) /\ WF_vars(second_passes)
  /\ WF_vars(read_after_stop) /\ WF_vars(connection_stopped /\ ping_written)

-----------------------------------------------------------------------------
(* Properties                                                              *)

Phases == {"outside", "loop", "connecting", "running", "closing",
           "disconnected", "waiting"}

\* Every variable holds a value of its C++ type or of the bound on it.
TypeOK ==
  /\ phase \in Phases
  /\ shutdown_requested \in BOOLEAN
  /\ handlers \in {"default", "client"} /\ previous \in {"default", "client"}
  /\ delay \in initial_delay_seconds .. maximum_delay_seconds
  /\ slept \in 0 .. delay
  /\ reads \in Nat /\ writes \in Nat
  /\ timer \in {"idle", "armed", "cancelled"}
  /\ timer_age \in 0 .. 1 + MaxLate /\ write_age \in 0 .. heartbeat_interval
  /\ start_read_next \in BOOLEAN
  /\ connection_stopped \in BOOLEAN /\ force_close \in BOOLEAN
  /\ heartbeat_write_in_progress \in BOOLEAN
  /\ heartbeat \in Heartbeat
  /\ quiet \in 0 .. SilenceBound + 1 /\ stalled \in BOOLEAN
  /\ since_shutdown \in 0 .. ShutdownBound + 1
  /\ retries \in 0 .. MaxRetries

Live == phase = "running" /\ ~ connection_stopped

\* The websocket stream allows one read and one write at a time: start_read
\* and the heartbeat never begin a second one, however long the first takes.
OneOperationEach == reads + (IF start_read_next THEN 1 ELSE 0) <= 1 /\ writes <= 1

\* A peer that stops answering is noticed: heartbeats keep a connection at
\* most an interval and a timeout after its last pong, pings sent in between
\* and pongs to earlier pings included, and the timer's lateness twice.  All
\* of it is counted in whole seconds.  Only a ping that takes a whole interval
\* to be written can hold up the next one and hide the silence.
SilenceIsNoticed == Live /\ ~ stalled => quiet <= SilenceBound

\* The heartbeat gives a connection up only after a whole timeout without a
\* pong: an answered ping is never held against the peer.
NoHastyTimeout == [][Live /\ heartbeat_timeout => quiet >= pong_timeout]_vars

\* run() returns because the connection was stopped, never because nothing
\* was left to wait for; and whatever stopped it other than shutdown leads to
\* close_socket: the client does not ask a peer that is gone to say goodbye.
ClosingIsDecided ==
  phase = "closing" => connection_stopped /\ (force_close \/ shutdown_requested)

\* A signal ends reading within one period of the timer, also when it comes
\* while a handler runs or between connect and the first read.
ShutdownIsPrompt == Live => since_shutdown <= ShutdownBound

\* The n-th wait after the last message, or since the call, is the first
\* delay doubled n times and never above the maximum; one message of any
\* kind brings the first delay back.
BackoffDoubles ==
  retries < MaxRetries =>
    delay = IF initial_delay_seconds * 2 ^ retries <= maximum_delay_seconds
              THEN initial_delay_seconds * 2 ^ retries ELSE maximum_delay_seconds

\* The thread is in a call that waits for the peer without a timeout: resolve,
\* connect and the handshakes, or ws.close().
Blocked == phase = "connecting" \/ (phase = "closing" /\ ~ force_close)

\* A signal ends the stream, and the process gets the signal handlers back
\* that it had before the call, unless the thread stays for ever in a call
\* without a timeout: no read, write, timer or wait for the next attempt can
\* keep it.
ShutdownEnds ==
  shutdown_requested /\ phase # "outside" ~>
    \/ phase = "outside" /\ handlers = previous
    \/ []Blocked

\* A connection that was lost is replaced: another attempt follows unless a
\* signal ends the stream.
LostConnectionIsReplaced ==
  phase = "running" /\ force_close ~> phase \in {"connecting", "outside"}
=============================================================================
