---------------------------- MODULE HeartbeatState ----------------------------
(***************************************************************************)
(* HeartbeatState (include/heartbeat_state.hpp) and ReconnectBackoff       *)
(* (include/reconnect_backoff.hpp) as values.  The classes compare time    *)
(* points with the clock; here every time point is kept as its distance    *)
(* from now, in seconds, and a second that passes moves it.                *)
(***************************************************************************)
EXTENDS Naturals

CONSTANTS
  heartbeat_interval,      \* seconds between two pings
  pong_timeout,            \* seconds that a ping may stay unanswered
  initial_delay_seconds,   \* first wait before a reconnection
  maximum_delay_seconds    \* longest wait

ASSUME HeartbeatAssumption ==
  /\ heartbeat_interval \in Nat \ {0}
  /\ pong_timeout \in Nat \ {0}

ASSUME BackoffAssumption ==
  /\ initial_delay_seconds \in Nat \ {0}
  /\ maximum_delay_seconds \in Nat
  /\ initial_delay_seconds <= maximum_delay_seconds

-----------------------------------------------------------------------------
(* HeartbeatState                                                          *)

\* next_ping_at_ - now, not below 0, and now - ping_sent_at_, not above the
\* timeout and 0 while no pong is awaited.
Heartbeat ==
  [next_ping_in : 0 .. heartbeat_interval, awaiting_pong : BOOLEAN,
   ping_age : 0 .. pong_timeout]

NewHeartbeat ==
  [next_ping_in |-> heartbeat_interval, awaiting_pong |-> FALSE, ping_age |-> 0]

should_send_ping(h) == h.next_ping_in = 0

\* Mutant: every ping starts the wait for a pong anew.
on_ping_sent_restarts(h) ==
  [next_ping_in |-> heartbeat_interval, awaiting_pong |-> TRUE, ping_age |-> 0]

\* Only the first ping after a pong is the one whose answer is awaited.
on_ping_sent(h) ==
  [next_ping_in  |-> heartbeat_interval,
   awaiting_pong |-> TRUE,
   ping_age      |-> IF h.awaiting_pong THEN h.ping_age ELSE 0]

\* Mutant: the pong changes nothing.
on_pong_received_ignored(h) == h

on_pong_received(h) ==
  [next_ping_in |-> h.next_ping_in, awaiting_pong |-> FALSE, ping_age |-> 0]

pong_timed_out(h) == h.awaiting_pong /\ h.ping_age >= pong_timeout

\* Clock::now() is a second later.
second_later(h) ==
  [next_ping_in  |-> IF h.next_ping_in > 0 THEN h.next_ping_in - 1 ELSE 0,
   awaiting_pong |-> h.awaiting_pong,
   ping_age      |-> IF h.awaiting_pong /\ h.ping_age < pong_timeout
                       THEN h.ping_age + 1 ELSE h.ping_age]

-----------------------------------------------------------------------------
(* ReconnectBackoff                                                        *)

advance(delay) ==
  IF 2 * delay <= maximum_delay_seconds THEN 2 * delay ELSE maximum_delay_seconds
=============================================================================
