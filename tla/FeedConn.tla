------------------------------ MODULE FeedConn ------------------------------
(***************************************************************************)
(* The connection loop every feed runs: `connect_forever` over             *)
(* `connect_once` (crates/coinbase_feed/src/conn.rs; the Binance,          *)
(* Polymarket and Chainlink loops have the same shape).  A connection is   *)
(* tried, read until it ends for whatever reason, and tried again after a  *)
(* delay that grows until a text frame is heard.                           *)
(*                                                                         *)
(* Pings, pongs and binary frames restart the idle timer and change        *)
(* nothing else, so they have no action here: a connection may be kept up  *)
(* by them for good, and nothing below makes one end.                      *)
(***************************************************************************)
EXTENDS Naturals

CONSTANTS
  Initial,     \* ReconnectBackoff: initial_ms, multiplier, max_ms
  Multiplier,
  MaxDelay,
  MaxAttempt   \* bound: from this attempt on the delay is MaxDelay

VARIABLES
  phase,    \* "down", "connecting", "reading", "sleeping"
  attempt,  \* the exponent of the next delay
  heard,    \* a text frame has been read on this connection
  delay     \* the last delay slept

connVars == << phase, attempt, heard, delay >>

Power[n \in 0 .. MaxAttempt] == IF n = 0 THEN 1 ELSE Multiplier * Power[n - 1]

ASSUME FeedConnAssumption ==
  /\ Initial \in Nat \ {0} /\ Multiplier \in Nat \ {0}
  /\ MaxDelay \in Nat /\ Initial <= MaxDelay
  /\ MaxAttempt \in Nat /\ Initial * Power[MaxAttempt] >= MaxDelay

BackoffDelay(n) ==
  IF Initial * Power[n] > MaxDelay THEN MaxDelay ELSE Initial * Power[n]

ConnInit ==
  /\ phase = "down"
  /\ attempt = 0
  /\ heard = FALSE
  /\ delay = 0

(* connect_async is called.                                                *)
BeginConnect ==
  /\ phase = "down"
  /\ phase' = "connecting"
  /\ UNCHANGED << attempt, heard, delay >>

(* Mutant: an open socket is enough to start the delays over.              *)
ConnectedResets ==
  /\ phase = "connecting"
  /\ phase' = "reading"
  /\ heard' = FALSE
  /\ attempt' = 0
  /\ UNCHANGED delay

(* The socket is open and the subscribe request has been sent.             *)
Connected ==
  /\ phase = "connecting"
  /\ phase' = "reading"
  /\ heard' = FALSE
  /\ UNCHANGED << attempt, delay >>

(* The first text frame of a connection resets the backoff.                *)
HearText ==
  /\ phase = "reading"
  /\ heard' = TRUE
  /\ attempt' = IF heard THEN attempt ELSE 0
  /\ UNCHANGED << phase, delay >>

(* connect_once has returned: refused, closed, broken or idle too long.    *)
ConnEnds ==
  /\ phase \in {"down", "connecting", "reading"}
  /\ phase' = "sleeping"
  /\ delay' = BackoffDelay(attempt)
  /\ UNCHANGED << attempt, heard >>

Wake ==
  /\ phase = "sleeping"
  /\ phase' = "down"
  /\ attempt' = IF attempt < MaxAttempt THEN attempt + 1 ELSE attempt
  /\ UNCHANGED << heard, delay >>

ConnTypeOK ==
  /\ phase \in {"down", "connecting", "reading", "sleeping"}
  /\ attempt \in 0 .. MaxAttempt
  /\ heard \in BOOLEAN
  /\ delay \in 0 .. MaxDelay

(* A venue that accepts connections and says nothing is asked less and     *)
(* less often: until a text frame is heard no delay is shorter than the    *)
(* one before it.                                                          *)
DelayGrowsUntilHeard == [][~heard => delay <= delay']_connVars
=============================================================================
