---------------------------- MODULE SmtpLimiter -----------------------------
(***************************************************************************)
(* The token bucket in Redis that limits the mail of the workspace, shared  *)
(* by every worker and the API.  One script reads the clock of Redis,       *)
(* refills the bucket, and takes a token or says how long to wait.  Each    *)
(* caller brings the rate it has read from the settings, so that two rates  *)
(* may be in use while the settings change.                                 *)
(*                                                                          *)
(* Time is in ticks, of which a minute has Minute (the script: 60000 ms).   *)
(* A token is counted as Minute parts: the bucket gains the rate in parts   *)
(* every tick, exactly.                                                     *)
(***************************************************************************)
EXTENDS Integers

CONSTANTS
  Minute,      \* ticks of a minute
  Rates,       \* rates the settings may have, tokens per minute
  MaxRate,     \* the greatest of them
  MaxClock     \* bound: the last tick

ASSUME LimiterAssumption ==
  /\ Minute \in Nat \ {0} /\ MaxClock \in Nat
  /\ MaxRate \in Nat /\ Rates \subseteq 1..MaxRate

VARIABLES
  clock,    \* the clock of Redis
  parts,    \* the tokens of the bucket, in parts
  updated,  \* when the bucket was last written; Never if it does not exist
  granted   \* for every tick, the tokens taken since: a history

limiterVars == <<clock, parts, updated, granted>>

Never == -1

LimiterTypeOK ==
  /\ clock \in 0..MaxClock /\ parts \in 0..(MaxRate * Minute)
  /\ updated \in Never..MaxClock /\ granted \in [0..MaxClock -> Nat]

LimiterInit ==
  /\ clock = 0 /\ parts = 0 /\ updated = Never
  /\ granted = [t \in 0..MaxClock |-> 0]

Least(a, b) == IF a <= b THEN a ELSE b

(* Mutant: the time since the last write is credited without a limit. *)
RefilledBeyond(rate) == IF updated = Never THEN rate * Minute
                        ELSE parts + (clock - updated) * rate

(* What the bucket holds now, for a caller of that rate: it is full when it *)
(* is new, and never holds more than a minute's tokens.                     *)
Refilled(rate) == IF updated = Never THEN rate * Minute
                  ELSE Least(rate * Minute, parts + (clock - updated) * rate)

(* The script.  Its answer may be lost, and then nobody sends.              *)
Acquire(rate) ==
  LET now == Refilled(rate)
  IN /\ updated' = clock
     /\ \/ /\ now >= Minute /\ parts' = now - Minute
           /\ \/ granted' = [t \in 0..MaxClock |-> IF t <= clock THEN granted[t] + 1
                                                   ELSE granted[t]]
              \/ UNCHANGED granted
        \/ now < Minute /\ parts' = now /\ UNCHANGED granted
     /\ UNCHANGED clock

(* Time passes; a bucket nobody has written for two minutes expires.        *)
Tick ==
  /\ clock < MaxClock /\ clock' = clock + 1
  /\ updated' = IF updated # Never /\ clock + 1 - updated >= 2 * Minute
                  THEN Never ELSE updated
  /\ UNCHANGED <<parts, granted>>

LimiterNext == Tick \/ \E rate \in Rates : Acquire(rate)

LimiterSpec == LimiterInit /\ [][LimiterNext]_limiterVars

-----------------------------------------------------------------------------
(* In no interval is more mail sent than the bucket holds and gains in it,  *)
(* at the greatest rate in use: whatever the callers, lost answers, changes *)
(* of the rate and expiry of the bucket.                                    *)
WithinRate ==
  \A t \in 0..clock : granted[t] * Minute <= MaxRate * (Minute + clock - t)

=============================================================================
