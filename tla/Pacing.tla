------------------------------- MODULE Pacing -------------------------------
(***************************************************************************)
(* blocking.Limiter: a token bucket that lets a burst of requests through  *)
(* and one more per interval.  A caller that finds no token takes one from *)
(* the future: it moves the clock of the bucket to the end of its wait, so *)
(* the next caller may find that time has gone backwards.                  *)
(*                                                                         *)
(* Time is counted in ticks, and tokens are counted in the ticks that they *)
(* take to grow back: a token is worth Interval.                           *)
(***************************************************************************)
EXTENDS Integers, Sequences

CONSTANTS
  Callers,
  Interval,  \* ticks for one token
  Burst,     \* tokens in a full bucket
  MaxGrants, \* bound on the calls of Wait
  MaxTime    \* bound on the clock

ASSUME PacingAssumption == Interval \in Nat \ {0} /\ Burst \in Nat \ {0}

VARIABLES
  now,      \* the time
  tokens,   \* Limiter.tokens
  last,     \* Limiter.last
  granted,  \* when each call of Wait is or was let through, in call order
  due       \* the end of each caller's wait

pacingVars == <<now, tokens, last, granted, due>>

NotWaiting == -1

PacingInit ==
  /\ now = 0
  /\ tokens = Burst * Interval
  /\ last = 0
  /\ granted = <<>>
  /\ due = [c \in Callers |-> NotWaiting]

\* The tokens that have grown since last, fewer if last is in the future.
Refilled ==
  LET grown == tokens + (now - last)
  IN  IF grown > Burst * Interval THEN Burst * Interval ELSE grown

\* Variant of Take that leaves the bucket's clock at the start of the wait.
TakeNow ==
  IF Refilled >= Interval
  THEN tokens' = Refilled - Interval /\ last' = now /\ granted' = Append(granted, now)
  ELSE tokens' = 0 /\ last' = now /\ granted' = Append(granted, now + (Interval - Refilled))

\* The locked part of Wait: a token, or the time until there is one.
Take ==
  /\ IF Refilled >= Interval
     THEN tokens' = Refilled - Interval /\ last' = now
     ELSE tokens' = 0 /\ last' = now + (Interval - Refilled)
  /\ granted' = Append(granted, last')

Wait(c) ==
  /\ due[c] = NotWaiting
  /\ Len(granted) < MaxGrants
  /\ Take
  /\ due' = [due EXCEPT ![c] = granted'[Len(granted')]]
  /\ UNCHANGED now

\* Wait returns, at once if there was a token.
LetThrough(c) ==
  /\ due[c] # NotWaiting
  /\ now >= due[c]
  /\ due' = [due EXCEPT ![c] = NotWaiting]
  /\ UNCHANGED <<now, tokens, last, granted>>

\* The context ends during the wait. The token is not given back.
GivesUp(c) ==
  /\ due[c] # NotWaiting
  /\ due' = [due EXCEPT ![c] = NotWaiting]
  /\ UNCHANGED <<now, tokens, last, granted>>

Tick ==
  /\ now < MaxTime
  /\ now' = now + 1
  /\ UNCHANGED <<tokens, last, granted, due>>

PacingNext ==
  \/ \E c \in Callers : Wait(c) \/ LetThrough(c) \/ GivesUp(c)
  \/ Tick

PacingSpec == PacingInit /\ [][PacingNext]_pacingVars

-----------------------------------------------------------------------------
(***************************************************************************)
(* Properties.                                                             *)
(***************************************************************************)

\* Type correctness of every variable.
PacingTypeOK ==
  /\ now \in Nat
  /\ tokens \in 0..(Burst * Interval)
  /\ last \in Nat
  /\ granted \in Seq(Nat)
  /\ due \in [Callers -> Nat \union {NotWaiting}]

\* However many callers wait at once, the calls let through in any stretch of
\* time are at most the burst and one for each interval in it.
Paced ==
  \A i, j \in DOMAIN granted :
    i <= j => (j - i + 1) * Interval <= Burst * Interval + (granted[j] - granted[i])

=============================================================================
