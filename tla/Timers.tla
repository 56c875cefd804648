------------------------------- MODULE Timers -------------------------------
(***************************************************************************)
(* What JinTimer promises (base/jintimer.h): a coarse timer that may be    *)
(* polled at leisure.  No wheel and no lists: each timer has a number of   *)
(* ticks left, a poll lets the ticks that passed go by, and the timers     *)
(* that are due are called back in the order of their ids, each once or,   *)
(* when it restarts itself, again and again.                               *)
(***************************************************************************)
EXTENDS Integers

CONSTANTS
  Ids,          \* timer ids, in the order they are handed out
  Intervals,    \* intervals that timers are started with
  Ticks,        \* numbers of ticks an interval or a pause between polls takes
  Cycle,        \* ticks that one turn of the wheel takes
  Granularity   \* length of a tick

VARIABLES
  left,      \* ticks left of each running timer
  every,     \* the interval each live timer was started with
  again,     \* the live timers that restart themselves
  ready,     \* due timers that have not been called back yet
  calling    \* the timer that is called back, or 0

absVars == <<left, every, again, ready, calling>>

Of(f, S) == [i \in S |-> f[i]]

\* An interval is rounded down or up to ticks, never by a whole tick.
Rounded(interval, d) ==
  d * Granularity < interval + Granularity /\ interval < (d + 1) * Granularity

AbsInit ==
  /\ left = Of(left, {}) /\ every = Of(every, {})
  /\ again = {} /\ ready = {} /\ calling = 0

\* Timers are started and cancelled by the main loop and by callbacks, but
\* not between two callbacks.
Free == calling # 0 \/ ready = {}

AbsStart(i, interval, d, r) ==
  /\ Free /\ i \notin DOMAIN every /\ Rounded(interval, d)
  /\ every' = [j \in DOMAIN every \cup {i} |-> IF j = i THEN interval ELSE every[j]]
  /\ left' = [j \in DOMAIN left \cup {i} |-> IF j = i THEN d ELSE left[j]]
  /\ again' = IF r THEN again \cup {i} ELSE again
  /\ UNCHANGED <<ready, calling>>

\* A timer that is cancelled is never called back again, due or not.
AbsCancel(i) ==
  /\ Free /\ i \in DOMAIN left \cup ready
  /\ left' = Of(left, DOMAIN left \ {i})
  /\ every' = Of(every, DOMAIN every \ {i})
  /\ again' = again \ {i}
  /\ ready' = ready \ {i}
  /\ UNCHANGED calling

\* k ticks pass.  Everything due before now is called back and nothing that
\* is due later; what is due exactly now may be left to the next poll, but
\* only if more than a turn of the wheel went by since the last one.
AbsPoll(k) ==
  /\ calling = 0 /\ ready = {} /\ UNCHANGED <<every, again, calling>>
  /\ \A i \in DOMAIN left : left[i] < k => i \in ready'
  /\ \A i \in ready' : i \in DOMAIN left /\ left[i] <= k
  /\ k < Cycle => \A i \in DOMAIN left : left[i] = k => i \in ready'
  /\ left' = [i \in DOMAIN left \ ready' |-> left[i] - k]

\* The due timer with the least id is called back; if it restarts itself it
\* runs again before its callback is entered, so that it can cancel itself.
AbsFire(i, d) ==
  /\ calling = 0 /\ i \in ready /\ \A j \in ready : i <= j
  /\ ready' = ready \ {i}
  /\ calling' = i
  /\ IF i \in again
     THEN /\ Rounded(every[i], d)
          /\ left' = [j \in DOMAIN left \cup {i} |-> IF j = i THEN d ELSE left[j]]
     ELSE left' = left
  /\ UNCHANGED <<every, again>>

AbsReturn ==
  /\ calling # 0 /\ calling' = 0
  /\ every' = Of(every, DOMAIN left \cup ready)
  /\ UNCHANGED <<left, again, ready>>

AbsNext ==
  \/ \E i \in Ids, interval \in Intervals, r \in BOOLEAN :
       i \in DOMAIN every' /\ every'[i] = interval /\ \E d \in Ticks : AbsStart(i, interval, d, r)
  \/ \E i \in Ids : AbsCancel(i)
  \/ \E k \in Ticks : AbsPoll(k)
  \/ \E i \in Ids, d \in Ticks : AbsFire(i, d)
  \/ AbsReturn

AbsSpec == AbsInit /\ [][AbsNext]_absVars
=============================================================================
