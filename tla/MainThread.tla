----------------------------- MODULE MainThread -----------------------------
(***************************************************************************)
(* JinMainThread and the JinAssistThreads that wake it                     *)
(* (module/jinassistthread.cpp).  An assist thread leaves its object in    *)
(* awakeMap_ and sets the event; the main thread, when its sleep ends,     *)
(* takes the objects out one by one and calls each back, outside the       *)
(* mutex.  Between sleeps and inside a callback the main thread runs       *)
(* program code, which may destroy assists.                                *)
(*                                                                         *)
(* The order of the hash map is any order.  The users that are passed      *)
(* along are left out: the last one overwrites the others.                 *)
(***************************************************************************)
EXTENDS SignaledEvent, FiniteSets, Integers

CONSTANTS
  Assists,   \* the JinAssistThread objects
  NULL

ASSUME MainAssumption == NULL \notin Assists /\ IsFiniteSet(Assists)

VARIABLES
  event,     \* event_
  awakeMap,  \* the keys of awakeMap_
  mpc,       \* where the main thread is
  assist,    \* doSleep's assist, NULL outside doSleep
  mapSize,   \* doSleep's mapSize: what was left when the mutex was released
  taken,     \* history: the callback that runs was asked for
  alive,     \* assists that have not been destroyed
  apc        \* where each assist thread is in doAwake

mainVars == <<event, awakeMap, mpc, assist, mapSize, taken, alive, apc>>

MainTypeOK ==
  /\ event \in EventType
  /\ awakeMap \subseteq Assists /\ alive \subseteq Assists
  /\ mpc \in {"run", "wait", "take", "call"}
  /\ assist \in Assists \cup {NULL} /\ mapSize \in Nat /\ taken \in BOOLEAN
  /\ apc \in [Assists -> {"idle", "set", "signal"}]

MainInit ==
  /\ event = NewEvent /\ awakeMap = {}
  /\ mpc = "run" /\ assist = NULL /\ mapSize = 0 /\ taken = FALSE
  /\ alive = Assists /\ apc = [a \in Assists |-> "idle"]

\* doSleep: poll the timer (program code), then wait.
Sleep ==
  /\ mpc = "run"
  /\ event' = Enter(event)
  /\ mpc' = IF Passes(event) THEN "take" ELSE "wait"
  /\ UNCHANGED <<awakeMap, assist, mapSize, taken, alive, apc>>

LeaveWait ==
  /\ mpc = "wait"
  /\ event' = Leave(event)
  /\ mpc' = "take"
  /\ UNCHANGED <<awakeMap, assist, mapSize, taken, alive, apc>>

\* The condition was signalled; or the time is over, or nothing happened.
\* What wait returns is not looked at.
Wake == event.waiter = "woken" /\ LeaveWait

WakeEarly == event.waiter = "blocked" /\ LeaveWait

\* WakeProcedure: take one entry under the mutex and call it back.  With
\* the map empty, assist is NULL the first time, but later it is still the
\* one that was called before.
TakeOne(a) ==
  /\ a \in awakeMap
  /\ awakeMap' = awakeMap \ {a}
  /\ assist' = a
  /\ mapSize' = Cardinality(awakeMap') /\ taken' = TRUE
  /\ mpc' = "call"

TakeNone ==
  /\ awakeMap = {} /\ mapSize' = 0 /\ taken' = FALSE
  /\ mpc' = IF assist = NULL THEN "run" ELSE "call"
  /\ UNCHANGED <<awakeMap, assist>>

Take ==
  /\ mpc = "take"
  /\ TakeNone \/ \E a \in Assists : TakeOne(a)
  /\ UNCHANGED <<event, alive, apc>>

\* The callback returns, and the loop goes by the old size of the map.
CallDone ==
  /\ mpc = "call"
  /\ IF mapSize > 0 THEN mpc' = "take" /\ UNCHANGED assist
                    ELSE mpc' = "run" /\ assist' = NULL
  /\ taken' = FALSE
  /\ UNCHANGED <<event, awakeMap, mapSize, alive, apc>>

\* ~JinAssistThread, by the main thread, when the assist's own thread has
\* been joined: doRemove.
Destroy(a) ==
  /\ mpc \in {"run", "call"}
  /\ a \in alive /\ apc[a] = "idle"
  /\ alive' = alive \ {a}
  /\ awakeMap' = awakeMap \ {a}
  /\ UNCHANGED <<event, mpc, assist, mapSize, taken, apc>>

\* doAwake: the entry under the mutex, then the two halves of event_.set.
Goes(a, from, to) == apc[a] = from /\ apc' = [apc EXCEPT ![a] = to]

DoAwake(a) ==
  /\ a \in alive /\ Goes(a, "idle", "set")
  /\ awakeMap' = awakeMap \cup {a}
  /\ UNCHANGED <<event, mpc, assist, mapSize, taken, alive>>

DoAwakeSet(a) ==
  /\ Goes(a, "set", "signal")
  /\ event' = Set(event)
  /\ UNCHANGED <<awakeMap, mpc, assist, mapSize, taken, alive>>

DoAwakeSignal(a) ==
  /\ Goes(a, "signal", "idle")
  /\ event' = CondSignal(event)
  /\ UNCHANGED <<awakeMap, mpc, assist, mapSize, taken, alive>>

Awaking(a) == DoAwake(a) \/ DoAwakeSet(a) \/ DoAwakeSignal(a)

MainNext ==
  \/ Sleep \/ Wake \/ WakeEarly \/ Take \/ CallDone
  \/ \E a \in Assists : Destroy(a) \/ Awaking(a)

MainSpec == MainInit /\ [][MainNext]_mainVars

-----------------------------------------------------------------------------
\* The main thread never sleeps on a call that was asked for: as long as it
\* is blocked and the map is not empty, somebody is still on the way to
\* signal it, whatever was signalled, cleared or timed out before.
MainWakes ==
  mpc = "wait" /\ event.waiter = "blocked" /\ awakeMap # {} =>
    \E a \in Assists : apc[a] # "idle"

\* The event and the main thread's place agree, and a flag that is up is
\* seen by the next wait.
EventFits ==
  /\ mpc = "wait" <=> event.waiter # "none"
  /\ mpc = "wait" /\ event.waiter = "blocked" /\ event.isSignaled =>
       \E a \in Assists : apc[a] = "signal"
  /\ mpc = "run" /\ awakeMap # {} =>
       event.isSignaled \/ \E a \in Assists : apc[a] = "set"

\* However often an assist asked, it is called once for it ("several awakes
\* are allowed, it is triggered only once", module/jinassistthread.h).
CalledOnce == mpc = "call" => taken
=============================================================================
