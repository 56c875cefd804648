--------------------------- MODULE ResolverProofs ---------------------------
(***************************************************************************)
(* Proofs about module MainThread, for any number of assist threads, and   *)
(* about module Resolver, for any queries, names and assists: the resolver *)
(* implements MainThread and keeps its whole invariant.                    *)
(***************************************************************************)
EXTENDS Resolver, FiniteSetTheorems, WellFoundedInduction, TLAPS

-----------------------------------------------------------------------------
(* The main thread.                                                        *)

\* When the callbacks are over, the flag tells the next wait of the entries
\* that have come since the map was last seen empty.
CallFits ==
  mpc = "call" /\ mapSize = 0 /\ awakeMap # {} =>
    event.isSignaled \/ \E a \in Assists : apc[a] = "set"

MainInv == MainTypeOK /\ EventFits /\ CallFits /\ MainWakes

LEMMA MainInitInv == MainInit => MainInv
<1> SUFFICES ASSUME MainInit PROVE MainInv
  OBVIOUS
<1>1. event.waiter = "none" /\ event \in EventType /\ mpc = "run" /\ awakeMap = {}
  BY DEF MainInit, NewEvent, EventType, Waiters
<1>2. MainTypeOK
  BY <1>1 DEF MainInit, MainTypeOK
<1> QED BY <1>1, <1>2 DEF MainInv, EventFits, CallFits, MainWakes

LEMMA EventKept ==
  ASSUME NEW ev \in EventType
  PROVE  /\ Enter(ev) \in EventType /\ Leave(ev) \in EventType
         /\ Set(ev) \in EventType /\ CondSignal(ev) \in EventType
         /\ Leave(ev).waiter = "none" /\ ~Leave(ev).isSignaled
         /\ Set(ev).isSignaled /\ Set(ev).waiter = ev.waiter
         /\ CondSignal(ev).isSignaled = ev.isSignaled
         /\ CondSignal(ev).waiter # "blocked"
         /\ CondSignal(ev).waiter = "none" <=> ev.waiter = "none"
         /\ ev.isSignaled => Enter(ev) = [ev EXCEPT !.isSignaled = FALSE]
         /\ ~ev.isSignaled => Enter(ev).waiter = "blocked" /\ ~Enter(ev).isSignaled
BY DEF EventType, Waiters, Enter, Leave, Set, CondSignal, Passes

LEMMA SleepInv == MainInv /\ Sleep => MainInv'
<1> SUFFICES ASSUME MainInv, Sleep PROVE MainInv'
  OBVIOUS
<1>1. event \in EventType /\ event.waiter = "none"
  BY DEF MainInv, MainTypeOK, EventFits, Sleep
<1>2. MainTypeOK'
  BY <1>1, EventKept DEF Sleep, MainInv, MainTypeOK
<1>3. CASE event.isSignaled
  BY <1>1, <1>2, <1>3, EventKept DEF Sleep, Passes, MainInv, EventFits, CallFits, MainWakes, EventType
<1>4. CASE ~event.isSignaled
  BY <1>1, <1>2, <1>4, EventKept DEF Sleep, Passes, MainInv, EventFits, CallFits, MainWakes
<1> QED BY <1>3, <1>4

LEMMA LeaveInv == MainInv /\ LeaveWait => MainInv'
<1> SUFFICES ASSUME MainInv, LeaveWait PROVE MainInv'
  OBVIOUS
<1>1. MainTypeOK'
  BY EventKept DEF LeaveWait, MainInv, MainTypeOK
<1>2. EventFits' /\ CallFits' /\ MainWakes'
  BY EventKept DEF LeaveWait, MainInv, MainTypeOK, EventFits, CallFits, MainWakes
<1> QED BY <1>1, <1>2 DEF MainInv

LEMMA TakeInv == MainInv /\ Take => MainInv'
<1> SUFFICES ASSUME MainInv, Take PROVE MainInv'
  OBVIOUS
<1>1. mpc = "take" /\ UNCHANGED <<event, alive, apc>>
  BY DEF Take
<1>2. CASE TakeNone
  <2>1. MainTypeOK'
    BY <1>1, <1>2 DEF TakeNone, MainInv, MainTypeOK
  <2>2. EventFits' /\ CallFits' /\ MainWakes'
    BY <1>1, <1>2 DEF TakeNone, MainInv, EventFits, CallFits, MainWakes
  <2> QED BY <2>1, <2>2 DEF MainInv
<1>3. ASSUME NEW a \in Assists, TakeOne(a) PROVE MainInv'
  <2>1. mpc' = "call" /\ mapSize' = Cardinality(awakeMap')
    BY <1>3 DEF TakeOne
  <2>2. mapSize' \in Nat /\ (mapSize' = 0 => awakeMap' = {})
    <3>1. IsFiniteSet(awakeMap')
      BY <1>3, MainAssumption, FS_Subset DEF TakeOne, MainInv, MainTypeOK
    <3> QED BY <2>1, <3>1, FS_CardinalityType, FS_EmptySet
  <2>3. MainTypeOK'
    BY <1>1, <1>3, <2>2 DEF TakeOne, MainInv, MainTypeOK
  <2>4. EventFits' /\ CallFits' /\ MainWakes'
    BY <1>1, <2>1, <2>2 DEF MainInv, EventFits, CallFits, MainWakes
  <2> QED BY <2>3, <2>4 DEF MainInv
<1> QED BY <1>2, <1>3 DEF Take

LEMMA CallDoneInv == MainInv /\ CallDone => MainInv'
<1> SUFFICES ASSUME MainInv, CallDone PROVE MainInv'
  OBVIOUS
<1>1. MainTypeOK'
  BY DEF CallDone, MainInv, MainTypeOK
<1>2. EventFits' /\ CallFits' /\ MainWakes'
  BY DEF CallDone, MainInv, MainTypeOK, EventFits, CallFits, MainWakes
<1> QED BY <1>1, <1>2 DEF MainInv

LEMMA DestroyInv == ASSUME MainInv, NEW a \in Assists, Destroy(a) PROVE MainInv'
<1>1. MainTypeOK'
  BY DEF Destroy, MainInv, MainTypeOK
<1>2. EventFits' /\ CallFits' /\ MainWakes'
  BY DEF Destroy, MainInv, EventFits, CallFits, MainWakes
<1> QED BY <1>1, <1>2 DEF MainInv

LEMMA AwakingInv == ASSUME MainInv, NEW a \in Assists, Awaking(a) PROVE MainInv'
<1>1. apc \in [Assists -> {"idle", "set", "signal"}] /\ event \in EventType
  BY DEF MainInv, MainTypeOK
<1>2. CASE DoAwake(a)
  <2>1. apc' = [apc EXCEPT ![a] = "set"] /\ apc[a] = "idle"
    BY <1>2 DEF DoAwake, Goes
  <2>2. apc'[a] = "set" /\ (\A b \in Assists : apc[b] = "signal" => apc'[b] = "signal")
    BY <1>1, <2>1
  <2>3. MainTypeOK'
    BY <1>1, <1>2, <2>1 DEF DoAwake, MainInv, MainTypeOK
  <2>4. EventFits' /\ CallFits' /\ MainWakes'
    BY <1>2, <2>2 DEF DoAwake, MainInv, EventFits, CallFits, MainWakes
  <2> QED BY <2>3, <2>4 DEF MainInv
<1>3. CASE DoAwakeSet(a)
  <2>1. apc' = [apc EXCEPT ![a] = "signal"] /\ event' = Set(event)
    BY <1>3 DEF DoAwakeSet, Goes
  <2>2. apc'[a] = "signal"
    BY <1>1, <2>1
  <2>3. event' \in EventType /\ event'.isSignaled /\ event'.waiter = event.waiter
    BY <1>1, <2>1, EventKept
  <2>4. MainTypeOK'
    BY <1>1, <1>3, <2>1, <2>3 DEF DoAwakeSet, MainInv, MainTypeOK
  <2>5. EventFits' /\ CallFits' /\ MainWakes'
    BY <1>3, <2>2, <2>3 DEF DoAwakeSet, MainInv, EventFits, CallFits, MainWakes
  <2> QED BY <2>4, <2>5 DEF MainInv
<1>4. CASE DoAwakeSignal(a)
  <2>1. apc' = [apc EXCEPT ![a] = "idle"] /\ apc[a] = "signal" /\ event' = CondSignal(event)
    BY <1>4 DEF DoAwakeSignal, Goes
  <2>2. \A b \in Assists : apc[b] = "set" => apc'[b] = "set"
    BY <1>1, <2>1
  <2>3. /\ event' \in EventType /\ event'.isSignaled = event.isSignaled
        /\ event'.waiter # "blocked" /\ (event'.waiter = "none" <=> event.waiter = "none")
    BY <1>1, <2>1, EventKept
  <2>4. MainTypeOK'
    BY <1>1, <1>4, <2>1, <2>3 DEF DoAwakeSignal, MainInv, MainTypeOK
  <2>5. EventFits' /\ CallFits' /\ MainWakes'
    BY <1>4, <2>2, <2>3 DEF DoAwakeSignal, MainInv, EventFits, CallFits, MainWakes
  <2> QED BY <2>4, <2>5 DEF MainInv
<1> QED BY <1>2, <1>3, <1>4 DEF Awaking

LEMMA MainStepInv == MainInv /\ [MainNext]_mainVars => MainInv'
<1> SUFFICES ASSUME MainInv, [MainNext]_mainVars PROVE MainInv'
  OBVIOUS
<1>1. CASE Sleep
  BY <1>1, SleepInv
<1>2. CASE Wake \/ WakeEarly
  BY <1>2, LeaveInv DEF Wake, WakeEarly
<1>3. CASE Take
  BY <1>3, TakeInv
<1>4. CASE CallDone
  BY <1>4, CallDoneInv
<1>5. ASSUME NEW a \in Assists, Destroy(a) \/ Awaking(a) PROVE MainInv'
  BY <1>5, DestroyInv, AwakingInv
<1>6. CASE UNCHANGED mainVars
  BY <1>6 DEF mainVars, MainInv, MainTypeOK, EventFits, CallFits, MainWakes
<1> QED BY <1>1, <1>2, <1>3, <1>4, <1>5, <1>6 DEF MainNext

\* Whatever number of threads awake the main thread, whenever waits time
\* out or return for nothing, and whichever assists its callbacks destroy:
\* it is never blocked on an entry of awakeMap_ without a signal on its way.
THEOREM MainThreadWakes == MainSpec => []MainWakes
<1>1. MainInit => MainInv
  BY MainInitInv
<1>2. MainInv /\ [MainNext]_mainVars => MainInv'
  BY MainStepInv
<1>3. MainInv => MainWakes
  BY DEF MainInv
<1> QED BY <1>1, <1>2, <1>3, PTL DEF MainSpec

\* Types, and that the event and the main thread's place agree.
THEOREM MainThreadFits == MainSpec => [](MainTypeOK /\ EventFits)
<1>1. MainInit => MainInv
  BY MainInitInv
<1>2. MainInv /\ [MainNext]_mainVars => MainInv'
  BY MainStepInv
<1>3. MainInv => MainTypeOK /\ EventFits
  BY DEF MainInv
<1> QED BY <1>1, <1>2, <1>3, PTL DEF MainSpec

-----------------------------------------------------------------------------
(* The resolver as one of the assists.                                     *)

\* Every step of the resolver is, for the main thread, one that any assist
\* may cause, or none.
LEMMA StepMaps == [Next]_vars => [MainNext]_mainVars
<1> SUFFICES ASSUME [Next]_vars PROVE [MainNext]_mainVars
  OBVIOUS
<1>1. CASE MainStep
  BY <1>1 DEF MainStep, MainNext, Others
<1>2. CASE OnAwakeCallReturns
  BY <1>2 DEF OnAwakeCallReturns, MainNext
<1>3. CASE Destroyed
  BY <1>3, ResolverAssumption DEF Destroyed, MainNext
<1>4. CASE ParserAwakes
  BY <1>4, ResolverAssumption DEF ParserAwakes, MainNext, Awaking
<1>5. CASE OtherAwakes
  BY <1>5 DEF OtherAwakes, MainNext, Others
<1>6. CASE \/ MainInitDone \/ ParseSet \/ ParseSignal \/ Collect \/ CallNext \/ CallbackReturns
           \/ MainUninitDown \/ UninitSet \/ UninitSignal
  BY <1>6 DEF MainInitDone, ParseSet, ParseSignal, Collect, CallNext, CallbackReturns,
       MainUninitDown, UninitSet, UninitSignal, SignalSet, SignalCond
<1>7. CASE UNext
  BY <1>7 DEF UNext, MainInitStart, Cancel, Parse, MainUninit
<1>8. CASE \/ EnterWait \/ WaitReturns \/ WaitSpurious \/ Pick
           \/ (\E ok \in BOOLEAN : Resolve(ok)) \/ \E from \in {"test", "again"} : Loops(from)
  BY <1>8 DEF EnterWait, WaitReturns, WaitSpurious, LeavesWait, Pick, Resolve, Loops
<1>9. CASE UNCHANGED vars
  BY <1>9 DEF vars
<1> QED BY <1>1, <1>2, <1>3, <1>4, <1>5, <1>6, <1>7, <1>8, <1>9 DEF Next, MNext, RNext

\* The main thread inside the resolver behaves as module MainThread says:
\* the resolver is one assist among others.
THEOREM ResolverIsAnAssist == Spec => ImplementsMainThread
<1>1. Init => MainInit
  BY DEF Init
<1> QED BY <1>1, StepMaps, PTL DEF Spec, MainSpec, ImplementsMainThread

\* So with the resolver at work the main thread does not sleep on a call.
THEOREM ResolverWakesMain == Spec => []MainWakes
BY ResolverIsAnAssist, MainThreadWakes, PTL DEF ImplementsMainThread

-----------------------------------------------------------------------------
(* What Keep keeps.                                                        *)

\* A non-empty set of numbers has a least one.
LEMMA Least ==
  ASSUME NEW T \in SUBSET Nat, T # {}
  PROVE  \E x \in T : \A y \in T : x <= y
<1> DEFINE R == {ss \in Nat \X Nat : ss[1] < ss[2]}
<1>1. IsWellFoundedOn(R, Nat)
  BY NatLessThanWellFounded DEF OpToRel
<1>2. PICK x \in T : \A y \in T : <<y, x>> \notin R
  <2> HIDE DEF R
  <2> QED BY <1>1, WFMin
<1>3. ASSUME NEW y \in T PROVE x <= y
  <2>1. <<y, x>> \in Nat \X Nat /\ <<y, x>> \notin R
    BY <1>2
  <2>2. <<y, x>>[1] = y /\ <<y, x>>[2] = x
    OBVIOUS
  <2>3. ~(y < x)
    BY <2>1, <2>2
  <2> QED BY <2>3
<1> QED BY <1>3

\* g is the walk of Keep over the first n elements.
Walk(list, S, g, n) ==
  g = [k \in 0 .. n |->
        IF k = 0 THEN <<>>
        ELSE IF list[k] \in S THEN Append(g[k - 1], list[k]) ELSE g[k - 1]]

LEMMA WalkGoesOn ==
  ASSUME NEW list, NEW S, NEW n \in Nat, NEW g, Walk(list, S, g, n)
  PROVE  \E h : Walk(list, S, h, n + 1)
<1> DEFINE next == IF list[n + 1] \in S THEN Append(g[n], list[n + 1]) ELSE g[n]
           h == [k \in 0 .. n + 1 |-> IF k = n + 1 THEN next ELSE g[k]]
<1>1. \A k \in 0 .. n : h[k] = g[k]
  OBVIOUS
<1>2. ASSUME NEW k \in 0 .. n + 1
      PROVE  h[k] = IF k = 0 THEN <<>>
                    ELSE IF list[k] \in S THEN Append(h[k - 1], list[k]) ELSE h[k - 1]
  <2>1. CASE k = n + 1
    <3>1. n \in 0 .. n /\ k - 1 = n /\ k # 0
      BY <2>1
    <3>2. h[k - 1] = g[n]
      BY <1>1, <3>1
    <3>3. h[k] = next
      BY <2>1
    <3> HIDE DEF h
    <3> QED BY <2>1, <3>1, <3>2, <3>3
  <2>2. CASE k # n + 1
    <3>1. k \in 0 .. n /\ (k # 0 => k - 1 \in 0 .. n)
      BY <2>2
    <3>2. h[k] = g[k] /\ (k # 0 => h[k - 1] = g[k - 1])
      BY <1>1, <3>1
    <3>3. g[k] = IF k = 0 THEN <<>>
                 ELSE IF list[k] \in S THEN Append(g[k - 1], list[k]) ELSE g[k - 1]
      BY <3>1 DEF Walk
    <3> HIDE DEF h
    <3> QED BY <3>2, <3>3
  <2> QED BY <2>1, <2>2
<1>3. h = [k \in 0 .. n + 1 |-> h[k]]
  OBVIOUS
<1> HIDE DEF h
<1>4. Walk(list, S, h, n + 1)
  BY <1>2, <1>3 DEF Walk
<1> QED BY <1>4

\* So the walk of the definition exists, and Keep is where it ends.
LEMMA KeepWalks ==
  ASSUME NEW C, NEW list \in Seq(C), NEW S
  PROVE  \E g : Walk(list, S, g, Len(list)) /\ Keep(list, S) = g[Len(list)]
<1> DEFINE T == {n \in Nat : ~ \E g : Walk(list, S, g, n)}
<1>1. T = {}
  <2> SUFFICES ASSUME T # {} PROVE FALSE
    OBVIOUS
  <2>1. PICK n \in T : \A m \in T : n <= m
    <3>1. T \in SUBSET Nat
      OBVIOUS
    <3> HIDE DEF T
    <3> QED BY <3>1, Least
  <2>2. n # 0
    <3>1. Walk(list, S, [k \in 0 .. 0 |-> <<>>], 0)
      BY DEF Walk
    <3> QED BY <3>1, <2>1
  <2>3. n - 1 \in Nat /\ n - 1 \notin T
    BY <2>1, <2>2
  <2>4. PICK g : Walk(list, S, g, n - 1)
    BY <2>3
  <2>5. \E h : Walk(list, S, h, (n - 1) + 1)
    BY <2>3, <2>4, WalkGoesOn
  <2>6. (n - 1) + 1 = n
    BY <2>1
  <2> QED BY <2>1, <2>5, <2>6
<1>2. Len(list) \in Nat
  OBVIOUS
<1>3. \E g : Walk(list, S, g, Len(list))
  BY <1>1, <1>2
<1>4. \E g : g = [k \in 0 .. Len(list) |->
                   IF k = 0 THEN <<>>
                   ELSE IF list[k] \in S THEN Append(g[k - 1], list[k]) ELSE g[k - 1]]
  BY <1>3 DEF Walk
<1> DEFINE f == CHOOSE g : g = [k \in 0 .. Len(list) |->
                   IF k = 0 THEN <<>>
                   ELSE IF list[k] \in S THEN Append(g[k - 1], list[k]) ELSE g[k - 1]]
<1>5. f = [k \in 0 .. Len(list) |->
                   IF k = 0 THEN <<>>
                   ELSE IF list[k] \in S THEN Append(f[k - 1], list[k]) ELSE f[k - 1]]
  BY ZenonT(60), <1>4
<1>6. Keep(list, S) = f[Len(list)]
  BY Zenon DEF Keep
<1> HIDE DEF f
<1> QED BY <1>5, <1>6 DEF Walk

\* pos says where the elements of kept come from: from different places of list,
\* in their order, and none of S is missing.
From(kept, list, S, n, pos) ==
  /\ pos \in [DOMAIN kept -> 1 .. n]
  /\ \A i \in DOMAIN kept : kept[i] = list[pos[i]] /\ list[pos[i]] \in S
  /\ \A i, j \in DOMAIN kept : i < j => pos[i] < pos[j]
  /\ \A k \in 1 .. n : list[k] \in S => \E i \in DOMAIN kept : pos[i] = k

LEMMA KeepIsFrom ==
  ASSUME NEW C, NEW list \in Seq(C), NEW S
  PROVE  Keep(list, S) \in Seq(C) /\ \E pos : From(Keep(list, S), list, S, Len(list), pos)
<1> DEFINE n == Len(list)
<1>1. n \in Nat /\ \A k \in 1 .. n : list[k] \in C
  OBVIOUS
<1>2. PICK g : Walk(list, S, g, n) /\ Keep(list, S) = g[n]
  BY KeepWalks
<1> HIDE DEF n
<1> DEFINE Right(k) == g[k] \in Seq(C) /\ \E pos : From(g[k], list, S, k, pos)
           T == {k \in 0 .. n : ~Right(k)}
<1>3. T = {}
  <2> SUFFICES ASSUME T # {} PROVE FALSE
    OBVIOUS
  <2>1. PICK x \in T : \A y \in T : x <= y
    <3>1. T \in SUBSET Nat
      BY <1>1
    <3> HIDE DEF T
    <3> QED BY <3>1, Least
  <2>2. x \in 0 .. n
    BY <2>1
  <2>3. x # 0
    <3>1. g[0] = <<>>
      BY <1>1, <1>2 DEF Walk
    <3>2. From(<<>>, list, S, 0, <<>>)
      BY DEF From
    <3>3. Right(0)
      BY <3>1, <3>2
    <3> QED BY <2>1, <3>3
  <2>4. x - 1 \in 0 .. n /\ x \in 1 .. n /\ x - 1 \notin T
    BY <1>1, <2>1, <2>2, <2>3
  <2>5. Right(x - 1)
    BY <2>4
  <2>6. PICK p : From(g[x - 1], list, S, x - 1, p)
    BY <2>5
  <2> DEFINE old == g[x - 1]
             m == Len(old)
  <2>7. old \in Seq(C) /\ m \in Nat /\ DOMAIN old = 1 .. m
    BY <2>5
  <2>8. g[x] = IF list[x] \in S THEN Append(old, list[x]) ELSE old
    BY <1>2, <2>2, <2>3 DEF Walk
  <2>9. CASE list[x] \notin S
    <3>1. g[x] = old
      BY <2>8, <2>9
    <3> HIDE DEF old
    <3>2. From(old, list, S, x - 1, p)
      BY <2>6 DEF old
    <3>3. \A k \in 1 .. x : k \in 1 .. x - 1 \/ k = x
      BY <2>4
    <3>4. p \in [DOMAIN old -> 1 .. x]
      <4>1. 1 .. x - 1 \subseteq 1 .. x
        BY <2>4
      <4> QED BY <3>2, <4>1 DEF From
    <3>5. From(old, list, S, x, p)
      BY <2>9, <3>2, <3>3, <3>4 DEF From
    <3>6. Right(x)
      BY <2>7, <3>1, <3>5
    <3> QED BY <2>1, <3>6
  <2>10. CASE list[x] \in S
    <3> DEFINE new == Append(old, list[x])
               q == [i \in 1 .. m + 1 |-> IF i = m + 1 THEN x ELSE p[i]]
    <3>1. g[x] = new
      BY <2>8, <2>10
    <3>2. /\ new \in Seq(C) /\ DOMAIN new = 1 .. m + 1 /\ new[m + 1] = list[x]
          /\ \A i \in 1 .. m : new[i] = old[i]
      BY <1>1, <2>4, <2>7
    <3>3. q[m + 1] = x /\ \A i \in 1 .. m : q[i] = p[i]
      BY <2>7
    <3>4. DOMAIN q = 1 .. m + 1 /\ q = [i \in DOMAIN q |-> q[i]]
      OBVIOUS
    <3> HIDE DEF new, q
    <3>5. From(old, list, S, x - 1, p)
      BY <2>6
    <3> HIDE DEF old, m
    <3>6. /\ \A i \in 1 .. m : p[i] \in 1 .. x - 1 /\ old[i] = list[p[i]] /\ list[p[i]] \in S
          /\ \A i, j \in 1 .. m : i < j => p[i] < p[j]
          /\ \A k \in 1 .. x - 1 : list[k] \in S => \E i \in 1 .. m : p[i] = k
      BY <2>7, <3>5 DEF From
    <3>7. \A i \in 1 .. m + 1 : i \in 1 .. m \/ i = m + 1
      BY <2>7
    <3>8. q \in [1 .. m + 1 -> 1 .. x]
      <4>1. \A i \in 1 .. m + 1 : q[i] \in 1 .. x
        BY <2>4, <3>3, <3>6, <3>7
      <4> QED BY <3>4, <4>1
    <3>9. \A i \in 1 .. m + 1 : new[i] = list[q[i]] /\ list[q[i]] \in S
      BY <2>10, <3>2, <3>3, <3>6, <3>7
    <3>10. ASSUME NEW i \in 1 .. m + 1, NEW j \in 1 .. m + 1, i < j PROVE q[i] < q[j]
      <4>1. i \in 1 .. m
        BY <2>7, <3>10
      <4>2. q[i] = p[i] /\ p[i] \in 1 .. x - 1
        BY <3>3, <3>6, <4>1
      <4>3. CASE j \in 1 .. m
        BY <3>3, <3>6, <3>10, <4>1, <4>3
      <4>4. CASE j = m + 1
        BY <2>4, <3>3, <4>2, <4>4
      <4> QED BY <3>7, <4>3, <4>4
    <3>11. ASSUME NEW k \in 1 .. x, list[k] \in S PROVE \E i \in 1 .. m + 1 : q[i] = k
      <4>1. CASE k = x
        <5>1. m + 1 \in 1 .. m + 1
          BY <2>7
        <5> QED BY <3>3, <4>1, <5>1
      <4>2. CASE k # x
        <5>1. k \in 1 .. x - 1
          BY <2>4, <4>2
        <5>2. PICK i \in 1 .. m : p[i] = k
          BY <3>6, <3>11, <5>1
        <5>3. i \in 1 .. m + 1
          BY <2>7
        <5> QED BY <3>3, <5>2, <5>3
      <4> QED BY <4>1, <4>2
    <3>12. From(new, list, S, x, q)
      BY <3>2, <3>8, <3>9, <3>10, <3>11 DEF From
    <3>13. Right(x)
      BY <3>1, <3>2, <3>12
    <3> QED BY <2>1, <3>13
  <2> QED BY <2>9, <2>10
<1>4. n \in 0 .. n
  BY <1>1
<1>5. Right(n)
  BY <1>3, <1>4
<1> QED BY <1>2, <1>5 DEF n

\* What the resolver needs of it: the elements of S, each query once.
LEMMA KeepFacts ==
  ASSUME NEW C, NEW list \in Seq(C), NEW S
  PROVE  /\ Keep(list, S) \in Seq(C)
         /\ ToSet(Keep(list, S)) = ToSet(list) \cap S
         /\ Once(list) => Once(Keep(list, S))
<1> DEFINE kept == Keep(list, S)
           n == Len(list)
<1>1. kept \in Seq(C) /\ \E pos : From(kept, list, S, n, pos)
  BY KeepIsFrom
<1>2. PICK pos : From(kept, list, S, n, pos)
  BY <1>1
<1>3. DOMAIN list = 1 .. n
  OBVIOUS
<1>4. DOMAIN kept = 1 .. Len(kept) /\ Len(kept) \in Nat
  BY <1>1
<1> HIDE DEF kept, n
<1>5. ToSet(kept) \subseteq ToSet(list) \cap S
  BY <1>2, <1>3 DEF From, ToSet
<1>6. ASSUME NEW k \in DOMAIN list, list[k] \in S PROVE list[k] \in ToSet(kept)
  <2>1. PICK i \in DOMAIN kept : pos[i] = k
    BY <1>2, <1>3, <1>6 DEF From
  <2>2. kept[i] = list[k]
    BY <1>2, <2>1 DEF From
  <2> QED BY <2>1, <2>2 DEF ToSet
<1>7. ASSUME Once(list), NEW i \in DOMAIN kept, NEW j \in DOMAIN kept,
             kept[i].query = kept[j].query
      PROVE  i = j
  <2>1. /\ pos[i] \in DOMAIN list /\ pos[j] \in DOMAIN list
        /\ kept[i] = list[pos[i]] /\ kept[j] = list[pos[j]]
    BY <1>2, <1>3 DEF From
  <2>2. pos[i] = pos[j]
    BY <1>7, <2>1 DEF Once
  <2>3. ~(i < j) /\ ~(j < i)
    <3>1. (i < j => pos[i] < pos[j]) /\ (j < i => pos[j] < pos[i])
      BY <1>2 DEF From
    <3>2. pos[i] \in Int
      BY <1>2 DEF From
    <3> QED BY <2>2, <3>1, <3>2
  <2> QED BY <1>4, <2>3
<1>8. ToSet(list) \cap S \subseteq ToSet(kept)
  BY <1>6 DEF ToSet
<1>9. Once(list) => Once(kept)
  BY <1>7 DEF Once
<1> QED BY <1>1, <1>5, <1>8, <1>9 DEF kept

LEMMA OnceConcat ==
  ASSUME NEW C, NEW a \in Seq(C), NEW b \in Seq(C)
  PROVE  /\ ToSet(a \o b) = ToSet(a) \cup ToSet(b)
         /\ QueriesOf(a \o b) = QueriesOf(a) \cup QueriesOf(b)
         /\ Once(a \o b) <=> /\ Once(a) /\ Once(b)
                             /\ QueriesOf(a) \cap QueriesOf(b) = {}
<1> DEFINE n == Len(a)
           m == Len(b)
           ab == a \o b
<1>1. /\ n \in Nat /\ m \in Nat /\ DOMAIN a = 1 .. n /\ DOMAIN b = 1 .. m
      /\ DOMAIN ab = 1 .. n + m
      /\ \A i \in 1 .. n : ab[i] = a[i]
      /\ \A i \in 1 .. m : ab[n + i] = b[i]
  OBVIOUS
<1> HIDE DEF n, m, ab
<1>2. /\ \A i \in 1 .. n : i \in DOMAIN ab
      /\ \A i \in 1 .. m : n + i \in DOMAIN ab
      /\ \A i \in DOMAIN ab : i \in 1 .. n \/ \E k \in 1 .. m : i = n + k
  <2>1. ASSUME NEW i \in DOMAIN ab, i \notin 1 .. n PROVE \E k \in 1 .. m : i = n + k
    <3>1. i - n \in 1 .. m /\ i = n + (i - n)
      BY <1>1, <2>1
    <3> QED BY <3>1
  <2> QED BY <1>1, <2>1
<1>3. ToSet(ab) = ToSet(a) \cup ToSet(b)
  <2>1. ASSUME NEW i \in DOMAIN ab PROVE ab[i] \in ToSet(a) \cup ToSet(b)
    BY <1>1, <1>2 DEF ToSet
  <2>2. ASSUME NEW i \in 1 .. n PROVE a[i] \in ToSet(ab)
    BY <1>1, <1>2 DEF ToSet
  <2>3. ASSUME NEW i \in 1 .. m PROVE b[i] \in ToSet(ab)
    BY <1>1, <1>2 DEF ToSet
  <2> QED BY <1>1, <2>1, <2>2, <2>3 DEF ToSet
<1>4. QueriesOf(ab) = QueriesOf(a) \cup QueriesOf(b)
  BY <1>3 DEF QueriesOf
<1>5. ASSUME Once(ab) PROVE Once(a) /\ Once(b) /\ QueriesOf(a) \cap QueriesOf(b) = {}
  <2>1. Once(a)
    BY <1>1, <1>2, <1>5 DEF Once
  <2>2. ASSUME NEW i \in 1 .. m, NEW j \in 1 .. m, b[i].query = b[j].query PROVE i = j
    <3>1. n + i = n + j
      BY <1>1, <1>2, <1>5, <2>2 DEF Once
    <3> QED BY <1>1, <3>1
  <2>3. ASSUME NEW i \in 1 .. n, NEW j \in 1 .. m, a[i].query = b[j].query PROVE FALSE
    <3>1. i = n + j
      BY <1>1, <1>2, <1>5, <2>3 DEF Once
    <3> QED BY <1>1, <3>1
  <2>4. QueriesOf(a) \cap QueriesOf(b) = {}
    BY <1>1, <2>3 DEF QueriesOf, ToSet
  <2> QED BY <1>1, <2>1, <2>2, <2>4 DEF Once
<1>6. ASSUME Once(a), Once(b), QueriesOf(a) \cap QueriesOf(b) = {} PROVE Once(ab)
  <2>1. ASSUME NEW i \in 1 .. n, NEW j \in 1 .. m PROVE a[i].query # b[j].query
    BY <1>1, <1>6 DEF QueriesOf, ToSet
  <2>2. ASSUME NEW i \in DOMAIN ab, NEW j \in DOMAIN ab, ab[i].query = ab[j].query PROVE i = j
    <3>1. CASE i \in 1 .. n /\ j \in 1 .. n
      BY <1>1, <1>6, <2>2, <3>1 DEF Once
    <3>2. ASSUME NEW k \in 1 .. m, NEW l \in 1 .. m, i = n + k, j = n + l PROVE i = j
      <4>1. b[k].query = b[l].query
        BY <1>1, <2>2, <3>2
      <4>2. k = l
        BY <1>1, <1>6, <4>1 DEF Once
      <4> QED BY <3>2, <4>2
    <3>3. ASSUME NEW k \in 1 .. m, i = n + k, j \in 1 .. n PROVE FALSE
      BY <1>1, <2>1, <2>2, <3>3
    <3>4. ASSUME NEW k \in 1 .. m, j = n + k, i \in 1 .. n PROVE FALSE
      BY <1>1, <2>1, <2>2, <3>4
    <3> QED BY <1>2, <3>1, <3>2, <3>3, <3>4
  <2> QED BY <2>2 DEF Once
<1> QED BY <1>3, <1>4, <1>5, <1>6 DEF ab

-----------------------------------------------------------------------------
(* The end of the parser.                                                  *)

\* Where the main thread is while it calls the parser back and while it
\* destroys it.
Ending == {"dropped", "down", "downSignal", "join"}

CallFitsParser ==
  /\ mpc \in {"run", "wait"} => assist = NULL
  /\ cb # "out" => mpc = "call" /\ assist = Parser

EndFits ==
  /\ mstep \in Ending => mpc = "run"
  /\ mstep = "over" => rpc = "exited" /\ Parser \notin awakeMap /\ assist # Parser

LifeInv == CallFitsParser /\ EndFits

LEMMA LifeInit == Init => LifeInv
BY DEF Init, MainInit, LifeInv, CallFitsParser, EndFits, Ending

LEMMA MainStepLife == LifeInv /\ MainStep => LifeInv'
<1> SUFFICES ASSUME LifeInv, MainStep PROVE LifeInv'
  OBVIOUS
<1> USE DEF LifeInv, CallFitsParser, EndFits, Ending
<1>1. mstep \in {"none", "over"} /\ UNCHANGED <<cb, mstep, rpc>>
  BY DEF MainStep, own
<1>2. CASE Sleep
  BY <1>1, <1>2 DEF Sleep
<1>3. CASE Wake \/ WakeEarly
  BY <1>1, <1>3 DEF Wake, WakeEarly, LeaveWait
<1>4. CASE Take
  BY <1>1, <1>4 DEF Take, TakeOne, TakeNone
<1>5. CASE assist # Parser /\ CallDone
  BY <1>1, <1>5, MainAssumption, ResolverAssumption DEF CallDone
<1>6. CASE \E a \in Others : Destroy(a)
  BY <1>1, <1>6 DEF Destroy
<1> QED BY <1>2, <1>3, <1>4, <1>5, <1>6 DEF MainStep

LEMMA LifeStep == LifeInv /\ [Next]_vars => LifeInv'
<1> SUFFICES ASSUME LifeInv, [Next]_vars PROVE LifeInv'
  OBVIOUS
<1>1. CASE MainStep
  BY <1>1, MainStepLife
<1> USE DEF LifeInv, CallFitsParser, EndFits, Ending
<1>2. CASE MainInitDone \/ ParseSet \/ ParseSignal
  BY <1>2 DEF MainInitDone, ParseSet, ParseSignal, SignalSet, SignalCond, mainVars
<1>3. CASE Collect
  BY <1>3 DEF Collect, mainVars
<1>4. CASE CallNext
  BY <1>4 DEF CallNext, mainVars
<1>5. CASE CallbackReturns
  BY <1>5, ResolverAssumption DEF CallbackReturns, mainVars
<1>6. CASE OnAwakeCallReturns
  BY <1>6, MainAssumption, ResolverAssumption DEF OnAwakeCallReturns, CallDone
<1>7. CASE MainUninitDown \/ UninitSet \/ UninitSignal
  BY <1>7 DEF MainUninitDown, UninitSet, UninitSignal, SignalSet, SignalCond, mainVars
<1>8. CASE Destroyed
  BY <1>8, MainAssumption, ResolverAssumption DEF Destroyed, Destroy, Joined
<1>9. CASE UNext
  BY <1>9 DEF UNext, MainInitStart, Cancel, Parse, MainUninit, mainVars
<1>10. CASE EnterWait \/ WaitReturns \/ WaitSpurious
  BY <1>10 DEF EnterWait, WaitReturns, WaitSpurious, LeavesWait, At, RUnchanged, mainVars
<1>11. CASE Pick \/ \E ok \in BOOLEAN : Resolve(ok)
  BY <1>11 DEF Pick, Resolve, At, RUnchanged, mainVars
<1>12. CASE \E from \in {"test", "again"} : Loops(from)
  BY <1>12 DEF Loops, At, RUnchanged, mainVars
<1>13. CASE ParserAwakes
  BY <1>13 DEF ParserAwakes, At, RUnchanged, DoAwake, DoAwakeSet, DoAwakeSignal
<1>14. CASE OtherAwakes
  BY <1>14 DEF OtherAwakes, Others, Awaking, DoAwake, DoAwakeSet, DoAwakeSignal, own
<1>15. CASE UNCHANGED vars
  BY <1>15 DEF vars, mainVars, own
<1> QED BY <1>1, <1>2, <1>3, <1>4, <1>5, <1>6, <1>7, <1>8, <1>9, <1>10, <1>11, <1>12,
           <1>13, <1>14, <1>15 DEF Next, MNext, RNext

\* The destructor is safe: when it has returned, the parser's thread is
\* gone, and the main thread neither is in a call of the parser nor has one
\* left to make.
THEOREM ResolverEndsClean == Spec => []NoCallAfter
<1>1. Init => LifeInv
  BY LifeInit
<1>2. LifeInv /\ [Next]_vars => LifeInv'
  BY LifeStep
<1>3. LifeInv => NoCallAfter
  BY DEF LifeInv, CallFitsParser, EndFits, NoCallAfter
<1> QED BY <1>1, <1>2, <1>3, PTL DEF Spec

-----------------------------------------------------------------------------
(* The whole invariant.                                                    *)

QueueVars == <<queueLine, tmpList, callback, cb>>

HasWaiting == \E c \in ToSet(queueLine) : IsQueued(c)
HasAnswer == \E c \in ToSet(queueLine) : IsSettled(c)

\* Only a parser that is running has queries.
QueueFits ==
  /\ ~isInit => queueLine = <<>>
  /\ mstep \in Ending \cup {"over"} => queueLine = <<>>

\* The event and the place of the parser's thread agree, and a query that came
\* when the thread had looked will be seen by its next wait.
SignalFits ==
  /\ rpc = "wait" <=> signal.waiter # "none"
  /\ rpc = "wait" /\ signal.waiter = "blocked" /\ signal.isSignaled =>
       mstep \in {"signal", "downSignal"}
  /\ rpc \in {"enter", "test"} /\ HasWaiting => signal.isSignaled \/ mstep = "pushed"

RInv ==
  /\ LifeInv /\ TypeOK /\ Places /\ QueueFits
  /\ SignalFits /\ ParserWakes /\ AnswerKnown

\* The steps that leave the parser's lists alone.
OtherSteps ==
  \/ MainStep \/ OtherAwakes \/ MainInitStart \/ MainInitDone \/ ParseSet \/ ParseSignal
  \/ MainUninitDown \/ UninitSet \/ UninitSignal \/ Destroyed
  \/ EnterWait \/ WaitReturns \/ WaitSpurious \/ Pick \/ ParserAwakes
  \/ (\E from \in {"test", "again"} : Loops(from)) \/ UNCHANGED vars

ListSteps ==
  \/ \E q \in Queries : Cancel(q) \/ \E h \in Hosts : Parse(q, h)
  \/ Collect \/ CallNext \/ CallbackReturns \/ OnAwakeCallReturns \/ MainUninit
  \/ \E ok \in BOOLEAN : Resolve(ok)

LEMMA StepsSplit == [Next]_vars => OtherSteps \/ ListSteps
BY DEF Next, MNext, UNext, RNext, OtherSteps, ListSteps

LEMMA OtherStepsKeep == OtherSteps => UNCHANGED QueueVars
BY DEF OtherSteps, QueueVars, MainStep, OtherAwakes, MainInitStart, MainInitDone, ParseSet,
       ParseSignal, MainUninitDown, UninitSet, UninitSignal, SignalSet, SignalCond, Destroyed,
       EnterWait, WaitReturns, WaitSpurious, LeavesWait, Pick, ParserAwakes, Loops, RUnchanged,
       own, vars

LEMMA QueryFields ==
  ASSUME NEW c \in DnsQuery
  PROVE  /\ c.query \in Queries /\ c.domain \in Hosts
         /\ c \in Waiting <=> IsQueued(c)
         /\ c \in Answers <=> IsSettled(c)
         /\ IsSettled(c) <=> ~IsQueued(c)
         /\ \A q : c \in NotOf(q) <=> c.query # q
BY DEF DnsQuery, Waiting, Answers, NotOf, IsQueued, IsSettled

\* The query that is pushed.
LEMMA NewQuery ==
  ASSUME NEW q \in Queries, NEW h \in Hosts
  PROVE  LET c == [query |-> q, domain |-> h, state |-> "Queued"]
         IN c \in DnsQuery /\ c.query = q /\ IsQueued(c)
BY DEF DnsQuery, IsQueued

\* A list that gets one more element.
LEMMA AppendFacts ==
  ASSUME NEW list \in Seq(DnsQuery), NEW c \in DnsQuery
  PROVE  /\ Append(list, c) \in Seq(DnsQuery)
         /\ ToSet(Append(list, c)) = ToSet(list) \cup {c}
         /\ QueriesOf(Append(list, c)) = QueriesOf(list) \cup {c.query}
         /\ Once(list) /\ c.query \notin QueriesOf(list) => Once(Append(list, c))
<1> DEFINE u == <<c>>
           more == list \o u
<1>1. u \in Seq(DnsQuery) /\ more \in Seq(DnsQuery) /\ Append(list, c) = more
  OBVIOUS
<1>2. ToSet(u) = {c} /\ Once(u)
  BY DEF ToSet, Once
<1>3. QueriesOf(u) = {c.query}
  BY <1>2 DEF QueriesOf
<1> HIDE DEF u
<1>4. /\ ToSet(more) = ToSet(list) \cup ToSet(u)
      /\ QueriesOf(more) = QueriesOf(list) \cup QueriesOf(u)
      /\ Once(more) <=> Once(list) /\ Once(u) /\ QueriesOf(list) \cap QueriesOf(u) = {}
  BY <1>1, OnceConcat
<1> HIDE DEF more
<1> QED BY <1>1, <1>2, <1>3, <1>4

\* A list that loses its first.
LEMMA TailFacts ==
  ASSUME NEW list \in Seq(DnsQuery), list # <<>>
  PROVE  /\ Tail(list) \in Seq(DnsQuery) /\ Head(list) \in DnsQuery
         /\ Head(list) \in ToSet(list)
         /\ ToSet(Tail(list)) \subseteq ToSet(list)
         /\ QueriesOf(list) = QueriesOf(Tail(list)) \cup {Head(list).query}
         /\ Once(list) => Once(Tail(list)) /\ Head(list).query \notin QueriesOf(Tail(list))
<1> DEFINE t == Tail(list)
           c == Head(list)
           u == <<c>>
<1>1. t \in Seq(DnsQuery) /\ c \in DnsQuery /\ u \in Seq(DnsQuery) /\ list = u \o t
  OBVIOUS
<1>2. ToSet(u) = {c} /\ Once(u)
  BY DEF ToSet, Once
<1>3. QueriesOf(u) = {c.query}
  BY <1>2 DEF QueriesOf
<1> HIDE DEF t, c, u
<1>4. /\ ToSet(u \o t) = ToSet(u) \cup ToSet(t)
      /\ QueriesOf(u \o t) = QueriesOf(u) \cup QueriesOf(t)
      /\ Once(u \o t) => Once(t) /\ QueriesOf(u) \cap QueriesOf(t) = {}
  BY <1>1, OnceConcat
<1>5. /\ t \in Seq(DnsQuery) /\ c \in DnsQuery /\ c \in ToSet(list)
      /\ ToSet(t) \subseteq ToSet(list)
      /\ QueriesOf(list) = QueriesOf(t) \cup {c.query}
      /\ Once(list) => Once(t) /\ c.query \notin QueriesOf(t)
  BY <1>1, <1>2, <1>3, <1>4
<1> QED BY <1>5 DEF t, c

-----------------------------------------------------------------------------
(* Places.                                                                 *)

\* Places, list by list.
Held(queue, tmp, calls, c) ==
  /\ Once(queue) /\ Once(tmp) /\ QueriesOf(queue) \cap QueriesOf(tmp) = {}
  /\ c \notin QueriesOf(queue) \cup QueriesOf(tmp)
  /\ QueriesOf(queue) \subseteq calls
  /\ calls \subseteq QueriesOf(queue) \cup QueriesOf(tmp)
  /\ \A x \in ToSet(tmp) : IsSettled(x)
  /\ tmp # <<>> => c # "out"

LEMMA PlacesHeld ==
  ASSUME queueLine \in Seq(DnsQuery), tmpList \in Seq(DnsQuery)
  PROVE  Places <=> Held(queueLine, tmpList, callback, cb)
BY OnceConcat DEF Places, Held, ToSet

LEMMA PlacesHeldNext ==
  ASSUME queueLine' \in Seq(DnsQuery), tmpList' \in Seq(DnsQuery)
  PROVE  Places' <=> Held(queueLine', tmpList', callback', cb')
BY OnceConcat DEF Places, Held, ToSet

LEMMA EmptyList ==
  <<>> \in Seq(DnsQuery) /\ ToSet(<<>>) = {} /\ QueriesOf(<<>>) = {} /\ Once(<<>>)
BY DEF ToSet, QueriesOf, Once

\* The answer to a name changes no query's place.
LEMMA ResolveLists ==
  ASSUME TypeOK, NEW ok \in BOOLEAN, Resolve(ok)
  PROVE  /\ queueLine' \in Seq(DnsQuery)
         /\ QueriesOf(queueLine') = QueriesOf(queueLine)
         /\ Once(queueLine) => Once(queueLine')
         /\ HasWaiting' => HasWaiting
<1> DEFINE n == Len(queueLine)
<1>1. queueLine \in Seq(DnsQuery) /\ n \in Nat /\ DOMAIN queueLine = 1 .. n
  BY DEF TypeOK
<1>2. queueLine' = [k \in 1 .. n |-> Settled(queueLine[k], ok)]
  BY <1>1 DEF Resolve
<1>3. ASSUME NEW c \in DnsQuery
      PROVE  /\ Settled(c, ok) \in DnsQuery /\ Settled(c, ok).query = c.query
             /\ IsQueued(Settled(c, ok)) => IsQueued(c)
  BY DEF Settled, DnsQuery, IsQueued
<1>4. \A k \in 1 .. n : queueLine[k] \in DnsQuery
  BY <1>1
<1> HIDE DEF n
<1>5. DOMAIN queueLine' = 1 .. n /\ queueLine' \in Seq(DnsQuery)
  BY <1>1, <1>2, <1>3, <1>4
<1>6. \A k \in 1 .. n : /\ queueLine'[k].query = queueLine[k].query
                        /\ IsQueued(queueLine'[k]) => IsQueued(queueLine[k])
  BY <1>2, <1>3, <1>4
<1>7. QueriesOf(queueLine') = QueriesOf(queueLine)
  <2>1. QueriesOf(queueLine) = {queueLine[k].query : k \in 1 .. n}
    BY <1>1 DEF QueriesOf, ToSet
  <2>2. QueriesOf(queueLine') = {queueLine'[k].query : k \in 1 .. n}
    BY <1>5 DEF QueriesOf, ToSet
  <2> QED BY <1>6, <2>1, <2>2
<1>8. Once(queueLine) => Once(queueLine')
  BY <1>1, <1>5, <1>6 DEF Once
<1>9. HasWaiting' => HasWaiting
  BY <1>1, <1>5, <1>6 DEF HasWaiting, ToSet
<1> QED BY <1>5, <1>7, <1>8, <1>9

LEMMA PlacesStep ==
  ASSUME RInv, [Next]_vars
  PROVE  queueLine' \in Seq(DnsQuery) /\ tmpList' \in Seq(DnsQuery) /\ Places'
<1>1. /\ queueLine \in Seq(DnsQuery) /\ tmpList \in Seq(DnsQuery) /\ TypeOK
      /\ Held(queueLine, tmpList, callback, cb)
      /\ "loop" \notin Queries /\ "out" \notin Queries
  BY PlacesHeld, ResolverAssumption DEF RInv, TypeOK
<1> SUFFICES /\ queueLine' \in Seq(DnsQuery) /\ tmpList' \in Seq(DnsQuery)
             /\ Held(queueLine', tmpList', callback', cb')
  BY PlacesHeldNext
<1>2. \A list \in Seq(DnsQuery) : QueriesOf(list) \subseteq Queries
  BY QueryFields DEF QueriesOf, ToSet
<1>3. CASE OtherSteps
  BY <1>1, <1>3, OtherStepsKeep DEF QueueVars
<1>4. ASSUME NEW q \in Queries, NEW h \in Hosts, Parse(q, h)
      PROVE  /\ queueLine' \in Seq(DnsQuery) /\ tmpList' \in Seq(DnsQuery)
             /\ Held(queueLine', tmpList', callback', cb')
  <2> DEFINE c == [query |-> q, domain |-> h, state |-> "Queued"]
  <2>1. /\ queueLine' = Append(queueLine, c) /\ tmpList' = tmpList /\ cb' = cb
        /\ callback' = callback \cup {q}
        /\ q \notin QueriesOf(queueLine) \cup QueriesOf(tmpList) \cup {cb}
    BY <1>4 DEF Parse, Free
  <2>2. c \in DnsQuery /\ c.query = q
    BY NewQuery
  <2> HIDE DEF c
  <2>3. /\ queueLine' \in Seq(DnsQuery)
        /\ QueriesOf(queueLine') = QueriesOf(queueLine) \cup {q}
        /\ Once(queueLine) => Once(queueLine')
    BY <1>1, <2>1, <2>2, AppendFacts
  <2> QED BY <1>1, <2>1, <2>3 DEF Held
<1>5. ASSUME NEW q \in Queries, Cancel(q)
      PROVE  /\ queueLine' \in Seq(DnsQuery) /\ tmpList' \in Seq(DnsQuery)
             /\ Held(queueLine', tmpList', callback', cb')
  <2>1. /\ queueLine' = Keep(queueLine, NotOf(q)) /\ tmpList' = tmpList /\ cb' = cb
        /\ callback' = callback \ {q}
    BY <1>5 DEF Cancel
  <2>2. /\ queueLine' \in Seq(DnsQuery) /\ ToSet(queueLine') = ToSet(queueLine) \cap NotOf(q)
        /\ Once(queueLine')
    BY <1>1, <2>1, KeepFacts DEF Held
  <2>3. ToSet(queueLine) \subseteq DnsQuery
    BY <1>1 DEF ToSet
  <2>4. QueriesOf(queueLine') = QueriesOf(queueLine) \ {q}
    BY <2>2, <2>3, QueryFields DEF QueriesOf
  <2> QED BY <1>1, <2>1, <2>2, <2>4 DEF Held
<1>6. CASE Collect
  <2>1. /\ queueLine' = Keep(queueLine, Waiting) /\ tmpList' = Keep(queueLine, Answers)
        /\ callback' = callback /\ cb' = "loop" /\ cb = "out"
    BY <1>6 DEF Collect, Collected
  <2>2. /\ queueLine' \in Seq(DnsQuery) /\ ToSet(queueLine') = ToSet(queueLine) \cap Waiting
        /\ tmpList' \in Seq(DnsQuery) /\ ToSet(tmpList') = ToSet(queueLine) \cap Answers
        /\ Once(queueLine') /\ Once(tmpList')
    BY <1>1, <2>1, KeepFacts DEF Held
  <2>3. ToSet(queueLine) \subseteq DnsQuery
    BY <1>1 DEF ToSet
  <2>4. ToSet(queueLine') \cup ToSet(tmpList') = ToSet(queueLine)
    BY <2>2, <2>3, QueryFields
  <2>5. QueriesOf(queueLine') \cup QueriesOf(tmpList') = QueriesOf(queueLine)
    BY <2>4 DEF QueriesOf
  <2>6. ASSUME NEW x \in ToSet(queueLine'), NEW y \in ToSet(tmpList') PROVE x.query # y.query
    <3>1. x \in ToSet(queueLine) /\ y \in ToSet(queueLine) /\ x # y
      BY <2>2, <2>3, <2>6, QueryFields
    <3> QED BY <1>1, <3>1 DEF Held, Once, ToSet
  <2>7. QueriesOf(queueLine') \cap QueriesOf(tmpList') = {}
    BY <2>6 DEF QueriesOf
  <2>8. tmpList = <<>>
    BY <1>1, <2>1 DEF Held
  <2>9. \A x \in ToSet(tmpList') : IsSettled(x)
    BY <2>2, <2>3, QueryFields
  <2> QED BY <1>1, <1>2, <2>1, <2>2, <2>5, <2>7, <2>8, <2>9, EmptyList DEF Held
<1>7. CASE CallNext
  <2> DEFINE c == Head(tmpList)
  <2>1. /\ tmpList # <<>> /\ tmpList' = Tail(tmpList) /\ queueLine' = queueLine /\ cb = "loop"
        /\ cb' = CallBack(c.query) /\ callback' = callback \ {cb'}
    BY <1>7 DEF CallNext
  <2>2. /\ tmpList' \in Seq(DnsQuery) /\ c \in DnsQuery /\ c \in ToSet(tmpList)
        /\ ToSet(tmpList') \subseteq ToSet(tmpList)
        /\ QueriesOf(tmpList) = QueriesOf(tmpList') \cup {c.query}
        /\ Once(tmpList') /\ c.query \notin QueriesOf(tmpList')
    BY <1>1, <2>1, TailFacts DEF Held
  <2>3. c.query \in Queries
    BY <2>2, QueryFields
  <2> HIDE DEF c
  <2>4. \/ cb' = c.query
        \/ cb' = "loop" /\ c.query \notin callback
    BY <2>1 DEF CallBack
  <2>5. cb' # "out" /\ callback \subseteq Queries
    BY <1>1, <2>3, <2>4 DEF TypeOK
  <2> QED BY <1>1, <1>2, <2>1, <2>2, <2>3, <2>4, <2>5 DEF Held
<1>8. CASE CallbackReturns \/ OnAwakeCallReturns
  <2>1. UNCHANGED <<queueLine, tmpList, callback>> /\ cb' \in {"loop", "out"}
    BY <1>8 DEF CallbackReturns, OnAwakeCallReturns
  <2>2. cb' = "out" => tmpList = <<>>
    BY <1>8 DEF CallbackReturns, OnAwakeCallReturns
  <2> QED BY <1>1, <1>2, <2>1, <2>2 DEF Held
<1>9. CASE MainUninit
  <2>1. queueLine' = <<>> /\ callback' = {} /\ tmpList' = tmpList /\ cb' = cb /\ mpc = "run"
    BY <1>9 DEF MainUninit
  <2>2. tmpList = <<>>
    BY <1>1, <2>1 DEF RInv, LifeInv, CallFitsParser, Held
  <2> QED BY <1>1, <2>1, <2>2, EmptyList DEF Held
<1>10. ASSUME NEW ok \in BOOLEAN, Resolve(ok)
       PROVE  /\ queueLine' \in Seq(DnsQuery) /\ tmpList' \in Seq(DnsQuery)
              /\ Held(queueLine', tmpList', callback', cb')
  <2>1. UNCHANGED <<tmpList, callback, cb>>
    BY <1>10 DEF Resolve, RUnchanged, At
  <2> QED BY <1>1, <1>10, <2>1, ResolveLists DEF Held
<1> QED BY <1>3, <1>4, <1>5, <1>6, <1>7, <1>8, <1>9, <1>10, StepsSplit DEF ListSteps

-----------------------------------------------------------------------------
(* Types, and what is waited for.                                          *)

\* What becomes of the queue: only parse adds to it, a query that waits.
LEMMA QueueStep ==
  ASSUME RInv, [Next]_vars
  PROVE  /\ HasWaiting' => HasWaiting \/ \E q \in Queries, h \in Hosts : Parse(q, h)
         /\ HasAnswer' => HasAnswer \/ \E ok \in BOOLEAN : Resolve(ok)
         /\ queueLine = <<>> => queueLine' = <<>> \/ \E q \in Queries, h \in Hosts : Parse(q, h)
<1>1. /\ queueLine \in Seq(DnsQuery) /\ queueLine' \in Seq(DnsQuery)
      /\ tmpList \in Seq(DnsQuery) /\ Places /\ TypeOK
  BY PlacesStep DEF RInv, TypeOK
<1>2. ASSUME NEW list \in Seq(DnsQuery), ToSet(list) = {} PROVE list = <<>>
  <2>1. DOMAIN list = 1 .. Len(list) /\ Len(list) \in Nat
    OBVIOUS
  <2>2. ~(1 \in DOMAIN list)
    BY <1>2 DEF ToSet
  <2>3. Len(list) = 0
    BY <2>1, <2>2
  <2> QED BY <2>3
<1>3. ASSUME ToSet(queueLine') \subseteq ToSet(queueLine)
      PROVE  /\ HasWaiting' => HasWaiting
             /\ HasAnswer' => HasAnswer
             /\ queueLine = <<>> => queueLine' = <<>>
  <2>1. queueLine = <<>> => queueLine' = <<>>
    BY <1>1, <1>2, <1>3, EmptyList
  <2> QED BY <1>3, <2>1 DEF HasWaiting, HasAnswer
<1>4. CASE OtherSteps
  <2>1. queueLine' = queueLine
    BY <1>4, OtherStepsKeep DEF QueueVars
  <2> QED BY <1>3, <2>1
<1>5. ASSUME NEW q \in Queries, NEW h \in Hosts, Parse(q, h)
      PROVE  HasAnswer' => HasAnswer
  <2> DEFINE c == [query |-> q, domain |-> h, state |-> "Queued"]
  <2>1. queueLine' = Append(queueLine, c) /\ c \in DnsQuery /\ IsQueued(c)
    BY <1>5, NewQuery DEF Parse
  <2>2. ~IsSettled(c)
    BY <2>1, QueryFields
  <2> HIDE DEF c
  <2>3. ToSet(queueLine') = ToSet(queueLine) \cup {c}
    BY <1>1, <2>1, AppendFacts
  <2> QED BY <2>2, <2>3 DEF HasAnswer
<1>6. ASSUME NEW q \in Queries, Cancel(q) PROVE ToSet(queueLine') \subseteq ToSet(queueLine)
  <2>1. queueLine' = Keep(queueLine, NotOf(q))
    BY <1>6 DEF Cancel
  <2> QED BY <1>1, <2>1, KeepFacts
<1>7. CASE Collect
  <2>1. queueLine' = Keep(queueLine, Waiting)
    BY <1>7 DEF Collect
  <2>2. ToSet(queueLine') \subseteq ToSet(queueLine)
    BY <1>1, <2>1, KeepFacts
  <2> QED BY <1>3, <2>2
<1>8. CASE CallNext \/ CallbackReturns \/ OnAwakeCallReturns
  <2>1. queueLine' = queueLine
    BY <1>8 DEF CallNext, CallbackReturns, OnAwakeCallReturns
  <2> QED BY <1>3, <2>1
<1>9. CASE MainUninit
  <2>1. queueLine' = <<>>
    BY <1>9 DEF MainUninit
  <2> QED BY <1>3, <2>1, EmptyList
<1>10. ASSUME NEW ok \in BOOLEAN, Resolve(ok)
       PROVE  /\ HasWaiting' => HasWaiting
              /\ queueLine = <<>> => queueLine' = <<>>
  <2>1. QueriesOf(queueLine') = QueriesOf(queueLine) /\ (HasWaiting' => HasWaiting)
    BY <1>1, <1>10, ResolveLists
  <2>2. queueLine = <<>> => ToSet(queueLine') = {}
    BY <2>1, EmptyList DEF QueriesOf
  <2> QED BY <1>1, <1>2, <2>1, <2>2
<1>11. ASSUME NEW q \in Queries, NEW h \in Hosts, Parse(q, h)
       PROVE  \E q1 \in Queries, h1 \in Hosts : Parse(q1, h1)
  BY <1>11
<1>12. ASSUME NEW ok \in BOOLEAN, Resolve(ok) PROVE \E ok1 \in BOOLEAN : Resolve(ok1)
  BY <1>12
<1>13. CASE \E q \in Queries : Cancel(q)
  BY <1>3, <1>6, <1>13
<1>14. CASE \E q \in Queries, h \in Hosts : Parse(q, h)
  BY <1>5, <1>14
<1>15. CASE \E ok \in BOOLEAN : Resolve(ok)
  BY <1>10, <1>15
<1> QED BY <1>4, <1>7, <1>8, <1>9, <1>13, <1>14, <1>15, StepsSplit DEF ListSteps

LEMMA QueueFitsStep == ASSUME RInv, [Next]_vars PROVE QueueFits'
<1>1. QueueFits /\ LifeInv
  BY DEF RInv
<1>2. CASE \E q \in Queries, h \in Hosts : Parse(q, h)
  BY <1>1, <1>2 DEF QueueFits, Parse, InProgram, Ending
<1>3. CASE ~ \E q \in Queries, h \in Hosts : Parse(q, h)
  <2>1. queueLine = <<>> => queueLine' = <<>>
    BY <1>3, QueueStep
  <2>2. CASE MainUninit
    BY <2>2 DEF MainUninit, QueueFits
  <2>3. CASE ~MainUninit
    <3>1. \/ UNCHANGED <<isInit, mstep>>
          \/ isInit' /\ mstep' \in {"none", "started", "signal"}
          \/ queueLine = <<>>
      <4>1. CASE MainStep \/ OtherAwakes \/ UNCHANGED vars
        BY <4>1 DEF MainStep, OtherAwakes, own, vars
      <4>2. CASE MainInitDone
        BY <4>2 DEF MainInitDone
      <4>3. CASE MainInitStart
        BY <1>1, <4>3 DEF MainInitStart, QueueFits
      <4>4. CASE ParseSet \/ ParseSignal
        BY <1>1, <4>4 DEF ParseSet, ParseSignal, SignalSet, SignalCond, QueueFits
      <4>5. CASE MainUninitDown \/ UninitSet \/ UninitSignal \/ Destroyed
        BY <1>1, <4>5 DEF MainUninitDown, UninitSet, UninitSignal, SignalSet, SignalCond,
             Destroyed, QueueFits, Ending
      <4>6. CASE \/ EnterWait \/ WaitReturns \/ WaitSpurious \/ Pick \/ ParserAwakes
                 \/ (\E from \in {"test", "again"} : Loops(from))
                 \/ \E ok \in BOOLEAN : Resolve(ok)
        BY <4>6 DEF EnterWait, WaitReturns, WaitSpurious, LeavesWait, Pick, ParserAwakes, Loops,
             Resolve, RUnchanged
      <4>7. CASE \/ Collect \/ CallNext \/ CallbackReturns \/ OnAwakeCallReturns
                 \/ \E q \in Queries : Cancel(q)
        BY <4>7 DEF Collect, CallNext, CallbackReturns, OnAwakeCallReturns, Cancel
      <4> QED BY <1>3, <2>3, <4>1, <4>2, <4>3, <4>4, <4>5, <4>6, <4>7, StepsSplit
                 DEF OtherSteps, ListSteps
    <3> QED BY <1>1, <2>1, <3>1 DEF QueueFits, Ending
  <2> QED BY <2>2, <2>3
<1> QED BY <1>2, <1>3

\* What Pick finds.
LEMMA PickFinds ==
  ASSUME RInv, Pick
  PROVE  \/ rpc' = "resolve" /\ host' \in Hosts
         \/ rpc' = "test" /\ host' = NULL /\ ~HasWaiting
<1> DEFINE list == Keep(queueLine, Waiting)
<1>1. queueLine \in Seq(DnsQuery)
  BY DEF RInv, TypeOK
<1>2. list \in Seq(DnsQuery) /\ ToSet(list) = ToSet(queueLine) \cap Waiting
  BY <1>1, KeepFacts
<1>3. /\ host' = IF list = <<>> THEN NULL ELSE Head(list).domain
      /\ rpc' = IF host' = NULL THEN "test" ELSE "resolve"
  BY DEF Pick, At
<1> HIDE DEF list
<1>4. CASE list = <<>>
  <2>1. ToSet(queueLine) \cap Waiting = {}
    BY <1>2, <1>4, EmptyList
  <2>2. ToSet(queueLine) \subseteq DnsQuery
    BY <1>1 DEF ToSet
  <2>3. ~HasWaiting
    BY <2>1, <2>2, QueryFields DEF HasWaiting
  <2> QED BY <1>3, <1>4, <2>3
<1>5. CASE list # <<>>
  <2>1. Head(list) \in DnsQuery
    BY <1>2, <1>5, TailFacts
  <2>2. host' = Head(list).domain /\ host' \in Hosts
    BY <1>3, <1>5, <2>1, QueryFields
  <2> QED BY <1>3, <2>2, ResolverAssumption
<1> QED BY <1>4, <1>5

LEMMA SignalStep == ASSUME RInv, [Next]_vars PROVE SignalFits' /\ ParserWakes'
<1>1. /\ SignalFits /\ QueueFits /\ signal \in EventType
      /\ rpc = "wait" /\ signal.waiter = "blocked" /\ HasWaiting => mstep \in {"pushed", "signal"}
  BY DEF RInv, TypeOK, ParserWakes, HasWaiting
<1>2. ~HasWaiting \/ queueLine # <<>>
  BY EmptyList DEF HasWaiting
<1> SUFFICES
      /\ SignalFits'
      /\ rpc' = "wait" /\ signal'.waiter = "blocked" /\ HasWaiting' =>
           mstep' \in {"pushed", "signal"}
  BY DEF ParserWakes, HasWaiting
<1>3. HasWaiting' => HasWaiting \/ \E q \in Queries, h \in Hosts : Parse(q, h)
  BY QueueStep
<1> USE <1>1, <1>2, <1>3 DEF SignalFits, QueueFits, Ending
<1>4. ASSUME NEW q \in Queries, NEW h \in Hosts, Parse(q, h)
      PROVE  /\ SignalFits'
             /\ rpc' = "wait" /\ signal'.waiter = "blocked" /\ HasWaiting' =>
                  mstep' \in {"pushed", "signal"}
  BY <1>4 DEF Parse, InProgram
<1>5. CASE ~ \E q \in Queries, h \in Hosts : Parse(q, h)
  <2>1. HasWaiting' => HasWaiting
    BY <1>5
  <2> USE <2>1
  <2>2. CASE MainStep \/ OtherAwakes \/ UNCHANGED vars
    BY <2>2 DEF MainStep, OtherAwakes, own, vars
  <2>3. CASE MainInitDone \/ MainUninitDown \/ Destroyed
    BY <2>3 DEF MainInitDone, MainUninitDown, Destroyed
  <2>4. CASE MainInitStart
    BY <2>4 DEF MainInitStart
  <2>5. CASE ParseSet \/ UninitSet
    BY <2>5, EventKept DEF ParseSet, UninitSet, SignalSet
  <2>6. CASE ParseSignal \/ UninitSignal
    BY <2>6, EventKept DEF ParseSignal, UninitSignal, SignalCond
  <2>7. CASE EnterWait
    <3>1. CASE signal.isSignaled
      <4>1. rpc' = "pick" /\ signal' = [signal EXCEPT !.isSignaled = FALSE] /\ rpc = "enter"
        BY <2>7, <3>1, EventKept DEF EnterWait, At, Passes
      <4>2. signal'.waiter = signal.waiter
        BY <4>1 DEF EventType
      <4> QED BY <4>1, <4>2
    <3>2. CASE ~signal.isSignaled
      <4>1. /\ rpc' = "wait" /\ signal'.waiter = "blocked" /\ ~signal'.isSignaled
            /\ rpc = "enter" /\ mstep' = mstep
        BY <2>7, <3>2, EventKept DEF EnterWait, At, Passes, RUnchanged
      <4> QED BY <3>2, <4>1
    <3> QED BY <3>1, <3>2
  <2>8. CASE WaitReturns \/ WaitSpurious
    BY <2>8, EventKept DEF WaitReturns, WaitSpurious, LeavesWait, At
  <2>9. CASE Pick
    BY <2>9, PickFinds DEF Pick, At, RUnchanged
  <2>10. CASE ParserAwakes
    BY <2>10 DEF ParserAwakes, At, RUnchanged
  <2>11. CASE \E from \in {"test", "again"} : Loops(from)
    BY <2>11 DEF Loops, At, RUnchanged, NextAfter
  <2>12. CASE \E ok \in BOOLEAN : Resolve(ok)
    BY <2>12 DEF Resolve, At
  <2>13. CASE Collect \/ CallNext \/ CallbackReturns \/ OnAwakeCallReturns
    BY <2>13 DEF Collect, CallNext, CallbackReturns, OnAwakeCallReturns
  <2>14. CASE MainUninit
    <3>1. queueLine' = <<>> /\ UNCHANGED <<rpc, signal>> /\ mstep = "none"
      BY <2>14 DEF MainUninit
    <3>2. ~HasWaiting'
      BY <3>1, EmptyList DEF HasWaiting
    <3> QED BY <3>1, <3>2
  <2>15. CASE \E q \in Queries : Cancel(q)
    BY <2>15 DEF Cancel
  <2> QED BY <1>5, <2>2, <2>3, <2>4, <2>5, <2>6, <2>7, <2>8, <2>9, <2>10, <2>11, <2>12, <2>13,
             <2>14, <2>15, StepsSplit DEF OtherSteps, ListSteps
<1> QED BY <1>4, <1>5

LEMMA AnswerStep == ASSUME RInv, [Next]_vars PROVE AnswerKnown'
<1> DEFINE Known == \/ rpc = "awake" \/ Parser \in awakeMap
                    \/ mpc = "call" /\ assist = Parser /\ cb = "out"
<1>1. /\ HasAnswer => Known
      /\ LifeInv /\ QueueFits /\ "out" \notin Queries
  BY ResolverAssumption DEF RInv, AnswerKnown, HasAnswer
<1> SUFFICES HasAnswer' => Known'
  BY DEF AnswerKnown, HasAnswer
<1>2. HasAnswer' => HasAnswer \/ \E ok \in BOOLEAN : Resolve(ok)
  BY QueueStep
<1>3. ~HasAnswer \/ queueLine # <<>>
  BY EmptyList DEF HasAnswer
<1> USE <1>1, <1>2, <1>3 DEF LifeInv, CallFitsParser
<1>4. CASE \E ok \in BOOLEAN : Resolve(ok)
  BY <1>4 DEF Resolve, At
<1>5. CASE ~ \E ok \in BOOLEAN : Resolve(ok)
  <2>1. HasAnswer' => HasAnswer /\ Known
    BY <1>5
  <2> USE <2>1
  <2>2. CASE MainStep
    <3>1. UNCHANGED <<cb, rpc>>
      BY <2>2 DEF MainStep, own
    <3>2. CASE Sleep
      BY <3>1, <3>2 DEF Sleep
    <3>3. CASE Wake \/ WakeEarly
      BY <3>1, <3>3 DEF Wake, WakeEarly, LeaveWait
    <3>4. CASE Take
      BY <3>1, <3>4 DEF Take, TakeOne, TakeNone
    <3>5. CASE assist # Parser /\ CallDone
      BY <3>1, <3>5 DEF CallDone
    <3>6. CASE \E a \in Others : Destroy(a)
      BY <3>1, <3>6 DEF Destroy, Others
    <3> QED BY <2>2, <3>2, <3>3, <3>4, <3>5, <3>6 DEF MainStep
  <2>3. CASE OtherAwakes
    BY <2>3 DEF OtherAwakes, Awaking, DoAwake, DoAwakeSet, DoAwakeSignal, own
  <2>4. CASE MainInitStart \/ MainInitDone \/ MainUninitDown
    BY <2>4 DEF MainInitStart, MainInitDone, MainUninitDown, mainVars
  <2>5. CASE ParseSet \/ ParseSignal \/ UninitSet \/ UninitSignal
    BY <2>5 DEF ParseSet, ParseSignal, UninitSet, UninitSignal, SignalSet, SignalCond, mainVars
  <2>6. CASE Destroyed
    BY <2>6 DEF Destroyed, QueueFits, Ending
  <2>7. CASE EnterWait \/ WaitReturns \/ WaitSpurious \/ Pick
    BY <2>7 DEF EnterWait, WaitReturns, WaitSpurious, LeavesWait, Pick, At, RUnchanged, mainVars
  <2>8. CASE \E from \in {"test", "again"} : Loops(from)
    BY <2>8 DEF Loops, At, RUnchanged, mainVars
  <2>9. CASE ParserAwakes
    BY <2>9 DEF ParserAwakes, At, RUnchanged, DoAwake, DoAwakeSet, DoAwakeSignal
  <2>10. CASE Collect
    <3>1. queueLine \in Seq(DnsQuery) /\ queueLine' = Keep(queueLine, Waiting)
      BY <2>10 DEF Collect, RInv, TypeOK
    <3>2. ToSet(queueLine') = ToSet(queueLine) \cap Waiting /\ ToSet(queueLine) \subseteq DnsQuery
      BY <3>1, KeepFacts DEF ToSet
    <3>3. ~HasAnswer'
      BY <3>2, QueryFields DEF HasAnswer
    <3> QED BY <3>3
  <2>11. CASE CallNext \/ CallbackReturns
    BY <2>11 DEF CallNext, CallbackReturns, mainVars
  <2>12. CASE OnAwakeCallReturns
    BY <2>12 DEF OnAwakeCallReturns, CallDone
  <2>13. CASE MainUninit
    <3>1. ~HasAnswer'
      BY <2>13, EmptyList DEF MainUninit, HasAnswer
    <3> QED BY <3>1
  <2>14. CASE \E q \in Queries : Cancel(q) \/ \E h \in Hosts : Parse(q, h)
    BY <2>14 DEF Cancel, Parse, mainVars
  <2>15. CASE UNCHANGED vars
    BY <2>15 DEF vars, mainVars, own
  <2> QED BY <1>5, <2>2, <2>3, <2>4, <2>5, <2>6, <2>7, <2>8, <2>9, <2>10, <2>11, <2>12, <2>13,
             <2>14, <2>15, StepsSplit DEF OtherSteps, ListSteps
<1> QED BY <1>4, <1>5

\* Types of what is not a list.
Rest ==
  /\ callback \subseteq Queries /\ isInit \in BOOLEAN /\ signal \in EventType
  /\ mstep \in {"none", "started", "pushed", "signal",
                "dropped", "down", "downSignal", "join", "over"}
  /\ cb \in {"out", "loop"} \cup Queries
  /\ rpc \in {"none", "enter", "wait", "pick", "resolve", "awake", "awaking",
              "test", "again", "exited"}
  /\ host \in Hosts \cup {NULL}

LEMMA TypeStep == ASSUME RInv, [Next]_vars PROVE TypeOK'
<1>1. Rest /\ tmpList \in Seq(DnsQuery)
  BY DEF RInv, TypeOK, Rest
<1>2. queueLine' \in Seq(DnsQuery) /\ tmpList' \in Seq(DnsQuery)
  BY PlacesStep
<1> SUFFICES Rest'
  BY <1>2 DEF TypeOK, Rest
<1> USE <1>1 DEF Rest
<1>3. CASE MainStep \/ OtherAwakes \/ UNCHANGED vars
  BY <1>3 DEF MainStep, OtherAwakes, own, vars
<1>4. CASE MainInitStart \/ MainInitDone \/ MainUninit \/ MainUninitDown \/ Destroyed
  BY <1>4 DEF MainInitStart, MainInitDone, MainUninit, MainUninitDown, Destroyed
<1>5. CASE ParseSet \/ ParseSignal \/ UninitSet \/ UninitSignal
  BY <1>5, EventKept DEF ParseSet, ParseSignal, UninitSet, UninitSignal, SignalSet, SignalCond
<1>6. CASE EnterWait \/ WaitReturns \/ WaitSpurious
  BY <1>6, EventKept DEF EnterWait, WaitReturns, WaitSpurious, LeavesWait, At, RUnchanged
<1>7. CASE Pick
  BY <1>7, PickFinds DEF Pick, RUnchanged
<1>8. CASE ParserAwakes \/ (\E from \in {"test", "again"} : Loops(from))
           \/ \E ok \in BOOLEAN : Resolve(ok)
  BY <1>8 DEF ParserAwakes, Loops, Resolve, At, RUnchanged, NextAfter
<1>9. CASE \E q \in Queries : Cancel(q) \/ \E h \in Hosts : Parse(q, h)
  BY <1>9 DEF Cancel, Parse
<1>10. CASE Collect \/ CallbackReturns \/ OnAwakeCallReturns
  BY <1>10 DEF Collect, CallbackReturns, OnAwakeCallReturns
<1>11. CASE CallNext
  <2>1. Head(tmpList) \in DnsQuery
    BY <1>11, TailFacts DEF CallNext
  <2>2. Head(tmpList).query \in Queries
    BY <2>1, QueryFields
  <2> QED BY <1>11, <2>2 DEF CallNext, CallBack
<1> QED BY <1>3, <1>4, <1>5, <1>6, <1>7, <1>8, <1>9, <1>10, <1>11, StepsSplit
           DEF OtherSteps, ListSteps

LEMMA RInit == Init => RInv
<1> SUFFICES ASSUME Init PROVE RInv
  OBVIOUS
<1>1. LifeInv
  BY LifeInit
<1>2. TypeOK
  BY EmptyList DEF Init, TypeOK, NewEvent, EventType, Waiters
<1>3. Held(queueLine, tmpList, callback, cb)
  BY EmptyList DEF Init, Held
<1>4. Places
  BY <1>2, <1>3, PlacesHeld DEF TypeOK
<1>5. ~HasWaiting /\ ~HasAnswer
  BY EmptyList DEF Init, HasWaiting, HasAnswer
<1>6. QueueFits /\ SignalFits
  BY <1>5 DEF Init, QueueFits, SignalFits, NewEvent
<1>7. ParserWakes /\ AnswerKnown
  BY <1>5 DEF ParserWakes, AnswerKnown, HasWaiting, HasAnswer
<1> QED BY <1>1, <1>2, <1>4, <1>6, <1>7 DEF RInv

\* Whatever is asked, cancelled and destroyed, and in whatever order names
\* are resolved and the main thread is woken: a query is in one place, the
\* parser does not sleep on one, an answer does not lie in the queue unknown
\* to the main thread, and nothing is called back after the destructor.
THEOREM ResolverInvariant == Spec => []ResolverInv
<1>1. Init => RInv
  BY RInit
<1>2. RInv /\ [Next]_vars => RInv'
  BY LifeStep, PlacesStep, TypeStep, QueueFitsStep, SignalStep, AnswerStep DEF RInv
<1>3. RInv => TypeOK /\ Places /\ ParserWakes /\ AnswerKnown
  BY DEF RInv
<1>4. Spec => [](TypeOK /\ Places /\ ParserWakes /\ AnswerKnown)
  BY <1>1, <1>2, <1>3, PTL DEF Spec
<1>5. MainTypeOK /\ EventFits /\ (TypeOK /\ Places /\ ParserWakes /\ AnswerKnown) /\ NoCallAfter
        => ResolverInv
  BY DEF ResolverInv
<1>6. Spec => [](MainTypeOK /\ EventFits)
  BY ResolverIsAnAssist, MainThreadFits, PTL DEF ImplementsMainThread
<1> QED BY <1>4, <1>5, <1>6, ResolverEndsClean, PTL
=============================================================================
