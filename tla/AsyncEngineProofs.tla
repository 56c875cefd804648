-------------------------- MODULE AsyncEngineProofs --------------------------
(***************************************************************************)
(* Proofs about AsyncEngine, for any number of objects, operations,        *)
(* descriptors and workers: types, the lemmas on the list, the ready queue *)
(* and detach, the inductive invariant conjunct by conjunct, and the       *)
(* theorems; then the refinement of AsyncIO and what else a caller may     *)
(* rely on.                                                                *)
(***************************************************************************)
EXTENDS AsyncEngine, FiniteSetTheorems, SequenceTheorems, TLAPS

\* Removing the k-th element of a sequence.
LEMMA RemoveAtFacts ==
  ASSUME NEW S, NEW s \in Seq(S), NEW k \in 1..Len(s)
  PROVE  /\ RemoveAt(s, k) \in Seq(S)
         /\ Len(RemoveAt(s, k)) = Len(s) - 1
         /\ \A i \in 1..Len(s) - 1 :
              RemoveAt(s, k)[i] = IF i < k THEN s[i] ELSE s[i + 1]
<1> DEFINE l == SubSeq(s, 1, k - 1)
           r == SubSeq(s, k + 1, Len(s))
<1>1. l \in Seq(S) /\ Len(l) = k - 1 /\ \A i \in 1..k - 1 : l[i] = s[i]
  OBVIOUS
<1>2. r \in Seq(S) /\ Len(r) = Len(s) - k /\ \A i \in 1..Len(s) - k : r[i] = s[k + i]
  OBVIOUS
<1>3. RemoveAt(s, k) = l \o r
  BY DEF RemoveAt
<1> HIDE DEF l, r
<1>4. /\ l \o r \in Seq(S)
      /\ Len(l \o r) = Len(l) + Len(r)
      /\ \A i \in 1..Len(l) + Len(r) :
           (l \o r)[i] = IF i <= Len(l) THEN l[i] ELSE r[i - Len(l)]
  BY <1>1, <1>2, ConcatProperties
<1>5. ASSUME NEW i \in 1..Len(s) - 1
      PROVE  (l \o r)[i] = IF i < k THEN s[i] ELSE s[i + 1]
  <2>1. CASE i < k
    BY <1>1, <1>2, <1>4, <2>1
  <2>2. CASE ~(i < k)
    <3> DEFINE j == i - Len(l)
    <3>1. j \in 1..Len(s) - k /\ k + j = i + 1
      BY <1>1, <2>2
    <3>2. (l \o r)[i] = r[j]
      BY <1>1, <1>2, <1>4, <2>2
    <3> HIDE DEF j
    <3> QED BY <2>2, <3>1, <3>2, <1>2
  <2> QED BY <2>1, <2>2
<1> QED BY <1>1, <1>2, <1>3, <1>4, <1>5

LEMMA ConcatFacts ==
  ASSUME NEW S, NEW s \in Seq(S), NEW t \in Seq(S), NEW n \in Nat, Len(t) = n
  PROVE  /\ s \o t \in Seq(S)
         /\ Len(s \o t) = Len(s) + n
         /\ \A i \in 1..Len(s) + n :
              (s \o t)[i] = IF i <= Len(s) THEN s[i] ELSE t[i - Len(s)]
BY ConcatProperties

\* What the steps of the threads and the list leave alone.
scanVars == <<wpc, wit, extraWorkList, extraWorkMutex, mode>>

LEMMA ScanFrame == ASSUME ScanInv, UNCHANGED scanVars PROVE ScanInv'
BY DEF ScanInv, scanVars, Last

\* Only these actions touch the list, its mutex, the workers' place or the mode.
LEMMA ScanStep ==
  ASSUME TypeOK, ScanInv, [Next]_vars PROVE ScanInv'
<1> USE ConstantsAssumption
<1>1. ASSUME NEW d \in Ops, NEW t, NEW a, NEW fd, NEW blocks, mode = "run",
             PushWork(d, t, a, fd, blocks), UNCHANGED <<wpc, wit, mode>>
      PROVE  ScanInv'
  BY <1>1 DEF PushWork, ScanInv, TypeOK, Last
<1>2. ASSUME NEW w \in Workers, WorkerWake(w) PROVE ScanInv'
  BY <1>2 DEF WorkerWake, Goto, mainVars, ScanInv, TypeOK, Last
<1>3. ASSUME NEW w \in Workers, WorkerLock(w) PROVE ScanInv'
  BY <1>3 DEF WorkerLock, Goto, mainVars, ScanInv, TypeOK, Last
<1>4. ASSUME NEW w \in Workers, NEW d \in Ops, WorkerTake(w, d) PROVE ScanInv'
  <2>1. /\ wpc[w] = "scan" /\ extraWorkMutex = w /\ wit[w] \in 1..Len(extraWorkList)
        /\ extraWorkList[wit[w]] = d
    BY <1>4 DEF WorkerTake, Scanned, ScanInv, TypeOK
  <2>2. /\ extraWorkList' \in Seq(Ops \cup {QUIT})
        /\ Len(extraWorkList') = Len(extraWorkList) - 1
        /\ \A i \in 1..Len(extraWorkList) - 1 :
             extraWorkList'[i] = IF i < wit[w] THEN extraWorkList[i] ELSE extraWorkList[i + 1]
    BY <1>4, <2>1, RemoveAtFacts DEF WorkerTake, TypeOK
  <2>3. mode' = mode /\ wpc' = [wpc EXCEPT ![w] = "io"] /\ extraWorkMutex' = NULL
          /\ wit' = [wit EXCEPT ![w] = 1]
    BY <1>4 DEF WorkerTake, Goto, Rewind, mainVars
  <2>4. \A v \in Workers : wpc'[v] # "scan" /\ wit'[v] = 1
    BY <2>1, <2>3 DEF ScanInv, TypeOK
  <2>5. ASSUME NEW i \in DOMAIN extraWorkList', extraWorkList'[i] = QUIT
        PROVE  i = Len(extraWorkList') /\ mode' = "join"
    <3>1. i \in 1..Len(extraWorkList) - 1
      BY <2>1, <2>2
    <3>2. /\ i \in 1..Len(extraWorkList) /\ i + 1 \in 1..Len(extraWorkList)
          /\ \A j \in 1..Len(extraWorkList) :
               extraWorkList[j] = QUIT => j = Len(extraWorkList) /\ mode = "join"
      BY <3>1 DEF ScanInv, TypeOK
    <3>3. CASE i < wit[w]
      BY <2>1, <2>2, <2>3, <2>5, <3>1, <3>2, <3>3
    <3>4. CASE ~(i < wit[w])
      BY <2>1, <2>2, <2>3, <2>5, <3>1, <3>2, <3>4
    <3> QED BY <3>3, <3>4
  <2>6. mode' = "join" => extraWorkList' # <<>> /\ Last(extraWorkList') = QUIT
    <3> SUFFICES ASSUME mode = "join" PROVE extraWorkList' # <<>> /\ Last(extraWorkList') = QUIT
      BY <2>3
    <3>1. Len(extraWorkList) # 0 /\ extraWorkList[Len(extraWorkList)] = QUIT
      BY DEF ScanInv, Last, TypeOK
    <3>2. wit[w] < Len(extraWorkList)
      BY <2>1, <3>1 DEF TypeOK
    <3>3. Len(extraWorkList) - 1 \in 1..Len(extraWorkList) - 1
      BY <2>1, <3>2 DEF TypeOK
    <3>4. extraWorkList'[Len(extraWorkList) - 1] = QUIT
      BY <2>1, <2>2, <3>1, <3>2, <3>3
    <3> QED BY <2>2, <3>3, <3>4 DEF Last
  <2>7. \A v \in Workers : wpc'[v] = "out" =>
          mode' # "run" /\ (mode' = "join" => Len(extraWorkList') = 1)
    <3> SUFFICES ASSUME NEW v \in Workers, wpc'[v] = "out", mode = "join" PROVE FALSE
      BY <2>3 DEF ScanInv, TypeOK
    <3>1. Len(extraWorkList) = 1 /\ extraWorkList[1] = QUIT
      BY <2>3, <2>1 DEF ScanInv, Last, TypeOK
    <3> QED BY <2>1, <3>1 DEF TypeOK
  <2> QED BY <2>1, <2>3, <2>4, <2>5, <2>6, <2>7 DEF ScanInv
<1>5. ASSUME NEW w \in Workers, NEW d \in Ops, WorkerSkip(w, d) PROVE ScanInv'
  <2>1. wpc[w] = "scan" /\ extraWorkMutex = w /\ wit[w] \in DOMAIN extraWorkList
    BY <1>5 DEF WorkerSkip, ScanInv
  <2>2. mode' = mode /\ extraWorkList' = extraWorkList
    BY <1>5 DEF WorkerSkip, mainVars
  <2>3. CASE wit[w] < Len(extraWorkList)
    <3>1. wpc' = wpc /\ extraWorkMutex' = extraWorkMutex
            /\ wit' = [wit EXCEPT ![w] = @ + 1]
      BY <1>5, <2>3 DEF WorkerSkip
    <3> QED BY <2>1, <2>2, <2>3, <3>1 DEF ScanInv, TypeOK, Last
  <2>4. CASE ~(wit[w] < Len(extraWorkList))
    <3>1. wpc' = [wpc EXCEPT ![w] = "wait"] /\ extraWorkMutex' = NULL
            /\ wit' = [wit EXCEPT ![w] = 1]
      BY <1>5, <2>4 DEF WorkerSkip, Goto, Rewind
    <3> QED BY <2>1, <2>2, <3>1 DEF ScanInv, TypeOK, Last
  <2> QED BY <2>3, <2>4
<1>6. ASSUME NEW w \in Workers, WorkerQuit(w) PROVE ScanInv'
  BY <1>6 DEF WorkerQuit, QuitLeft, Goto, Rewind, Scanned, mainVars, ScanInv, TypeOK, Last
<1>7. ASSUME NEW w \in Workers,
             \/ WorkerReadWrite(w) \/ WorkerClose(w) \/ WorkerUnlock(w) \/ WorkerPost(w)
             \/ \E fd \in Fds \cup {NULL} : WorkerOpen(w, fd)
      PROVE ScanInv'
  <2>1. /\ wpc[w] # "scan"
        /\ \E pc \in {"unlock", "post", "lock"} : wpc' = [wpc EXCEPT ![w] = pc]
        /\ UNCHANGED <<wit, extraWorkList, extraWorkMutex, mode>>
    BY <1>7 DEF WorkerReadWrite, WorkerClose, WorkerUnlock, WorkerPost, WorkerOpen, Goto,
                listVars, mainVars
  <2> QED BY <2>1 DEF ScanInv, TypeOK, Last
<1>8. CASE UninitBegin
  BY <1>8 DEF UninitBegin, workerVars, ScanInv, TypeOK, Last
<1>9. CASE UninitJoin
  BY <1>9 DEF UninitJoin, workerVars, ScanInv, TypeOK, Last
<1>10. CASE UninitClosePort
  BY <1>10 DEF UninitClosePort, workerVars, listVars, ScanInv, TypeOK, Last
<1>11. CASE AppNext
  <2>1. CASE \E f \in Files, a \in Aops, d \in Ops : FileOpenAsync(f, a, d)
    BY <1>1, <2>1 DEF FileOpenAsync, workerVars, mainVars
  <2>2. CASE \E f \in Files, d \in Ops : FileReadWrite(f, d) \/ FileCloseAsync(f, d)
    BY <1>1, <2>2 DEF FileReadWrite, FileCloseAsync, workerVars, mainVars
  <2>3. CASE UNCHANGED scanVars
    BY <2>3, ScanFrame
  <2> QED
    BY <1>11, <2>1, <2>2, <2>3
       DEF AppNext, FileOpenSync, FileCloseSync, FileDestroyUnopened, SockOpen, SockPost,
           SockClose, listVars, workerVars, mainVars, scanVars
<1>12. CASE EvNext \/ DriveNext \/ Terminated \/ UNCHANGED vars
  BY <1>12, ScanFrame
     DEF EvNext, CallbackEvIo, CallbackEvAccept, DriveNext, DriveKeyless, DriveCancelled,
         DriveReadWrite, DriveOpen, DriveClose, FinishClose, DriveDisconnect, DriveAccept,
         CallbackRan, Terminated, listVars, workerVars, mainVars, vars, scanVars
<1> QED
  BY <1>2, <1>3, <1>4, <1>5, <1>6, <1>7, <1>8, <1>9, <1>10, <1>11, <1>12
     DEF Next, UninitNext, WorkerNext

-----------------------------------------------------------------------------
(* The ready queue.                                                        *)

LEMMA ReadyAppend ==
  ASSUME NEW events \in Seq(EventType), NEW places \in [Ops -> Places],
         InReady(events, places),
         NEW d \in Ops, places[d] # "ready", NEW ck \in Aops \cup {NULL}
  PROVE  /\ Append(events, Event(d, ck)) \in Seq(EventType)
         /\ InReady(Append(events, Event(d, ck)), [places EXCEPT ![d] = "ready"])
<1> DEFINE e == Event(d, ck)
           more == Append(events, e)
<1>1. e \in EventType /\ e.op = d
  BY DEF Event, EventType
<1> HIDE DEF e
<1>2. /\ more \in Seq(EventType) /\ Len(more) = Len(events) + 1
      /\ more[Len(events) + 1] = e
      /\ \A i \in 1..Len(events) : more[i] = events[i] /\ events[i].op # d
  BY <1>1 DEF InReady
<1>3. ASSUME NEW i \in 1..Len(events) PROVE events[i].op \in Ops
  <2>1. events[i] \in EventType
    OBVIOUS
  <2> QED BY <2>1 DEF EventType
<1> HIDE DEF more
<1>4. InReady(more, [places EXCEPT ![d] = "ready"])
  BY <1>1, <1>2, <1>3 DEF InReady, Places
<1> QED BY <1>2, <1>4 DEF more, e

LEMMA ReadyTail ==
  ASSUME NEW events \in Seq(EventType), NEW places \in [Ops -> Places],
         InReady(events, places), events # <<>>, NEW p \in Places
  PROVE  /\ Tail(events) \in Seq(EventType)
         /\ Head(events) \in EventType
         /\ places[Head(events).op] = "ready"
         /\ InReady(Tail(events), [places EXCEPT ![Head(events).op] = p])
<1> DEFINE rest == Tail(events)
<1>1. /\ rest \in Seq(EventType) /\ Len(rest) = Len(events) - 1
      /\ Head(events) = events[1] /\ events[1] \in EventType /\ Len(events) >= 1
      /\ \A i \in 1..Len(rest) : rest[i] = events[i + 1] /\ events[i + 1] \in EventType
  OBVIOUS
<1> HIDE DEF rest
<1>2. ASSUME NEW i \in 1..Len(rest)
      PROVE  rest[i].op # events[1].op /\ places[rest[i].op] = "ready" /\ rest[i].op \in Ops
  <2>1. i + 1 \in DOMAIN events /\ 1 \in DOMAIN events /\ i + 1 # 1
    BY <1>1
  <2> QED BY <1>1, <2>1 DEF InReady, EventType
<1>3. ASSUME NEW i \in 1..Len(rest), NEW j \in 1..Len(rest), rest[i].op = rest[j].op
      PROVE  i = j
  <2>1. i + 1 \in DOMAIN events /\ j + 1 \in DOMAIN events
    BY <1>1
  <2>2. events[i + 1].op = events[j + 1].op
    BY <1>1, <1>3
  <2>3. i + 1 = j + 1
    BY <2>1, <2>2 DEF InReady
  <2> QED BY <2>3
<1>4. InReady(rest, [places EXCEPT ![Head(events).op] = p])
  <2>1. DOMAIN rest = 1..Len(rest)
    BY <1>1
  <2> QED BY <1>1, <1>2, <1>3, <2>1 DEF InReady
<1>5. places[Head(events).op] = "ready"
  BY <1>1 DEF InReady
<1> QED BY <1>1, <1>4, <1>5 DEF rest

\* Completions of a sequence of distinct operations that were not ready.
LEMMA ReadyConcat ==
  ASSUME NEW events \in Seq(EventType), NEW places \in [Ops -> Places],
         InReady(events, places),
         NEW n \in Nat, NEW more \in [1..n -> EventType],
         \A i \in 1..n : places[more[i].op] # "ready",
         \A i, j \in 1..n : more[i].op = more[j].op => i = j,
         NEW after \in [Ops -> Places],
         \A d \in Ops : places[d] = "ready" => after[d] = "ready",
         \A i \in 1..n : after[more[i].op] = "ready"
  PROVE  /\ events \o more \in Seq(EventType)
         /\ Len(events \o more) = Len(events) + n
         /\ \A i \in 1..Len(events) + n :
              (events \o more)[i] = IF i <= Len(events) THEN events[i] ELSE more[i - Len(events)]
         /\ InReady(events \o more, after)
<1>1. more \in Seq(EventType) /\ Len(more) = n
  OBVIOUS
<1> DEFINE all == events \o more
<1>2. /\ all \in Seq(EventType) /\ Len(all) = Len(events) + n
      /\ \A i \in 1..Len(events) + n :
           all[i] = IF i <= Len(events) THEN events[i] ELSE more[i - Len(events)]
  BY <1>1, ConcatFacts
<1> HIDE DEF all
<1>3. ASSUME NEW i \in 1..Len(events) + n, ~(i <= Len(events))
      PROVE  i - Len(events) \in 1..n
  BY <1>3
<1>4. \A i \in 1..Len(events) + n : all[i].op \in Ops /\ after[all[i].op] = "ready"
  <2> TAKE i \in 1..Len(events) + n
  <2>1. CASE i <= Len(events)
    <3>1. i \in DOMAIN events /\ events[i] \in EventType /\ all[i] = events[i]
      BY <1>2, <2>1
    <3> QED BY <3>1 DEF InReady, EventType
  <2>2. CASE ~(i <= Len(events))
    BY <1>2, <1>3, <2>2 DEF EventType
  <2> QED BY <2>1, <2>2
<1>5. ASSUME NEW i \in 1..Len(events) + n, NEW j \in 1..Len(events) + n,
             all[i].op = all[j].op
      PROVE  i = j
  <2>1. CASE i <= Len(events) /\ j <= Len(events)
    BY <1>2, <1>5, <2>1 DEF InReady
  <2>2. CASE i <= Len(events) /\ ~(j <= Len(events))
    BY SMTT(60), <1>2, <1>3, <1>5, <2>2 DEF InReady
  <2>3. CASE ~(i <= Len(events)) /\ j <= Len(events)
    BY <1>2, <1>3, <1>5, <2>3 DEF InReady
  <2>4. CASE ~(i <= Len(events)) /\ ~(j <= Len(events))
    <3>1. i - Len(events) = j - Len(events)
      BY <1>2, <1>3, <1>5, <2>4
    <3> QED BY <3>1
  <2> QED BY <2>1, <2>2, <2>3, <2>4
<1>6. InReady(all, after)
  BY <1>2, <1>4, <1>5 DEF InReady
<1> QED BY <1>2, <1>6 DEF all

\* What detach does, in terms of the places: the operations that waited on the
\* descriptor become ready under the key the port had for it.
Dropped(d, fd) == place[d] = "pend" /\ fd # NULL /\ data[d].handle = fd

DetachOutcome(a, blocks, ready, places) ==
  /\ ao' = [blocks EXCEPT ![a] = DetachedBlock(blocks[a])]
  /\ ao' \in [Aops -> BlockType]
  /\ completeKey' \in [Fds -> Aops \cup {NULL}]
  /\ \A g \in Fds : completeKey'[g] \in {NULL, completeKey[g]}
  /\ place' \in [Ops -> Places]
  /\ \A d \in Ops : place'[d] = IF Dropped(d, blocks[a].handle) THEN "ready" ELSE places[d]
  /\ readyEvents' \in Seq(EventType)
  /\ InReady(readyEvents', place')
  /\ \A i \in DOMAIN readyEvents' :
       \/ i \in DOMAIN ready /\ readyEvents'[i] = ready[i]
       \/ /\ Dropped(readyEvents'[i].op, blocks[a].handle)
          /\ readyEvents'[i].op \in Ops
          /\ readyEvents'[i].ck = completeKey[data[readyEvents'[i].op].handle]

\* Nothing gets lost: the events stay, and each dropped operation has one of its own.
DetachFinds(a, blocks, ready) ==
  /\ \A i \in DOMAIN ready : i \in DOMAIN readyEvents' /\ readyEvents'[i] = ready[i]
  /\ \A d \in Ops : Dropped(d, blocks[a].handle) =>
       \E i \in DOMAIN readyEvents' : readyEvents'[i].op = d
  /\ completeKey' = [g \in Fds |-> IF g = blocks[a].handle THEN NULL ELSE completeKey[g]]

LEMMA DetachEffect ==
  ASSUME TypeOK,
         NEW a \in Aops, NEW blocks \in [Aops -> BlockType],
         NEW ready \in Seq(EventType), NEW places \in [Ops -> Places],
         InReady(ready, places),
         \A d \in Ops : place[d] = "pend" => places[d] = "pend",
         Detach(a, blocks, ready, places)
  PROVE  DetachOutcome(a, blocks, ready, places) /\ DetachFinds(a, blocks, ready)
<1> DEFINE fd == blocks[a].handle
           cut == IF fd = NULL THEN {} ELSE PendingOn(fd)
           ck == IF fd = NULL THEN NULL ELSE completeKey[fd]
           n == Cardinality(cut)
<1>1. blocks[a] \in BlockType /\ fd \in Fds \cup {NULL} /\ DetachedBlock(blocks[a]) \in BlockType
  BY DEF BlockType, DetachedBlock, FreeBlock
<1>2. cut \subseteq Ops /\ n \in Nat
  <2>1. cut \subseteq Ops
    BY DEF PendingOn
  <2> HIDE DEF cut
  <2> QED BY <2>1, ConstantsAssumption, FS_Subset, FS_CardinalityType DEF ConstantsAssumption
<1>3. ck \in Aops \cup {NULL}
  BY <1>1 DEF TypeOK
<1>4. \A d \in Ops : d \in cut <=> Dropped(d, fd)
  BY DEF Dropped, PendingOn
<1>5. /\ ao' = [blocks EXCEPT ![a] = DetachedBlock(blocks[a])]
      /\ completeKey' = [g \in Fds |-> IF g = fd THEN NULL ELSE completeKey[g]]
      /\ place' = [d \in Ops |-> IF d \in cut THEN "ready" ELSE places[d]]
      /\ \E order \in SetToSeqs(cut) :
           readyEvents' = ready \o [i \in DOMAIN order |-> Event(order[i], ck)]
  BY DEF Detach
<1>6. PICK order \in SetToSeqs(cut) :
           readyEvents' = ready \o [i \in DOMAIN order |-> Event(order[i], ck)]
  BY <1>5
<1>7. /\ order \in [1..n -> cut] /\ DOMAIN order = 1..n
      /\ \A i, j \in 1..n : order[i] = order[j] => i = j
  BY <1>6 DEF SetToSeqs
<1>18. \A d \in cut : \E i \in 1..n : order[i] = d
  <2> HIDE DEF cut
  <2>1. IsFiniteSet(cut)
    BY <1>2, ConstantsAssumption, FS_Subset DEF ConstantsAssumption
  <2>2. Cardinality(1..n) = n
    BY <1>2, FS_Interval
  <2>3. order \in Injection(1..n, cut)
    BY <1>7 DEF Injection, IsInjective
  <2>4. order \in Surjection(1..n, cut)
    BY <2>1, <2>2, <2>3, FS_Injection DEF n
  <2> QED BY <2>4 DEF Surjection
<1> HIDE DEF n, ck
<1> DEFINE more == [i \in 1..n |-> Event(order[i], ck)]
<1>8. /\ more \in [1..n -> EventType]
      /\ \A i \in 1..n : more[i].op = order[i] /\ more[i].ck = ck /\ order[i] \in cut
  BY <1>2, <1>3, <1>7 DEF Event, EventType
<1>9. readyEvents' = ready \o more
  BY <1>6, <1>7
<1>10. place' \in [Ops -> Places]
         /\ \A d \in Ops : place'[d] = IF d \in cut THEN "ready" ELSE places[d]
  BY <1>5 DEF Places
<1> HIDE DEF more, cut
<1>11. \A i \in 1..n : places[more[i].op] # "ready" /\ place'[more[i].op] = "ready"
  BY <1>2, <1>4, <1>7, <1>8, <1>10 DEF Dropped
<1>12. \A i, j \in 1..n : more[i].op = more[j].op => i = j
  BY <1>7, <1>8
<1>13. \A d \in Ops : places[d] = "ready" => place'[d] = "ready"
  BY <1>10
<1>14. /\ readyEvents' \in Seq(EventType)
       /\ Len(readyEvents') = Len(ready) + n
       /\ \A i \in 1..Len(ready) + n :
            readyEvents'[i] = IF i <= Len(ready) THEN ready[i] ELSE more[i - Len(ready)]
       /\ InReady(readyEvents', place')
  <2>1. more \in [1..n -> EventType] /\ n \in Nat /\ place' \in [Ops -> Places]
    BY <1>2, <1>8, <1>10
  <2> HIDE DEF EventType
  <2>2. /\ ready \o more \in Seq(EventType)
        /\ Len(ready \o more) = Len(ready) + n
        /\ \A i \in 1..Len(ready) + n :
             (ready \o more)[i] = IF i <= Len(ready) THEN ready[i] ELSE more[i - Len(ready)]
        /\ InReady(ready \o more, place')
    BY <1>11, <1>12, <1>13, <2>1, ReadyConcat
  <2> QED BY <1>9, <2>2
<1>15. ASSUME NEW i \in DOMAIN readyEvents'
       PROVE  \/ i \in DOMAIN ready /\ readyEvents'[i] = ready[i]
              \/ /\ Dropped(readyEvents'[i].op, fd)
                 /\ readyEvents'[i].op \in Ops
                 /\ readyEvents'[i].ck = completeKey[data[readyEvents'[i].op].handle]
  <2>1. i \in 1..Len(ready) + n
    BY <1>14
  <2>2. CASE i <= Len(ready)
    BY <1>14, <2>1, <2>2
  <2>3. CASE ~(i <= Len(ready))
    <3> DEFINE k == i - Len(ready)
    <3>1. k \in 1..n /\ readyEvents'[i] = more[k]
      BY <1>2, <1>14, <2>1, <2>3
    <3> HIDE DEF k
    <3>2. more[k].op \in cut /\ more[k].op \in Ops /\ more[k].ck = ck
      BY <1>2, <1>8, <3>1
    <3> QED BY <1>4, <3>1, <3>2 DEF ck, Dropped
  <2> QED BY <2>2, <2>3
<1>16. ao' \in [Aops -> BlockType]
  BY <1>1, <1>5
<1>17. /\ completeKey' \in [Fds -> Aops \cup {NULL}]
       /\ \A g \in Fds : completeKey'[g] \in {NULL, completeKey[g]}
  BY <1>5 DEF TypeOK
<1>19. \A i \in DOMAIN ready : i \in DOMAIN readyEvents' /\ readyEvents'[i] = ready[i]
  BY <1>2, <1>14
<1>20. ASSUME NEW d \in Ops, Dropped(d, fd)
       PROVE  \E i \in DOMAIN readyEvents' : readyEvents'[i].op = d
  <2>1. PICK k \in 1..n : order[k] = d
    BY <1>4, <1>18, <1>20
  <2>2. Len(ready) + k \in 1..Len(ready) + n /\ ~(Len(ready) + k <= Len(ready))
        /\ (Len(ready) + k) - Len(ready) = k
    BY <1>2, <2>1
  <2>3. readyEvents'[Len(ready) + k] = more[k] /\ Len(ready) + k \in DOMAIN readyEvents'
    BY <1>14, <2>2
  <2> QED BY <1>8, <2>1, <2>3
<1> QED
  BY <1>4, <1>5, <1>10, <1>14, <1>15, <1>16, <1>17, <1>19, <1>20
     DEF DetachOutcome, DetachFinds

-----------------------------------------------------------------------------
(* Type correctness.                                                       *)

LEMMA BlockTypes ==
  /\ FreeBlock \in BlockType
  /\ \A o \in Objs, fd \in Fds \cup {NULL}, m \in {"none", "free"} :
       NewBlock(o, fd, m) \in BlockType
  /\ \A b \in BlockType :
       /\ DetachedBlock(b) \in BlockType /\ Spent(b) \in BlockType
       /\ [b EXCEPT !.opCount = b.opCount + 1] \in BlockType
       /\ [b EXCEPT !.opCount = b.opCount - 1] \in BlockType
       /\ \A m \in {"none", "free"} \cup Workers : [b EXCEPT !.fileOpMutex = m] \in BlockType
       /\ \A fd \in Fds \cup {NULL} : [b EXCEPT !.handle = fd, !.fileOpMutex = "free"] \in BlockType
<1>1. FreeBlock \in BlockType
  BY DEF BlockType, FreeBlock
<1>2. ASSUME NEW o \in Objs, NEW fd \in Fds \cup {NULL}, NEW m \in {"none", "free"}
      PROVE  NewBlock(o, fd, m) \in BlockType
  BY DEF BlockType, NewBlock
<1>3. ASSUME NEW b \in BlockType
      PROVE  DetachedBlock(b) \in BlockType /\ Spent(b) \in BlockType
  BY <1>1 DEF BlockType, DetachedBlock, Spent
<1>4. ASSUME NEW b \in BlockType
      PROVE  [b EXCEPT !.opCount = b.opCount + 1] \in BlockType
               /\ [b EXCEPT !.opCount = b.opCount - 1] \in BlockType
  BY DEF BlockType
<1>5. ASSUME NEW b \in BlockType, NEW m \in {"none", "free"} \cup Workers
      PROVE  [b EXCEPT !.fileOpMutex = m] \in BlockType
  BY DEF BlockType
<1>6. ASSUME NEW b \in BlockType, NEW fd \in Fds \cup {NULL}
      PROVE  [b EXCEPT !.handle = fd, !.fileOpMutex = "free"] \in BlockType
  BY DEF BlockType
<1> QED BY <1>1, <1>2, <1>3, <1>4, <1>5, <1>6

LEMMA NewDataType ==
  ASSUME NEW t \in OpTypes, NEW a \in Aops, NEW fd \in Fds \cup {NULL}
  PROVE  NewData(t, a, fd) \in DataType /\ NoData \in DataType
BY DEF NewData, NoData, DataType, OpTypes, FileTypes

\* What every step of driveEngine starts from.
LEMMA DriveFacts ==
  ASSUME IInv, Drives
  PROVE  /\ Done \in Ops /\ place[Done] = "ready" /\ data[Done].aop \in Aops
         /\ ao[data[Done].aop].alloc
         /\ Key \in {NULL, data[Done].aop}
         /\ Tail(readyEvents) \in Seq(EventType)
         /\ \A p \in Places :
              /\ [place EXCEPT ![Done] = p] \in [Ops -> Places]
              /\ InReady(Tail(readyEvents), [place EXCEPT ![Done] = p])
         /\ \A i \in DOMAIN Tail(readyEvents) :
              /\ i + 1 \in DOMAIN readyEvents
              /\ Tail(readyEvents)[i] = readyEvents[i + 1]
              /\ Tail(readyEvents)[i].op # Done
<1>1. /\ readyEvents \in Seq(EventType) /\ readyEvents # <<>>
      /\ place \in [Ops -> Places] /\ InReady(readyEvents, place)
  BY DEF Drives, IInv, TypeOK, PlaceInv
<1>2. /\ Tail(readyEvents) \in Seq(EventType)
      /\ Head(readyEvents) \in EventType /\ Head(readyEvents) = readyEvents[1]
      /\ 1 \in DOMAIN readyEvents
      /\ \A i \in DOMAIN Tail(readyEvents) :
           i + 1 \in DOMAIN readyEvents /\ Tail(readyEvents)[i] = readyEvents[i + 1] /\ i + 1 # 1
  BY <1>1
<1>3. Done \in Ops /\ Key \in Aops \cup {NULL}
  BY <1>2 DEF EventType, Done, Key
<1>4. place[Done] = "ready"
  BY <1>1, <1>2 DEF InReady, Done
<1>5. Key \in {NULL, data[Done].aop}
  BY <1>2 DEF IInv, KeyInv, PendingRight, SocketRight, Done, Key
<1>6. data[Done].aop \in Aops /\ ao[data[Done].aop].alloc
  BY <1>3, <1>4 DEF IInv, BlockInv, AttachedBlock, PostedBlock, BlockOutlivesOps
<1>7. ASSUME NEW p \in Places
      PROVE  /\ [place EXCEPT ![Done] = p] \in [Ops -> Places]
             /\ InReady(Tail(readyEvents), [place EXCEPT ![Done] = p])
  <2>1. InReady(Tail(readyEvents), [place EXCEPT ![Head(readyEvents).op] = p])
    BY <1>1, ReadyTail
  <2> QED BY <1>1, <1>3, <2>1 DEF Done
<1>8. ASSUME NEW i \in DOMAIN Tail(readyEvents) PROVE Tail(readyEvents)[i].op # Done
  BY <1>1, <1>2 DEF InReady, Done
<1> QED BY <1>2, <1>3, <1>4, <1>5, <1>6, <1>7, <1>8

LEMMA PushWorkType ==
  ASSUME TypeOK, NEW d \in Ops, NEW t \in OpTypes, NEW a \in Aops,
         NEW fd \in Fds \cup {NULL}, NEW blocks \in [Aops -> BlockType],
         PushWork(d, t, a, fd, blocks)
  PROVE  /\ place' \in [Ops -> Places] /\ data' \in [Ops -> DataType]
         /\ extraWorkList' \in Seq(Ops \cup {QUIT}) /\ extraWorkSignal' \in BOOLEAN
         /\ extraWorkMutex' \in Workers \cup {NULL} /\ ao' \in [Aops -> BlockType]
<1>1. NewData(t, a, fd) \in DataType
  BY NewDataType
<1>2. [blocks[a] EXCEPT !.opCount = blocks[a].opCount + 1] \in BlockType
  BY BlockTypes
<1>3. ao' \in [Aops -> BlockType]
  BY <1>2 DEF PushWork, CountUp
<1> QED BY <1>1, <1>3 DEF PushWork, TypeOK, Places

\* detach from the state as it is.
LEMMA DetachNow ==
  ASSUME TypeOK, PlaceInv, NEW a \in Aops, Detach(a, ao, readyEvents, place)
  PROVE  DetachOutcome(a, ao, readyEvents, place) /\ DetachFinds(a, ao, readyEvents)
<1>1. /\ ao \in [Aops -> BlockType] /\ readyEvents \in Seq(EventType)
      /\ place \in [Ops -> Places] /\ InReady(readyEvents, place)
  BY DEF TypeOK, PlaceInv
<1> QED BY <1>1, DetachEffect

\* An operation that waits in the port belongs to an attached socket.
LEMMA PendFacts ==
  ASSUME IInv, NEW d \in Ops, place[d] = "pend"
  PROVE  \E s \in Socks :
           /\ data[d].aop \in Aops /\ aopOf[s] = data[d].aop
           /\ ao[data[d].aop].alloc /\ ~ao[data[d].aop].isCancel /\ ao[data[d].aop].obj = s
           /\ data[d].handle = handleOf[s] /\ data[d].handle \in Fds
           /\ fdOwner[data[d].handle] = data[d].aop
           /\ completeKey[data[d].handle] \in {NULL, data[d].aop}
<1>1. Live(d) /\ data[d].aop \in Aops /\ ao[data[d].aop].alloc
  BY DEF IInv, BlockInv, AttachedBlock, PostedBlock, BlockOutlivesOps, Live
<1>2. /\ data[d].type \in SockTypes /\ ~BlockOf(d).isCancel
      /\ data[d].handle = BlockOf(d).handle
  BY DEF IInv, KeyInv, PendingRight, SocketRight
<1>3. data[d].type \notin FileTypes
  BY <1>2 DEF SockTypes, FileTypes
<1>4. BlockOf(d).obj \in Socks /\ aopOf[BlockOf(d).obj] = data[d].aop
  BY <1>1, <1>2, <1>3 DEF IInv, BlockInv, AttachedBlock, PostedBlock, BlockOf, TypeOK,
                          BlockType, Objs
<1>5. data[d].aop # NULL
  BY <1>1, ConstantsAssumption DEF ConstantsAssumption
<1>6. /\ handleOf[BlockOf(d).obj] \in Fds /\ handleOf[BlockOf(d).obj] = BlockOf(d).handle
      /\ fdOwner[handleOf[BlockOf(d).obj]] = data[d].aop
      /\ completeKey[handleOf[BlockOf(d).obj]] \in {NULL, data[d].aop}
  BY <1>4, <1>5 DEF IInv, KeyInv, PendingRight, SocketRight, BlockOf
<1> QED BY <1>1, <1>2, <1>4, <1>6 DEF BlockOf

\* What the worker that finds the quit entry makes of the entries in front of it.
QuitOutcome ==
  /\ extraWorkList' = <<QUIT>> /\ extraWorkList' \in Seq(Ops \cup {QUIT})
  /\ place' \in [Ops -> Places]
  /\ \A d \in Ops : \/ place'[d] = place[d]
                    \/ place[d] = "queued" /\ place'[d] = "ready"
  /\ readyEvents' \in Seq(EventType)
  /\ InReady(readyEvents', place')
  /\ \A i \in DOMAIN readyEvents' :
       \/ i \in DOMAIN readyEvents /\ readyEvents'[i] = readyEvents[i]
       \/ readyEvents'[i].op \in Ops /\ readyEvents'[i].ck = data[readyEvents'[i].op].aop

QuitFinds ==
  /\ \A i \in DOMAIN readyEvents :
       i \in DOMAIN readyEvents' /\ readyEvents'[i] = readyEvents[i]
  /\ \A d \in Ops : place'[d] # place[d] =>
       \E i \in DOMAIN readyEvents' : readyEvents'[i].op = d
  /\ \A i \in DOMAIN extraWorkList :
       extraWorkList[i] # QUIT => place'[extraWorkList[i]] = "ready"

LEMMA QuitEffect ==
  ASSUME IInv, NEW w \in Workers, WorkerQuit(w)
  PROVE  QuitOutcome /\ QuitFinds
<1>1. /\ TypeOK /\ PlaceInv /\ readyEvents \in Seq(EventType) /\ place \in [Ops -> Places]
      /\ InReady(readyEvents, place) /\ extraWorkList \in Seq(Ops \cup {QUIT})
  BY DEF IInv, TypeOK, PlaceInv
<1>2. /\ wit[w] \in 1..Len(extraWorkList) /\ extraWorkList[wit[w]] = QUIT
      /\ wit[w] = Len(extraWorkList)
  BY <1>1 DEF WorkerQuit, Scanned, IInv, ScanInv
<1> DEFINE n == Len(extraWorkList) - 1
           cancelled == Front(extraWorkList)
           more == [i \in 1..n |-> Event(cancelled[i], data[cancelled[i]].aop)]
<1>3. /\ n \in Nat /\ cancelled \in Seq(Ops \cup {QUIT}) /\ Len(cancelled) = n
      /\ \A i \in 1..n : cancelled[i] = extraWorkList[i] /\ i \in DOMAIN extraWorkList
  <2>1. n \in Nat /\ n + 1 = Len(extraWorkList) /\ cancelled = SubSeq(extraWorkList, 1, n)
    BY <1>1, <1>2 DEF Front
  <2> HIDE DEF n, cancelled
  <2>2. \A i \in 1..n : i \in 1..Len(extraWorkList) /\ i \in DOMAIN extraWorkList
    BY <1>1, <2>1
  <2>3. \A i \in 1..n : extraWorkList[i] \in Ops \cup {QUIT}
    BY <1>1, <2>2
  <2>4. /\ SubSeq(extraWorkList, 1, n) \in Seq(Ops \cup {QUIT})
        /\ Len(SubSeq(extraWorkList, 1, n)) = n
        /\ \A i \in 1..n : SubSeq(extraWorkList, 1, n)[i] = extraWorkList[i]
    BY <1>1, <2>1, <2>3, SubSeqProperties
  <2> QED BY <2>1, <2>2, <2>4
<1>4. \A i \in 1..n : cancelled[i] \in Ops /\ place[cancelled[i]] = "queued"
  <2> TAKE i \in 1..n
  <2>1. i # wit[w] /\ wit[w] \in DOMAIN extraWorkList
    BY <1>1, <1>2
  <2>2. extraWorkList[i] # QUIT
    BY <1>2, <1>3, <2>1 DEF IInv, ScanInv
  <2> QED BY <1>1, <1>3, <2>2 DEF PlaceInv
<1>5. \A i, j \in 1..n : cancelled[i] = cancelled[j] => i = j
  <2> HIDE DEF n, cancelled
  <2> QED BY <1>1, <1>3 DEF PlaceInv
<1>6. /\ extraWorkList' = <<QUIT>>
      /\ readyEvents' = readyEvents \o more
      /\ place' = [d \in Ops |-> IF \E i \in 1..n : cancelled[i] = d THEN "ready" ELSE place[d]]
  <2>1. DOMAIN cancelled = 1..n
    BY <1>3
  <2> QED BY <1>1, <1>2, <2>1 DEF WorkerQuit, QuitLeft, Last
<1> HIDE DEF n, cancelled
<1>7. \A i \in 1..n : /\ more[i] \in EventType /\ more[i].op = cancelled[i]
                      /\ more[i].ck = data[cancelled[i]].aop
  <2> TAKE i \in 1..n
  <2>1. data[cancelled[i]].aop \in Aops
    BY <1>4 DEF IInv, BlockInv, AttachedBlock, PostedBlock, BlockOutlivesOps
  <2> QED BY <1>4, <2>1 DEF Event, EventType
<1>8. more \in [1..n -> EventType]
  BY <1>7
<1>9. place' \in [Ops -> Places]
        /\ \A d \in Ops : place'[d] = IF \E i \in 1..n : cancelled[i] = d THEN "ready" ELSE place[d]
  BY <1>1, <1>6 DEF Places
<1> HIDE DEF more
<1>10. /\ \A i \in 1..n : place[more[i].op] # "ready" /\ place'[more[i].op] = "ready"
       /\ \A i, j \in 1..n : more[i].op = more[j].op => i = j
       /\ \A d \in Ops : place[d] = "ready" => place'[d] = "ready"
       /\ \A d \in Ops : \/ place'[d] = place[d]
                         \/ place[d] = "queued" /\ place'[d] = "ready"
  BY <1>4, <1>5, <1>7, <1>9
<1>11. /\ readyEvents \o more \in Seq(EventType)
       /\ Len(readyEvents \o more) = Len(readyEvents) + n
       /\ \A i \in 1..Len(readyEvents) + n :
            (readyEvents \o more)[i] = IF i <= Len(readyEvents) THEN readyEvents[i]
                                       ELSE more[i - Len(readyEvents)]
       /\ InReady(readyEvents \o more, place')
  <2>1. n \in Nat /\ place' \in [Ops -> Places]
    BY <1>3, <1>9
  <2>2. readyEvents \in Seq(EventType) /\ place \in [Ops -> Places] /\ InReady(readyEvents, place)
    BY <1>1
  <2> QED BY ZenonT(60), <1>8, <1>10, <2>1, <2>2, ReadyConcat
<1>12. ASSUME NEW i \in DOMAIN readyEvents'
       PROVE  \/ i \in DOMAIN readyEvents /\ readyEvents'[i] = readyEvents[i]
              \/ readyEvents'[i].op \in Ops /\ readyEvents'[i].ck = data[readyEvents'[i].op].aop
  <2>1. i \in 1..Len(readyEvents) + n
    BY <1>6, <1>11
  <2>2. CASE i <= Len(readyEvents)
    BY <1>1, <1>6, <1>11, <2>1, <2>2
  <2>3. CASE ~(i <= Len(readyEvents))
    <3>1. i - Len(readyEvents) \in 1..n
      BY <1>1, <1>3, <2>1, <2>3
    <3> QED BY <1>4, <1>6, <1>7, <1>11, <2>1, <2>3, <3>1
  <2> QED BY <2>2, <2>3
<1>13. <<QUIT>> \in Seq(Ops \cup {QUIT})
  OBVIOUS
<1>14. \A i \in DOMAIN readyEvents :
         i \in DOMAIN readyEvents' /\ readyEvents'[i] = readyEvents[i]
  BY <1>1, <1>3, <1>6, <1>11
<1>15. ASSUME NEW d \in Ops, place'[d] # place[d]
       PROVE  \E i \in DOMAIN readyEvents' : readyEvents'[i].op = d
  <2>1. PICK k \in 1..n : cancelled[k] = d
    BY <1>9, <1>15
  <2>2. Len(readyEvents) + k \in 1..Len(readyEvents) + n
        /\ ~(Len(readyEvents) + k <= Len(readyEvents))
        /\ (Len(readyEvents) + k) - Len(readyEvents) = k
    BY <1>1, <1>3, <2>1
  <2>3. /\ readyEvents'[Len(readyEvents) + k] = more[k]
        /\ Len(readyEvents) + k \in DOMAIN readyEvents'
    BY <1>6, <1>11, <2>2
  <2> QED BY <1>7, <2>1, <2>3
<1>16. ASSUME NEW i \in DOMAIN extraWorkList, extraWorkList[i] # QUIT
       PROVE  place'[extraWorkList[i]] = "ready"
  <2>1. i \in 1..n
    BY <1>1, <1>2, <1>16 DEF n
  <2> QED BY <1>3, <1>4, <1>9, <2>1
<1> QED
  BY <1>6, <1>9, <1>10, <1>11, <1>12, <1>13, <1>14, <1>15, <1>16 DEF QuitOutcome, QuitFinds

\* A worker that has taken an operation has it to itself.
LEMMA WorkFacts ==
  ASSUME IInv, NEW w \in Workers, wpc[w] \in {"io", "unlock", "post"}
  PROVE  /\ wop[w] \in Ops /\ place[wop[w]] = "working"
         /\ data[wop[w]].aop \in Aops /\ ao[data[wop[w]].aop].alloc
<1>1. wop[w] \in Ops /\ place[wop[w]] = "working"
  BY DEF IInv, PlaceInv, TypeOK
<1> QED BY <1>1 DEF IInv, BlockInv, AttachedBlock, PostedBlock, BlockOutlivesOps

\* The completion that driveEngine counts.
LEMMA DriveCounts ==
  ASSUME IInv, Drives, Key # NULL
  PROVE  /\ Done \in Ops /\ Key \in Aops /\ Key = data[Done].aop /\ ao[Key].alloc
         /\ Counted \in [Aops -> BlockType]
         /\ Counted = [ao EXCEPT ![Key] = [ao[Key] EXCEPT !.opCount = ao[Key].opCount - 1]]
         /\ Released \in [Ops -> Places]
         /\ [data EXCEPT ![Done] = NoData] \in [Ops -> DataType]
         /\ ao[Key].obj \in Objs \cup {NULL}
         /\ Tail(readyEvents) \in Seq(EventType)
         /\ InReady(Tail(readyEvents), Released)
<1>1. Done \in Ops /\ Key \in Aops /\ Key = data[Done].aop /\ ao[Key].alloc
  BY DriveFacts
<1>2. ao \in [Aops -> BlockType] /\ data \in [Ops -> DataType] /\ ao[Key] \in BlockType
  BY <1>1 DEF IInv, TypeOK
<1>3. [ao[Key] EXCEPT !.opCount = ao[Key].opCount - 1] \in BlockType
  BY <1>2, BlockTypes
<1>4. Counted = [ao EXCEPT ![Key] = [ao[Key] EXCEPT !.opCount = ao[Key].opCount - 1]]
  BY <1>1, <1>2 DEF Counted
<1>5. Counted \in [Aops -> BlockType]
  BY <1>2, <1>3, <1>4
<1>6. NoData \in DataType
  BY DEF NoData, DataType, OpTypes, FileTypes
<1>7. Tail(readyEvents) \in Seq(EventType)
        /\ Released \in [Ops -> Places] /\ InReady(Tail(readyEvents), Released)
  BY DriveFacts DEF Released, Places
<1>8. ao[Key].obj \in Objs \cup {NULL}
  BY <1>2 DEF BlockType
<1> QED BY <1>1, <1>2, <1>4, <1>5, <1>6, <1>7, <1>8

\* The object that is called back is attached through the operation's own block.
LEMMA DeliversFacts ==
  ASSUME IInv, NEW t \in OpTypes, Delivers(t)
  PROVE  /\ Drives /\ Key # NULL /\ ~ao[Key].isCancel /\ data[Done].type = t
         /\ ao[Key].obj \in Objs /\ aopOf[ao[Key].obj] = Key
         /\ t \in FileTypes <=> ao[Key].obj \in Files
<1>1. Drives /\ Key # NULL /\ ~ao[Key].isCancel /\ data[Done].type = t
  BY DEF Delivers
<1>2. Done \in Ops /\ Key \in Aops /\ Key = data[Done].aop /\ ao[Key].obj \in Objs \cup {NULL}
  BY <1>1, DriveCounts
<1>3. Live(Done)
  BY <1>1, DriveFacts DEF Live
<1> QED BY <1>1, <1>2, <1>3 DEF IInv, BlockInv, AttachedBlock, PostedBlock, BlockOf

LEMMA DeliversFile ==
  ASSUME IInv, NEW t \in FileTypes, Delivers(t) PROVE ao[Key].obj \in Files
BY DeliversFacts DEF OpTypes

\* A disconnect counts its own completion, then detaches.
LEMMA DisconnectEffect ==
  ASSUME IInv, DriveDisconnect
  PROVE  /\ DetachOutcome(Key, Counted, Tail(readyEvents), Released)
         /\ DetachFinds(Key, Counted, Tail(readyEvents))
         /\ Counted[Key].handle = ao[Key].handle
<1>1. Drives /\ Key # NULL
  BY DEF DriveDisconnect, Delivers
<1>2. /\ Key \in Aops /\ Counted \in [Aops -> BlockType] /\ Done \in Ops
      /\ Counted = [ao EXCEPT ![Key] = [ao[Key] EXCEPT !.opCount = ao[Key].opCount - 1]]
      /\ Released \in [Ops -> Places] /\ Tail(readyEvents) \in Seq(EventType)
      /\ InReady(Tail(readyEvents), Released)
  BY <1>1, DriveCounts
<1>3. Counted[Key].handle = ao[Key].handle
  BY <1>2 DEF IInv, TypeOK, BlockType
<1>4. \A d \in Ops : place[d] = "pend" => Released[d] = "pend"
  BY <1>1, DriveFacts DEF Released, IInv, TypeOK
<1>5. TypeOK /\ Detach(Key, Counted, Tail(readyEvents), Released)
  BY DEF IInv, DriveDisconnect
<1> QED BY <1>2, <1>3, <1>4, <1>5, DetachEffect

LEMMA TypeStep ==
  ASSUME IInv, [Next]_vars PROVE TypeOK'
<1>1. TypeOK /\ ConstantsAssumption
  BY ConstantsAssumption DEF IInv
<1>2. ASSUME NEW f \in Files, NEW a \in Aops, NEW fd \in Fds, FileOpenSync(f, a, fd)
      PROVE  TypeOK'
  <2>1. NewBlock(f, fd, "free") \in BlockType
    BY BlockTypes DEF Objs
  <2> QED BY <1>1, <1>2, <2>1
          DEF FileOpenSync, Attach, SetKey, TypeOK, Objs, listVars, workerVars, mainVars
<1>3. ASSUME NEW f \in Files, NEW a \in Aops, NEW d \in Ops, FileOpenAsync(f, a, d)
      PROVE  TypeOK'
  <2>1. NewBlock(f, NULL, "none") \in BlockType
    BY BlockTypes DEF Objs
  <2>2. [ao EXCEPT ![a] = NewBlock(f, NULL, "none")] \in [Aops -> BlockType]
    BY <1>1, <2>1 DEF TypeOK
  <2>3. PushWork(d, "open", a, NULL, [ao EXCEPT ![a] = NewBlock(f, NULL, "none")])
          /\ "open" \in OpTypes /\ NULL \in Fds \cup {NULL}
    BY <1>3 DEF FileOpenAsync, OpTypes, FileTypes
  <2>4. /\ place' \in [Ops -> Places] /\ data' \in [Ops -> DataType]
        /\ extraWorkList' \in Seq(Ops \cup {QUIT}) /\ extraWorkSignal' \in BOOLEAN
        /\ extraWorkMutex' \in Workers \cup {NULL} /\ ao' \in [Aops -> BlockType]
    BY <1>1, <2>2, <2>3, PushWorkType
  <2> QED BY <1>1, <1>3, <2>4 DEF FileOpenAsync, TypeOK, Objs, workerVars, mainVars
<1>4. ASSUME NEW f \in Files, NEW d \in Ops, FileReadWrite(f, d) \/ FileCloseAsync(f, d)
      PROVE  TypeOK'
  <2>1. aopOf[f] \in Aops /\ handleOf[f] \in Fds \cup {NULL}
    BY <1>1, <1>4 DEF FileReadWrite, FileCloseAsync, IInv, BlockInv, AttachedBlock, PostedBlock,
                      TypeOK, Objs
  <2>2. PICK t \in OpTypes : PushWork(d, t, aopOf[f], handleOf[f], ao)
    BY <1>4 DEF FileReadWrite, FileCloseAsync, OpTypes, FileTypes
  <2>3. ao \in [Aops -> BlockType]
    BY <1>1 DEF TypeOK
  <2> QED BY <1>1, <1>4, <2>1, <2>2, <2>3, PushWorkType
          DEF FileReadWrite, FileCloseAsync, TypeOK, appVars, workerVars, mainVars
<1>5. ASSUME NEW f \in Files, FileCloseSync(f) \/ FileDestroyUnopened(f) PROVE TypeOK'
  <2>1. aopOf[f] \in Aops /\ Detach(aopOf[f], ao, readyEvents, place)
    BY <1>1, <1>5 DEF FileCloseSync, FileDestroyUnopened, IInv, BlockInv, AttachedBlock,
                      PostedBlock, TypeOK, Objs
  <2>2. /\ ao' \in [Aops -> BlockType] /\ completeKey' \in [Fds -> Aops \cup {NULL}]
        /\ place' \in [Ops -> Places] /\ readyEvents' \in Seq(EventType)
    BY <1>1, <2>1, DetachNow DEF IInv, DetachOutcome
  <2> QED BY <1>1, <1>5, <2>2
          DEF FileCloseSync, FileDestroyUnopened, TypeOK, Objs, listVars, workerVars, mainVars
<1>6. ASSUME NEW s \in Socks, NEW a \in Aops, NEW fd \in Fds, SockOpen(s, a, fd)
      PROVE  TypeOK'
  <2>1. NewBlock(s, fd, "free") \in BlockType
    BY BlockTypes DEF Objs
  <2> QED BY <1>1, <1>6, <2>1
          DEF SockOpen, Attach, SetKey, TypeOK, Objs, listVars, workerVars, mainVars
<1>7. ASSUME NEW s \in Socks, NEW t \in SockTypes, NEW d \in Ops, SockPost(s, t, d)
      PROVE  TypeOK'
  <2>1. aopOf[s] \in Aops /\ handleOf[s] \in Fds \cup {NULL} /\ t \in OpTypes
    BY <1>1, <1>7 DEF SockPost, TypeOK, Objs, OpTypes
  <2>2. NewData(t, aopOf[s], handleOf[s]) \in DataType
    BY <2>1, NewDataType
  <2>3. CountUp(ao, aopOf[s]) \in [Aops -> BlockType]
    BY <1>1, <2>1, BlockTypes DEF CountUp, TypeOK
  <2> QED BY <1>1, <1>7, <2>2, <2>3
          DEF SockPost, TypeOK, Places, appVars, listVars, workerVars, mainVars
<1>8. ASSUME NEW s \in Socks, SockClose(s) PROVE TypeOK'
  <2>1. aopOf[s] \in Aops /\ Detach(aopOf[s], ao, readyEvents, place)
    BY <1>1, <1>8 DEF SockClose, TypeOK, Objs
  <2>2. /\ ao' \in [Aops -> BlockType] /\ completeKey' \in [Fds -> Aops \cup {NULL}]
        /\ place' \in [Ops -> Places] /\ readyEvents' \in Seq(EventType)
    BY <1>1, <2>1, DetachNow DEF IInv, DetachOutcome
  <2> QED BY <1>1, <1>8, <2>2
          DEF SockClose, TypeOK, Objs, listVars, workerVars, mainVars
<1>9. ASSUME NEW d \in Ops, CallbackEvIo(d) PROVE TypeOK'
  <2>1. completeKey[data[d].handle] \in Aops \cup {NULL} /\ place[d] # "ready"
    BY <1>1, <1>9, PendFacts DEF CallbackEvIo, TypeOK
  <2>2. readyEvents' \in Seq(EventType)
    BY <1>1, <1>9, <2>1, ReadyAppend DEF CallbackEvIo, PushComplete, IInv, PlaceInv, TypeOK
  <2> QED BY <1>1, <1>9, <2>2
          DEF CallbackEvIo, TypeOK, Places, appVars, listVars, workerVars, mainVars
<1>10. ASSUME NEW d \in Ops, NEW fd \in Fds \cup {NULL}, CallbackEvAccept(d, fd)
       PROVE  TypeOK'
  <2>1. completeKey[data[d].handle] \in Aops \cup {NULL} /\ place[d] # "ready"
    BY <1>1, <1>10, PendFacts DEF CallbackEvAccept, TypeOK
  <2>2. readyEvents' \in Seq(EventType)
    BY <1>1, <1>10, <2>1, ReadyAppend DEF CallbackEvAccept, PushComplete, IInv, PlaceInv, TypeOK
  <2>3. data' \in [Ops -> DataType]
    <3>1. \A x \in DataType : [x EXCEPT !.user = fd] \in DataType
      BY DEF DataType
    <3> QED BY <1>1, <1>10, <3>1 DEF CallbackEvAccept, TypeOK
  <2>4. fdOwner' \in [Fds -> Aops \cup Ops \cup {NULL}]
    BY <1>1, <1>10 DEF CallbackEvAccept, TypeOK
  <2> QED BY <1>1, <1>10, <2>2, <2>3, <2>4
          DEF CallbackEvAccept, TypeOK, Places, appVars, listVars, workerVars, mainVars
<1>11. ASSUME NEW w \in Workers, WorkerWake(w) \/ WorkerLock(w) PROVE TypeOK'
  BY ZenonT(60), <1>1, <1>11 DEF WorkerWake, WorkerLock, Goto, WorkerPCs, TypeOK, appVars, mainVars
<1>12. ASSUME NEW w \in Workers, NEW d \in Ops, WorkerTake(w, d) PROVE TypeOK'
  <2>1. wit[w] \in 1..Len(extraWorkList)
    BY <1>1, <1>12 DEF WorkerTake, IInv, ScanInv, TypeOK
  <2>2. extraWorkList' \in Seq(Ops \cup {QUIT})
    BY <1>1, <1>12, <2>1, RemoveAtFacts DEF WorkerTake, TypeOK
  <2>3. ao' \in [Aops -> BlockType]
    <3>1. ASSUME NEW a \in Aops
          PROVE  [ao EXCEPT ![a].fileOpMutex = w] \in [Aops -> BlockType]
      BY <1>1, BlockTypes DEF TypeOK
    <3>2. data[d].aop \in Aops \cup {NULL}
      BY <1>1 DEF TypeOK, DataType
    <3>3. CASE data[d].aop \in Aops
      BY <1>1, <1>12, <3>1, <3>3 DEF WorkerTake, TypeOK
    <3>4. CASE data[d].aop = NULL
      BY ZenonT(60), <1>1, <1>12, <3>4 DEF WorkerTake, TypeOK, ConstantsAssumption
    <3> QED BY <3>2, <3>3, <3>4
  <2>4. wpc' \in [Workers -> WorkerPCs] /\ wit' \in [Workers -> Nat]
          /\ wop' \in [Workers -> Ops \cup {NULL}] /\ place' \in [Ops -> Places]
    BY <1>1, <1>12 DEF WorkerTake, Goto, Rewind, WorkerPCs, TypeOK, Places
  <2>5. extraWorkSignal' \in BOOLEAN /\ extraWorkMutex' \in Workers \cup {NULL}
    BY <1>1, <1>12 DEF WorkerTake, TypeOK
  <2> QED BY <1>1, <1>12, <2>2, <2>3, <2>4, <2>5 DEF WorkerTake, TypeOK, appVars, mainVars
<1>13. ASSUME NEW w \in Workers, NEW d \in Ops, WorkerSkip(w, d) PROVE TypeOK'
  <2>1. /\ extraWorkMutex' \in {extraWorkMutex, NULL}
        /\ wpc' = wpc \/ wpc' = [wpc EXCEPT ![w] = "wait"]
        /\ wit' = [wit EXCEPT ![w] = wit[w] + 1] \/ wit' = [wit EXCEPT ![w] = 1]
    BY <1>13 DEF WorkerSkip, Goto, Rewind
  <2>2. wpc' \in [Workers -> WorkerPCs] /\ wit' \in [Workers -> Nat]
          /\ extraWorkMutex' \in Workers \cup {NULL}
    <3>1. [wpc EXCEPT ![w] = "wait"] \in [Workers -> WorkerPCs]
      BY <1>1 DEF TypeOK, WorkerPCs
    <3>2. /\ [wit EXCEPT ![w] = wit[w] + 1] \in [Workers -> Nat]
          /\ [wit EXCEPT ![w] = 1] \in [Workers -> Nat]
      BY <1>1 DEF TypeOK
    <3> QED BY <1>1, <2>1, <3>1, <3>2 DEF TypeOK
  <2> QED BY <1>1, <1>13, <2>2 DEF WorkerSkip, TypeOK, appVars, mainVars
<1>14. ASSUME NEW w \in Workers, WorkerQuit(w) PROVE TypeOK'
  <2>1. /\ extraWorkList' \in Seq(Ops \cup {QUIT}) /\ place' \in [Ops -> Places]
        /\ readyEvents' \in Seq(EventType)
    BY <1>14, QuitEffect DEF QuitOutcome
  <2> QED BY <1>1, <1>14, <2>1
          DEF WorkerQuit, WakeOthers, Goto, Rewind, WorkerPCs, TypeOK, appVars, mainVars
<1>15. ASSUME NEW w \in Workers,
              \/ WorkerReadWrite(w) \/ WorkerClose(w) \/ \E fd \in Fds \cup {NULL} : WorkerOpen(w, fd)
       PROVE  TypeOK'
  <2>1. wop[w] \in Ops
    BY ZenonT(60), <1>1, <1>15 DEF WorkerReadWrite, WorkerClose, WorkerOpen, IInv, PlaceInv, TypeOK
  <2>2. ASSUME NEW x \in DataType, NEW b \in BOOLEAN, NEW fd \in Fds \cup {NULL}
        PROVE  [x EXCEPT !.ok = b] \in DataType /\ [x EXCEPT !.ok = b, !.handle = fd] \in DataType
    BY DEF DataType
  <2>3. data[wop[w]] \in DataType
    BY <1>1, <2>1 DEF TypeOK
  <2>4. \E x \in DataType : data' = [data EXCEPT ![wop[w]] = x]
    <3>1. CASE WorkerReadWrite(w) \/ WorkerClose(w)
      <4>1. data' = [data EXCEPT ![wop[w]] = [data[wop[w]] EXCEPT !.ok = TRUE]]
        BY <3>1 DEF WorkerReadWrite, WorkerClose
      <4> QED BY <2>2, <2>3, <4>1
    <3>2. CASE \E fd \in Fds \cup {NULL} : WorkerOpen(w, fd)
      <4>1. PICK fd \in Fds \cup {NULL} : WorkerOpen(w, fd)
        BY <3>2
      <4>2. data' = [data EXCEPT ![wop[w]] =
                       [data[wop[w]] EXCEPT !.ok = (fd # NULL), !.handle = fd]]
        BY <1>1, <2>1, <4>1 DEF WorkerOpen, TypeOK
      <4> QED BY <2>2, <2>3, <4>2
    <3> QED BY <1>15, <3>1, <3>2
  <2>5. data' \in [Ops -> DataType]
    BY <1>1, <2>1, <2>4 DEF TypeOK
  <2>6. fdOwner' \in [Fds -> Aops \cup Ops \cup {NULL}]
    BY ZenonT(60), <1>1, <1>15, <2>1 DEF WorkerReadWrite, WorkerClose, WorkerOpen, TypeOK
  <2>7. wpc' \in [Workers -> WorkerPCs]
    BY ZenonT(60), <1>1, <1>15 DEF WorkerReadWrite, WorkerClose, WorkerOpen, Goto, WorkerPCs, TypeOK
  <2>8. UNCHANGED <<appVars, ao, place, listVars, completeKey, readyEvents, wit, wop, mainVars>>
    BY <1>15 DEF WorkerReadWrite, WorkerClose, WorkerOpen
  <2> QED BY <1>1, <2>5, <2>6, <2>7, <2>8 DEF TypeOK, appVars, listVars, mainVars
<1>16. ASSUME NEW w \in Workers, WorkerUnlock(w) PROVE TypeOK'
  <2>1. data[wop[w]].aop \in Aops
    BY <1>1, <1>16, WorkFacts DEF WorkerUnlock
  <2>2. [ao[data[wop[w]].aop] EXCEPT !.fileOpMutex = "free"] \in BlockType
    BY <1>1, <2>1, BlockTypes DEF TypeOK
  <2>3. ao' \in [Aops -> BlockType]
    BY <1>1, <1>16, <2>1, <2>2 DEF WorkerUnlock, TypeOK
  <2> QED BY <1>1, <1>16, <2>3
          DEF WorkerUnlock, Goto, WorkerPCs, TypeOK, appVars, listVars, mainVars
<1>17. ASSUME NEW w \in Workers, WorkerPost(w) PROVE TypeOK'
  <2>1. wop[w] \in Ops /\ place[wop[w]] = "working" /\ data[wop[w]].aop \in Aops
    BY <1>17, WorkFacts DEF WorkerPost
  <2>2. readyEvents' \in Seq(EventType)
    BY <1>1, <1>17, <2>1, ReadyAppend DEF WorkerPost, PushComplete, IInv, PlaceInv, TypeOK
  <2> QED BY <1>1, <1>17, <2>1, <2>2
          DEF WorkerPost, Goto, WorkerPCs, TypeOK, Places, appVars, listVars, mainVars
<1>18. CASE DriveNext
  <2>1. CASE FinishClose
    <3>1. closing \in Files /\ aopOf[closing] \in Aops
      BY <1>1, <2>1 DEF FinishClose, IInv, BlockInv, AttachedBlock, PostedBlock, TypeOK, Objs
    <3>2. /\ ao' \in [Aops -> BlockType] /\ completeKey' \in [Fds -> Aops \cup {NULL}]
          /\ place' \in [Ops -> Places] /\ readyEvents' \in Seq(EventType)
      BY <1>1, <2>1, <3>1, DetachNow DEF FinishClose, IInv, DetachOutcome
    <3> QED BY <1>1, <2>1, <3>1, <3>2
            DEF FinishClose, TypeOK, Objs, listVars, workerVars
  <2>2. CASE DriveKeyless
    <3>1. readyEvents' \in Seq(EventType) /\ place' \in [Ops -> Places]
      BY <2>2, DriveFacts DEF DriveKeyless, Places
    <3> QED BY <1>1, <2>2, <3>1 DEF DriveKeyless, TypeOK, appVars, listVars, workerVars
  <2>3. ASSUME DriveCancelled \/ DriveReadWrite \/ DriveClose PROVE TypeOK'
    <3>1. Drives /\ Key # NULL
      BY <2>3 DEF DriveCancelled, DriveReadWrite, DriveClose, Delivers
    <3>2. /\ Key \in Aops /\ Counted \in [Aops -> BlockType]
          /\ Released \in [Ops -> Places] /\ [data EXCEPT ![Done] = NoData] \in [Ops -> DataType]
          /\ ao[Key].obj \in Objs \cup {NULL} /\ Tail(readyEvents) \in Seq(EventType)
      BY <3>1, DriveCounts
    <3>3. [Counted EXCEPT ![Key] = Spent(Counted[Key])] \in [Aops -> BlockType]
      BY <3>2, BlockTypes
    <3>4. ao' \in [Aops -> BlockType] /\ readyEvents' \in Seq(EventType)
            /\ place' \in [Ops -> Places] /\ data' \in [Ops -> DataType]
      BY <2>3, <3>2, <3>3 DEF DriveCancelled, DriveReadWrite, DriveClose, ReleaseData
    <3>5. closing' \in Files \cup {NULL} /\ inCallback' \in BOOLEAN
      <4>1. CASE DriveClose
        BY <4>1, DeliversFile DEF DriveClose, FileTypes
      <4> QED BY <1>1, <2>3, <4>1 DEF DriveCancelled, DriveReadWrite, CallbackRan, TypeOK
    <3>6. UNCHANGED <<appVars, listVars, completeKey, workerVars, mode, fdOwner>>
      BY <2>3 DEF DriveCancelled, DriveReadWrite, DriveClose, CallbackRan
    <3> QED BY <1>1, <3>4, <3>5, <3>6 DEF TypeOK, appVars, listVars, workerVars
  <2>4. CASE DriveOpen
    <3> DEFINE f == ao[Key].obj
               fd == data[Done].handle
    <3>1. Delivers("open") /\ Drives /\ Key # NULL /\ f \in Files
      BY <2>4, DeliversFile, DeliversFacts DEF DriveOpen, Delivers, FileTypes
    <3>2. /\ Key \in Aops /\ Counted \in [Aops -> BlockType]
          /\ Released \in [Ops -> Places] /\ [data EXCEPT ![Done] = NoData] \in [Ops -> DataType]
          /\ Tail(readyEvents) \in Seq(EventType) /\ fd \in Fds \cup {NULL}
      BY <1>1, <3>1, DriveCounts DEF TypeOK, DataType
    <3>3. [Counted EXCEPT ![Key].handle = fd, ![Key].fileOpMutex = "free"] \in [Aops -> BlockType]
      <4>1. [Counted[Key] EXCEPT !.handle = fd, !.fileOpMutex = "free"] \in BlockType
        BY <3>2, BlockTypes
      <4> QED BY <3>2, <4>1
    <3> HIDE DEF f, fd
    <3>4. ao' \in [Aops -> BlockType] /\ readyEvents' \in Seq(EventType)
            /\ place' \in [Ops -> Places] /\ data' \in [Ops -> DataType]
      BY <2>4, <3>2, <3>3 DEF DriveOpen, ReleaseData, f, fd
    <3>5. completeKey' \in [Fds -> Aops \cup {NULL}]
            /\ fdOwner' \in [Fds -> Aops \cup Ops \cup {NULL}]
      <4>1. CASE data[Done].ok /\ ~uninitFlag
        <5>1. SetKey(fd, Key) /\ fdOwner' = [fdOwner EXCEPT ![fd] = Key]
          BY <2>4, <4>1 DEF DriveOpen, f, fd
        <5> QED BY <1>1, <3>2, <5>1 DEF SetKey, TypeOK
      <4>2. CASE data[Done].ok /\ uninitFlag
        <5>1. completeKey' = completeKey /\ fdOwner' = [fdOwner EXCEPT ![fd] = NULL]
          BY <2>4, <4>2 DEF DriveOpen, f, fd
        <5> QED BY <1>1, <3>2, <5>1 DEF TypeOK
      <4>3. CASE ~data[Done].ok
        BY <1>1, <2>4, <4>3 DEF DriveOpen, TypeOK
      <4> QED BY <4>1, <4>2, <4>3
    <3>6. handleOf' \in [Objs -> Fds \cup {NULL}]
      BY <1>1, <2>4, <3>2 DEF DriveOpen, TypeOK, fd
    <3>7. isOpen' \in [Files -> BOOLEAN] /\ aopOf' \in [Objs -> Aops \cup {NULL}]
      BY <1>1, <2>4 DEF DriveOpen, TypeOK
    <3>8. UNCHANGED <<listVars, workerVars, mode, closing>> /\ inCallback' \in BOOLEAN
      BY <2>4 DEF DriveOpen, CallbackRan
    <3> QED BY <1>1, <3>4, <3>5, <3>6, <3>7, <3>8 DEF TypeOK, listVars, workerVars
  <2>5. CASE DriveDisconnect
    <3>1. Delivers("disc") /\ Drives /\ Key # NULL /\ Key \in Aops
      BY <2>5, DriveCounts DEF DriveDisconnect, Delivers
    <3>2. /\ ao' \in [Aops -> BlockType] /\ completeKey' \in [Fds -> Aops \cup {NULL}]
          /\ place' \in [Ops -> Places] /\ readyEvents' \in Seq(EventType)
      BY <2>5, DisconnectEffect DEF DetachOutcome
    <3>3. data' \in [Ops -> DataType]
      BY <2>5, <3>1, DriveCounts DEF DriveDisconnect, ReleaseData
    <3>4. /\ aopOf' \in [Objs -> Aops \cup {NULL}] /\ handleOf' \in [Objs -> Fds \cup {NULL}]
          /\ fdOwner' \in [Fds -> Aops \cup Ops \cup {NULL}]
      BY <1>1, <2>5 DEF DriveDisconnect, TypeOK
    <3>5. UNCHANGED <<isOpen, listVars, workerVars, mode, closing>> /\ inCallback' \in BOOLEAN
      BY <2>5 DEF DriveDisconnect, CallbackRan
    <3> QED BY <1>1, <3>2, <3>3, <3>4, <3>5 DEF TypeOK, listVars, workerVars
  <2>6. CASE DriveAccept
    <3> DEFINE fd == data[Done].user
    <3>1. Delivers("accept") /\ Drives /\ Key # NULL
      BY <2>6 DEF DriveAccept, Delivers
    <3>2. /\ Key \in Aops /\ Counted \in [Aops -> BlockType]
          /\ Released \in [Ops -> Places] /\ [data EXCEPT ![Done] = NoData] \in [Ops -> DataType]
          /\ Tail(readyEvents) \in Seq(EventType) /\ fd \in Fds \cup {NULL}
      BY <1>1, <3>1, DriveCounts DEF TypeOK, DataType
    <3>3. /\ ao' \in [Aops -> BlockType] /\ completeKey' \in [Fds -> Aops \cup {NULL}]
          /\ aopOf' \in [Objs -> Aops \cup {NULL}] /\ handleOf' \in [Objs -> Fds \cup {NULL}]
          /\ fdOwner' \in [Fds -> Aops \cup Ops \cup {NULL}]
      <4>1. CASE \E s \in Socks, a \in Aops :
                   /\ ao' = [Counted EXCEPT ![a] = NewBlock(s, fd, "free")]
                   /\ SetKey(fd, a)
                   /\ aopOf' = [aopOf EXCEPT ![s] = a]
                   /\ handleOf' = [handleOf EXCEPT ![s] = fd]
                   /\ fdOwner' = [fdOwner EXCEPT ![fd] = a]
        <5>1. PICK s \in Socks, a \in Aops :
                   /\ ao' = [Counted EXCEPT ![a] = NewBlock(s, fd, "free")]
                   /\ SetKey(fd, a)
                   /\ aopOf' = [aopOf EXCEPT ![s] = a]
                   /\ handleOf' = [handleOf EXCEPT ![s] = fd]
                   /\ fdOwner' = [fdOwner EXCEPT ![fd] = a]
          BY <4>1
        <5>2. NewBlock(s, fd, "free") \in BlockType
          BY <3>2, BlockTypes DEF Objs
        <5> HIDE DEF fd
        <5> QED BY <1>1, <3>2, <5>1, <5>2 DEF SetKey, TypeOK
      <4>2. CASE /\ ao' = Counted
                 /\ fdOwner' = [g \in Fds |-> IF g = fd THEN NULL ELSE fdOwner[g]]
                 /\ UNCHANGED <<completeKey, aopOf, handleOf>>
        BY <1>1, <3>2, <4>2 DEF TypeOK
      <4> QED BY <2>6, <4>1, <4>2 DEF DriveAccept
    <3>4. readyEvents' \in Seq(EventType) /\ place' \in [Ops -> Places]
            /\ data' \in [Ops -> DataType]
      BY <2>6, <3>2 DEF DriveAccept, ReleaseData
    <3>5. UNCHANGED <<isOpen, listVars, workerVars, mode, closing>> /\ inCallback' \in BOOLEAN
      BY <2>6 DEF DriveAccept, CallbackRan
    <3> QED BY <1>1, <3>3, <3>4, <3>5 DEF TypeOK, listVars, workerVars
  <2> QED BY <1>18, <2>1, <2>2, <2>3, <2>4, <2>5, <2>6 DEF DriveNext
<1>19. CASE UninitNext
  <2>1. extraWorkList' \in Seq(Ops \cup {QUIT}) /\ extraWorkSignal' \in BOOLEAN
          /\ mode' \in {"run", "join", "drain", "closed"} /\ inCallback' \in BOOLEAN
    <3>1. CASE UninitBegin
      BY <1>1, <3>1 DEF UninitBegin, TypeOK
    <3>2. CASE UninitJoin
      BY <1>1, <3>2 DEF UninitJoin, TypeOK
    <3>3. CASE UninitClosePort
      BY <1>1, <3>3 DEF UninitClosePort, TypeOK, listVars
    <3> QED BY <1>19, <3>1, <3>2, <3>3 DEF UninitNext
  <2>2. UNCHANGED <<appVars, ao, data, place, extraWorkMutex, completeKey, readyEvents,
                    workerVars, closing, fdOwner>>
    BY <1>19 DEF UninitNext, UninitBegin, UninitJoin, UninitClosePort, listVars
  <2> QED BY <1>1, <2>1, <2>2 DEF TypeOK, appVars, workerVars
<1>20. CASE Terminated \/ UNCHANGED vars
  BY <1>1, <1>20
     DEF Terminated, vars, TypeOK, appVars, listVars, workerVars, mainVars
<1> QED
  BY <1>2, <1>3, <1>4, <1>5, <1>6, <1>7, <1>8, <1>9, <1>10, <1>11, <1>12, <1>13, <1>14,
     <1>15, <1>16, <1>17, <1>18, <1>19, <1>20
     DEF Next, AppNext, EvNext, WorkerNext


(***************************************************************************)
(* What a step makes of the operations: which block each is posted on, and *)
(* as what.                                                                *)
(***************************************************************************)
OpKept(d) ==
  /\ place'[d] # "free" <=> place[d] # "free"
  /\ place[d] # "free" => data'[d].aop = data[d].aop /\ data'[d].type = data[d].type

OpsKept == \A d \in Ops : OpKept(d)

OpsPosted(d, t, a) ==
  /\ place[d] = "free" /\ place'[d] # "free"
  /\ data'[d].aop = a /\ data'[d].type = t
  /\ \A e \in Ops \ {d} : OpKept(e)

OpsReleased(d) ==
  /\ place[d] # "free" /\ place'[d] = "free"
  /\ \A e \in Ops \ {d} : OpKept(e)

\* What it makes of the control blocks, but for fileOpMutex.
BlockKept(a) ==
  /\ ao'[a].alloc = ao[a].alloc /\ ao'[a].obj = ao[a].obj
  /\ ao'[a].isCancel = ao[a].isCancel /\ ao'[a].opCount = ao[a].opCount
  /\ ao'[a].handle = ao[a].handle

BlocksKept == \A a \in Aops : BlockKept(a)

-----------------------------------------------------------------------------
(* The operations outstanding on a block.                                  *)

LEMMA OutstandingFinite ==
  ASSUME NEW a PROVE IsFiniteSet(Outstanding(a)) /\ Cardinality(Outstanding(a)) \in Nat
<1>1. Outstanding(a) \subseteq Ops
  BY DEF Outstanding
<1> QED BY <1>1, ConstantsAssumption, FS_Subset, FS_CardinalityType DEF ConstantsAssumption

LEMMA OutstandingKept ==
  ASSUME OpsKept PROVE \A a \in Aops : Outstanding(a)' = Outstanding(a)
BY DEF OpsKept, OpKept, Outstanding

LEMMA OutstandingPosted ==
  ASSUME NEW d \in Ops, NEW t, NEW a \in Aops, OpsPosted(d, t, a)
  PROVE  /\ \A b \in Aops \ {a} : Outstanding(b)' = Outstanding(b)
         /\ Outstanding(a)' = Outstanding(a) \cup {d}
         /\ Cardinality(Outstanding(a)') = Cardinality(Outstanding(a)) + 1
<1>1. \A b \in Aops \ {a} : Outstanding(b)' = Outstanding(b)
  BY DEF OpsPosted, OpKept, Outstanding
<1>2. Outstanding(a)' = Outstanding(a) \cup {d} /\ d \notin Outstanding(a)
  BY DEF OpsPosted, OpKept, Outstanding
<1> QED BY <1>1, <1>2, OutstandingFinite, FS_AddElement

LEMMA OutstandingReleased ==
  ASSUME NEW d \in Ops, NEW a \in Aops, a = data[d].aop, OpsReleased(d)
  PROVE  /\ \A b \in Aops \ {a} : Outstanding(b)' = Outstanding(b)
         /\ Outstanding(a)' = Outstanding(a) \ {d}
         /\ Cardinality(Outstanding(a)') = Cardinality(Outstanding(a)) - 1
<1>1. \A b \in Aops \ {a} : Outstanding(b)' = Outstanding(b)
  BY DEF OpsReleased, OpKept, Outstanding
<1>2. Outstanding(a)' = Outstanding(a) \ {d} /\ d \in Outstanding(a)
  BY DEF OpsReleased, OpKept, Outstanding
<1> QED BY ZenonT(60), <1>1, <1>2, OutstandingFinite, FS_RemoveElement

\* The counter is zero exactly when nothing is outstanding, and a block that is
\* not allocated has nothing outstanding either.
LEMMA CountFacts ==
  ASSUME IInv, NEW a \in Aops
  PROVE  /\ ao[a].alloc /\ ao[a].opCount = 0 => Outstanding(a) = {}
         /\ ~ao[a].alloc => Outstanding(a) = {}
         /\ ao[a].alloc => ao[a].opCount \in Nat
         /\ \A d \in Ops : place[d] # "free" /\ data[d].aop = a => ao[a].opCount # 0
<1>1. ao[a].alloc /\ ao[a].opCount = 0 => Outstanding(a) = {}
  BY OutstandingFinite, FS_EmptySet DEF IInv, OpCountExact
<1>2. ~ao[a].alloc => Outstanding(a) = {}
  BY DEF IInv, BlockInv, AttachedBlock, PostedBlock, BlockOutlivesOps, Outstanding
<1>3. ao[a].alloc => ao[a].opCount \in Nat
  BY OutstandingFinite DEF IInv, OpCountExact
<1>4. ASSUME NEW d \in Ops, place[d] # "free", data[d].aop = a
      PROVE  ao[a].opCount # 0
  <2>1. d \in Outstanding(a) /\ ao[a].alloc
    BY <1>4 DEF IInv, BlockInv, AttachedBlock, PostedBlock, BlockOutlivesOps, Outstanding
  <2> QED BY <1>1, <2>1
<1> QED BY <1>1, <1>2, <1>3, <1>4

-----------------------------------------------------------------------------
(* The steps that only move operations about: libev, the workers, uninit   *)
(* and the completion without a key.                                       *)

QuietNext ==
  \/ EvNext \/ DriveKeyless \/ UninitNext \/ Terminated \/ UNCHANGED vars
  \/ \E w \in Workers : WorkerNext(w)

LEMMA QuietEffect ==
  ASSUME IInv, QuietNext
  PROVE  OpsKept /\ BlocksKept /\ UNCHANGED appVars /\ closing' = closing
<1>1. TypeOK /\ ConstantsAssumption
  BY ConstantsAssumption DEF IInv
<1>2. ASSUME EvNext PROVE OpsKept /\ BlocksKept /\ UNCHANGED appVars /\ closing' = closing
  <2>1. CASE \E d \in Ops : CallbackEvIo(d)
    BY <1>1, <2>1 DEF CallbackEvIo, TypeOK, OpsKept, OpKept, BlocksKept, BlockKept, mainVars
  <2>2. CASE \E d \in Ops, fd \in Fds \cup {NULL} : CallbackEvAccept(d, fd)
    <3>1. PICK d \in Ops, fd \in Fds \cup {NULL} : CallbackEvAccept(d, fd)
      BY <2>2
    <3>2. data' = [data EXCEPT ![d] = [data[d] EXCEPT !.user = fd]] /\ data[d] \in DataType
      BY <1>1, <3>1 DEF CallbackEvAccept, TypeOK
    <3>3. \A e \in Ops : data'[e].aop = data[e].aop /\ data'[e].type = data[e].type
      BY <1>1, <3>2 DEF TypeOK, DataType
    <3> QED BY <1>1, <3>1, <3>3
            DEF CallbackEvAccept, TypeOK, OpsKept, OpKept, BlocksKept, BlockKept, mainVars
  <2> QED BY <1>2, <2>1, <2>2 DEF EvNext
<1>3. ASSUME DriveKeyless
      PROVE  OpsKept /\ BlocksKept /\ UNCHANGED appVars /\ closing' = closing
  <2>1. Done \in Ops /\ place[Done] = "ready"
    BY <1>3, DriveFacts DEF DriveKeyless
  <2> QED BY <1>1, <1>3, <2>1
          DEF DriveKeyless, TypeOK, OpsKept, OpKept, BlocksKept, BlockKept
<1>4. ASSUME UninitNext \/ Terminated \/ UNCHANGED vars
      PROVE  OpsKept /\ BlocksKept /\ UNCHANGED appVars /\ closing' = closing
  BY <1>4 DEF UninitNext, UninitBegin, UninitJoin, UninitClosePort, Terminated, vars, OpsKept,
              OpKept, BlocksKept, BlockKept, mainVars
<1>5. ASSUME NEW w \in Workers, WorkerNext(w)
      PROVE  OpsKept /\ BlocksKept /\ UNCHANGED appVars /\ closing' = closing
  <2>1. CASE WorkerWake(w) \/ WorkerLock(w) \/ \E d \in Ops : WorkerSkip(w, d)
    BY <2>1 DEF WorkerWake, WorkerLock, WorkerSkip, OpsKept, OpKept, BlocksKept, BlockKept,
                mainVars
  <2>2. CASE WorkerQuit(w)
    <3>1. QuitOutcome
      BY <2>2, QuitEffect
    <3>2. \A d \in Ops : place'[d] # "free" <=> place[d] # "free"
      BY <3>1 DEF QuitOutcome
    <3> QED BY <2>2, <3>2 DEF WorkerQuit, OpsKept, OpKept, BlocksKept, BlockKept, mainVars
  <2>3. CASE \E d \in Ops : WorkerTake(w, d)
    <3>1. PICK d \in Ops : WorkerTake(w, d)
      BY <2>3
    <3>2. place[d] = "queued"
      BY <1>1, <3>1 DEF WorkerTake, Scanned, IInv, ScanInv, PlaceInv, ConstantsAssumption
    <3>3. OpsKept
      BY <1>1, <3>1, <3>2 DEF WorkerTake, OpsKept, OpKept, TypeOK
    <3>4. BlocksKept
      BY <1>1, <3>1 DEF WorkerTake, BlocksKept, BlockKept, TypeOK, BlockType
    <3> QED BY <3>1, <3>3, <3>4 DEF WorkerTake, mainVars
  <2>4. CASE WorkerReadWrite(w) \/ WorkerClose(w) \/ \E fd \in Fds \cup {NULL} : WorkerOpen(w, fd)
    <3>1. \A e \in Ops : data'[e].aop = data[e].aop /\ data'[e].type = data[e].type
      <4>1. CASE WorkerReadWrite(w) \/ WorkerClose(w)
        <5>1. data' = [data EXCEPT ![wop[w]] = [data[wop[w]] EXCEPT !.ok = TRUE]]
          BY <4>1 DEF WorkerReadWrite, WorkerClose
        <5>2. wop[w] \in Ops
          BY <4>1, WorkFacts DEF WorkerReadWrite, WorkerClose
        <5> QED BY <1>1, <5>1, <5>2 DEF TypeOK, DataType
      <4>2. CASE \E fd \in Fds \cup {NULL} : WorkerOpen(w, fd)
        <5>1. PICK fd \in Fds \cup {NULL} : WorkerOpen(w, fd)
          BY <4>2
        <5>2. data' = [data EXCEPT ![wop[w]] = [data[wop[w]] EXCEPT !.ok = (fd # NULL),
                                                                    !.handle = fd]]
          BY <5>1 DEF WorkerOpen
        <5>3. wop[w] \in Ops
          BY <5>1, WorkFacts DEF WorkerOpen
        <5> QED BY <1>1, <5>2, <5>3 DEF TypeOK, DataType
      <4> QED BY <2>4, <4>1, <4>2
    <3>2. UNCHANGED <<appVars, ao, place>> /\ closing' = closing
      BY <2>4 DEF WorkerReadWrite, WorkerClose, WorkerOpen, mainVars
    <3> QED BY <3>1, <3>2 DEF OpsKept, OpKept, BlocksKept, BlockKept
  <2>5. CASE WorkerUnlock(w)
    BY <1>1, <2>5 DEF WorkerUnlock, TypeOK, BlockType, OpsKept, OpKept, BlocksKept, BlockKept,
                      mainVars
  <2>6. CASE WorkerPost(w)
    <3>1. wop[w] \in Ops /\ place[wop[w]] = "working"
      BY <2>6, WorkFacts DEF WorkerPost
    <3> QED BY <1>1, <2>6, <3>1 DEF WorkerPost, TypeOK, OpsKept, OpKept, BlocksKept, BlockKept,
                                    mainVars
  <2> QED BY <1>5, <2>1, <2>2, <2>3, <2>4, <2>5, <2>6 DEF WorkerNext
<1> QED BY <1>2, <1>3, <1>4, <1>5 DEF QuietNext

-----------------------------------------------------------------------------
(* BlockInv and the counter.                                               *)

LEMMA QuietBlocks ==
  ASSUME IInv, QuietNext PROVE BlockInv' /\ OpCountExact'
<1>1. OpsKept /\ BlocksKept /\ UNCHANGED appVars /\ closing' = closing
  BY QuietEffect
<1>2. \A a \in Aops : Outstanding(a)' = Outstanding(a)
  BY <1>1, OutstandingKept
<1>3. OpCountExact'
  BY <1>1, <1>2 DEF IInv, OpCountExact, BlocksKept, BlockKept
<1>4. BlockInv /\ BlockOutlivesOps /\ aopOf \in [Objs -> Aops \cup {NULL}]
  BY DEF IInv, BlockInv, AttachedBlock, PostedBlock, TypeOK
<1>5. BlockOutlivesOps'
  BY <1>1, <1>4 DEF BlockOutlivesOps, OpsKept, OpKept, BlocksKept, BlockKept
<1>6. BlockInv'
  BY <1>1, <1>4, <1>5 DEF BlockInv, AttachedBlock, PostedBlock, BlockOutlivesOps, Live, BlockOf,
                          OpsKept, OpKept, BlocksKept,
                          BlockKept, appVars
<1> QED BY <1>3, <1>6

LEMMA PostBlocks ==
  ASSUME IInv, NEW d \in Ops, NEW t \in OpTypes, NEW o \in Objs, NEW a \in Aops,
         aopOf[o] = a, OpsPosted(d, t, a), ao' = CountUp(ao, a),
         t \in FileTypes <=> o \in Files,
         t \in {"rw", "close"} => isOpen[o],
         UNCHANGED appVars, closing' = closing
  PROVE  BlockInv' /\ OpCountExact'
<1>1. TypeOK /\ BlockInv /\ BlockOutlivesOps /\ ConstantsAssumption
  BY ConstantsAssumption DEF IInv, BlockInv, AttachedBlock, PostedBlock
<1>2. /\ \A b \in Aops : /\ ao'[b].alloc = ao[b].alloc /\ ao'[b].obj = ao[b].obj
                         /\ ao'[b].isCancel = ao[b].isCancel
      /\ \A b \in Aops \ {a} : ao'[b] = ao[b]
      /\ ao'[a].opCount = ao[a].opCount + 1
  BY <1>1 DEF CountUp, TypeOK, BlockType
<1>3. ao[a].alloc /\ ~ao[a].isCancel /\ ao[a].obj = o /\ a # NULL /\ o # NULL
  BY <1>1 DEF BlockInv, AttachedBlock, PostedBlock, ConstantsAssumption
<1>4. OpCountExact'
  <2> SUFFICES ASSUME NEW b \in Aops, ao'[b].alloc
               PROVE  ao'[b].opCount = Cardinality(Outstanding(b)')
    BY DEF OpCountExact
  <2>1. CASE b = a
    BY <1>2, <1>3, <2>1, OutstandingPosted DEF IInv, OpCountExact
  <2>2. CASE b # a
    BY <1>2, <2>2, OutstandingPosted DEF IInv, OpCountExact
  <2> QED BY <2>1, <2>2
<1>5. BlockOutlivesOps'
  BY <1>1, <1>2, <1>3 DEF BlockOutlivesOps, OpsPosted, OpKept
<1>6. BlockInv'
  <2>1. \A e \in Ops : place'[e] # "free" =>
          \/ e = d /\ data'[e].aop = a /\ data'[e].type = t
          \/ place[e] # "free" /\ data'[e].aop = data[e].aop /\ data'[e].type = data[e].type
    BY DEF OpsPosted, OpKept
  <2>2. aopOf' = aopOf /\ isOpen' = isOpen
    BY DEF appVars
  <2>3. \A x \in Objs : aopOf'[x] # NULL =>
          ao'[aopOf'[x]].alloc /\ ~ao'[aopOf'[x]].isCancel /\ ao'[aopOf'[x]].obj = x
    <3> SUFFICES ASSUME NEW x \in Objs, aopOf[x] # NULL
                 PROVE  ao'[aopOf[x]].alloc /\ ~ao'[aopOf[x]].isCancel /\ ao'[aopOf[x]].obj = x
      BY <2>2
    <3>1. aopOf[x] \in Aops /\ AttachedBlock(x)
      BY <1>1 DEF BlockInv, TypeOK
    <3> QED BY <1>2, <3>1 DEF AttachedBlock
  <2>4. \A e \in Ops : place'[e] # "free" =>
          LET b == ao'[data'[e].aop]
          IN /\ data'[e].type \in FileTypes <=> b.obj \in Files
             /\ b.obj # NULL
             /\ ~b.isCancel => aopOf'[b.obj] = data'[e].aop
             /\ ~b.isCancel /\ data'[e].type \in {"rw", "close"} => isOpen'[b.obj]
    <3> SUFFICES ASSUME NEW e \in Ops, place'[e] # "free"
                 PROVE  LET b == ao'[data'[e].aop]
                        IN /\ data'[e].type \in FileTypes <=> b.obj \in Files
                           /\ b.obj # NULL
                           /\ ~b.isCancel => aopOf'[b.obj] = data'[e].aop
                           /\ ~b.isCancel /\ data'[e].type \in {"rw", "close"} => isOpen'[b.obj]
      OBVIOUS
    <3>1. CASE e = d /\ data'[e].aop = a /\ data'[e].type = t
      BY <1>2, <1>3, <2>2, <3>1
    <3>2. CASE place[e] # "free" /\ data'[e].aop = data[e].aop /\ data'[e].type = data[e].type
      <4>1. data[e].aop \in Aops
        BY <1>1, <3>2 DEF BlockOutlivesOps
      <4> QED BY <1>1, <1>2, <2>2, <3>2, <4>1 DEF BlockInv, AttachedBlock, PostedBlock, Live,
                                                  BlockOf
    <3> QED BY <2>1, <3>1, <3>2
  <2>5. /\ \A f \in Files : isOpen'[f] => aopOf'[f] # NULL
        /\ closing' # NULL => isOpen'[closing']
    BY <1>1, <2>2 DEF BlockInv, AttachedBlock, PostedBlock
  <2> QED BY <1>5, <2>3, <2>4, <2>5 DEF BlockInv, AttachedBlock, PostedBlock, Live, BlockOf
<1> QED BY <1>4, <1>6

\* A block that was not allocated becomes the block of object o.
LEMMA AttachBlocks ==
  ASSUME IInv, NEW o \in Objs, NEW a \in Aops, ~ao[a].alloc, aopOf[o] = NULL,
         OpsKept, NEW fd, NEW m, ao' = [ao EXCEPT ![a] = NewBlock(o, fd, m)],
         aopOf' = [aopOf EXCEPT ![o] = a],
         \A f \in Files : isOpen'[f] = (isOpen[f] \/ f = o),
         closing' = closing
  PROVE  BlockInv' /\ OpCountExact'
<1>1. TypeOK /\ BlockInv /\ BlockOutlivesOps /\ ConstantsAssumption
  BY ConstantsAssumption DEF IInv, BlockInv, AttachedBlock, PostedBlock
<1>2. /\ \A b \in Aops \ {a} : ao'[b] = ao[b]
      /\ ao'[a].alloc /\ ao'[a].obj = o /\ ~ao'[a].isCancel /\ ao'[a].opCount = 0
  BY <1>1 DEF TypeOK, NewBlock
<1>3. \A e \in Ops : place[e] # "free" => data[e].aop # a
  BY <1>1 DEF BlockOutlivesOps
<1>4. OpCountExact'
  <2> SUFFICES ASSUME NEW b \in Aops, ao'[b].alloc
               PROVE  ao'[b].opCount = Cardinality(Outstanding(b)')
    BY DEF OpCountExact
  <2>1. Outstanding(b)' = Outstanding(b)
    BY OutstandingKept
  <2>2. CASE b = a
    BY <1>2, <2>1, <2>2, CountFacts, FS_EmptySet
  <2>3. CASE b # a
    BY <1>2, <2>1, <2>3 DEF IInv, OpCountExact
  <2> QED BY <2>2, <2>3
<1>5. BlockOutlivesOps'
  BY <1>1, <1>2, <1>3 DEF BlockOutlivesOps, OpsKept, OpKept
<1>6. a # NULL /\ o # NULL /\ Files \subseteq Objs
  BY <1>1 DEF ConstantsAssumption, Objs
<1>7. \A x \in Objs : aopOf'[x] = IF x = o THEN a ELSE aopOf[x]
  BY <1>1 DEF TypeOK
<1>8. \A e \in Ops : place'[e] # "free" =>
        /\ place[e] # "free" /\ data'[e].aop = data[e].aop /\ data'[e].type = data[e].type
        /\ data[e].aop \in Aops \ {a} /\ ao'[data[e].aop] = ao[data[e].aop]
        /\ ao[data[e].aop].obj \in Objs
  <2> SUFFICES ASSUME NEW e \in Ops, place'[e] # "free"
               PROVE  /\ place[e] # "free" /\ data'[e].aop = data[e].aop
                      /\ data'[e].type = data[e].type
                      /\ data[e].aop \in Aops \ {a} /\ ao'[data[e].aop] = ao[data[e].aop]
                      /\ ao[data[e].aop].obj \in Objs
    OBVIOUS
  <2>1. place[e] # "free" /\ data'[e].aop = data[e].aop /\ data'[e].type = data[e].type
    BY DEF OpsKept, OpKept
  <2>2. data[e].aop \in Aops \ {a} /\ ao[data[e].aop] \in BlockType
    BY <1>1, <1>3, <2>1 DEF BlockOutlivesOps, TypeOK
  <2>3. ao[data[e].aop].obj \in Objs
    BY <1>1, <2>1, <2>2 DEF BlockInv, AttachedBlock, PostedBlock, Live, BlockOf, BlockType
  <2> QED BY <1>2, <2>1, <2>2, <2>3
<1>9. BlockInv'
  <2>1. \A x \in Objs : aopOf'[x] # NULL =>
          ao'[aopOf'[x]].alloc /\ ~ao'[aopOf'[x]].isCancel /\ ao'[aopOf'[x]].obj = x
    <3> SUFFICES ASSUME NEW x \in Objs, aopOf'[x] # NULL
                 PROVE  ao'[aopOf'[x]].alloc /\ ~ao'[aopOf'[x]].isCancel /\ ao'[aopOf'[x]].obj = x
      OBVIOUS
    <3>1. CASE x = o
      BY <1>2, <1>7, <3>1
    <3>2. CASE x # o
      <4>1. aopOf'[x] = aopOf[x] /\ aopOf[x] \in Aops \ {a}
        BY <1>1, <1>7, <3>2 DEF BlockInv, AttachedBlock, PostedBlock, TypeOK
      <4> QED BY <1>1, <1>2, <4>1 DEF BlockInv, AttachedBlock, PostedBlock
    <3> QED BY <3>1, <3>2
  <2>2. \A e \in Ops : place'[e] # "free" =>
          LET b == ao'[data'[e].aop]
          IN /\ data'[e].type \in FileTypes <=> b.obj \in Files
             /\ b.obj # NULL
             /\ ~b.isCancel => aopOf'[b.obj] = data'[e].aop
             /\ ~b.isCancel /\ data'[e].type \in {"rw", "close"} => isOpen'[b.obj]
    <3> SUFFICES ASSUME NEW e \in Ops, place'[e] # "free"
                 PROVE  LET b == ao[data[e].aop]
                        IN /\ data[e].type \in FileTypes <=> b.obj \in Files
                           /\ b.obj # NULL
                           /\ ~b.isCancel => aopOf'[b.obj] = data[e].aop
                           /\ ~b.isCancel /\ data[e].type \in {"rw", "close"} => isOpen'[b.obj]
      BY <1>8
    <3>1. place[e] # "free" /\ data[e].aop \in Aops /\ ao[data[e].aop].obj \in Objs
      BY <1>8
    <3>2. LET b == ao[data[e].aop]
          IN /\ data[e].type \in FileTypes <=> b.obj \in Files
             /\ b.obj # NULL
             /\ ~b.isCancel => aopOf[b.obj] = data[e].aop
             /\ ~b.isCancel /\ data[e].type \in {"rw", "close"} => isOpen[b.obj]
      BY <1>1, <3>1 DEF BlockInv, AttachedBlock, PostedBlock, Live, BlockOf
    <3>3. data[e].aop # NULL
      BY <1>1, <3>1 DEF ConstantsAssumption
    <3>4. ao[data[e].aop].obj = o => ao[data[e].aop].isCancel
      BY <3>2, <3>3
    <3>5. data[e].type \in {"rw", "close"} => ao[data[e].aop].obj \in Files
      BY <3>2 DEF FileTypes
    <3> QED BY <1>7, <3>1, <3>2, <3>4, <3>5
  <2>3. /\ \A f \in Files : isOpen'[f] => aopOf'[f] # NULL
        /\ closing' # NULL => isOpen'[closing']
    BY <1>1, <1>6, <1>7 DEF BlockInv, AttachedBlock, PostedBlock, TypeOK
  <2> QED BY <1>5, <2>1, <2>2, <2>3 DEF BlockInv, AttachedBlock, PostedBlock, Live, BlockOf
<1> QED BY <1>4, <1>9

\* Block a loses its object: it is deleted if nothing is outstanding on it any
\* more, and only marked otherwise.
DropsBlock(a) ==
  /\ \A e \in Ops : place'[e] # "free" =>
       place[e] # "free" /\ data'[e].aop = data[e].aop /\ data'[e].type = data[e].type
  /\ \A b \in Aops \ {a} : ao'[b] = ao[b] /\ Outstanding(b)' = Outstanding(b)
  /\ \/ ~ao'[a].alloc /\ Outstanding(a)' = {}
     \/ /\ ao'[a].alloc /\ ao'[a].isCancel /\ ao'[a].obj = ao[a].obj
        /\ ao'[a].opCount = Cardinality(Outstanding(a)')
  /\ \A x \in Objs : aopOf'[x] = IF aopOf[x] = a THEN NULL ELSE aopOf[x]
  /\ \A f \in Files : isOpen'[f] = (isOpen[f] /\ aopOf[f] # a)
  /\ closing' \in {NULL, closing}
  /\ closing' # NULL => aopOf[closing'] # a

LEMMA DropBlocks ==
  ASSUME IInv, NEW a \in Aops, ao[a].alloc, DropsBlock(a)
  PROVE  BlockInv' /\ OpCountExact'
<1>1. TypeOK /\ BlockInv /\ BlockOutlivesOps /\ ConstantsAssumption
  BY ConstantsAssumption DEF IInv, BlockInv
<1>2. OpCountExact'
  BY DEF IInv, OpCountExact, DropsBlock
<1>3. ASSUME NEW e \in Ops, place'[e] # "free"
      PROVE  /\ data'[e].aop \in Aops /\ ao'[data'[e].aop].alloc
             /\ data'[e].aop = data[e].aop /\ data'[e].type = data[e].type /\ PostedBlock(e)
             /\ ao'[data[e].aop].obj = ao[data[e].aop].obj
             /\ data[e].aop # a => ao'[data[e].aop] = ao[data[e].aop]
             /\ data[e].aop = a => ao'[a].isCancel
  <2>1. /\ place[e] # "free" /\ data'[e].aop = data[e].aop /\ data'[e].type = data[e].type
        /\ data[e].aop \in Aops /\ ao[data[e].aop].alloc /\ PostedBlock(e)
    BY <1>1, <1>3 DEF BlockInv, BlockOutlivesOps, Live, DropsBlock
  <2>2. CASE data[e].aop = a
    <3>1. e \in Outstanding(a)'
      BY <1>3, <2>1, <2>2 DEF Outstanding
    <3> QED BY <2>1, <2>2, <3>1 DEF DropsBlock
  <2>3. CASE data[e].aop # a
    BY <2>1, <2>3 DEF DropsBlock
  <2> QED BY <2>2, <2>3
<1>4. BlockOutlivesOps'
  BY <1>3 DEF BlockOutlivesOps
<1>5. ASSUME NEW x \in Objs, aopOf'[x] # NULL PROVE AttachedBlock(x)'
  <2>1. aopOf'[x] = aopOf[x] /\ aopOf[x] \in Aops \ {a} /\ AttachedBlock(x)
    BY <1>1, <1>5 DEF BlockInv, TypeOK, DropsBlock
  <2> QED BY <2>1 DEF AttachedBlock, DropsBlock
<1>6. ASSUME NEW e \in Ops, place'[e] # "free" PROVE PostedBlock(e)'
  <2>1. data[e].aop \in Aops /\ PostedBlock(e) /\ ao[data[e].aop] \in BlockType
    BY <1>1, <1>3, <1>6 DEF TypeOK
  <2>2. ao[data[e].aop].obj \in Objs
    BY <2>1 DEF PostedBlock, BlockType
  <2>3. data[e].type \in {"rw", "close"} => ao[data[e].aop].obj \in Files
    BY <2>1 DEF PostedBlock, FileTypes
  <2>4. CASE data[e].aop = a
    BY <1>3, <1>6, <2>1, <2>4 DEF PostedBlock
  <2>5. CASE data[e].aop # a
    <3>1. ao'[data'[e].aop] = ao[data[e].aop] /\ data'[e].type = data[e].type
            /\ data'[e].aop = data[e].aop
      BY <1>3, <1>6, <2>5
    <3>2. ~ao[data[e].aop].isCancel => aopOf'[ao[data[e].aop].obj] = data[e].aop
      BY <2>1, <2>2, <2>5 DEF PostedBlock, DropsBlock
    <3>3. ~ao[data[e].aop].isCancel /\ data[e].type \in {"rw", "close"}
            => isOpen'[ao[data[e].aop].obj]
      BY <2>1, <2>3, <2>5 DEF PostedBlock, DropsBlock
    <3> QED BY <2>1, <3>1, <3>2, <3>3 DEF PostedBlock
  <2> QED BY <2>4, <2>5
<1>7. /\ \A f \in Files : isOpen'[f] => aopOf'[f] # NULL
      /\ closing' # NULL => isOpen'[closing']
  BY <1>1 DEF BlockInv, TypeOK, Objs, DropsBlock
<1> QED BY <1>2, <1>4, <1>5, <1>6, <1>7 DEF BlockInv, Live

\* Operation d of block a is delivered to the object o, which keeps its block, or
\* forgets it if this was the only operation.
DeliversTo(d, a, o) ==
  /\ \A b \in Aops \ {a} : ao'[b] = ao[b]
  /\ ao'[a].alloc = ao[a].alloc /\ ao'[a].obj = ao[a].obj
  /\ ao'[a].isCancel = ao[a].isCancel /\ ao'[a].opCount = ao[a].opCount - 1
  /\ \A x \in Objs \ {o} : aopOf'[x] = aopOf[x]
  /\ \/ aopOf'[o] = a
     \/ aopOf'[o] = NULL /\ Outstanding(a) = {d}
  /\ \A f \in Files \ {o} : isOpen'[f] = isOpen[f]
  /\ o \in Files => /\ isOpen'[o] = isOpen[o] \/ Outstanding(a) = {d}
                    /\ isOpen'[o] => aopOf'[o] # NULL
  /\ closing' # NULL => closing' \in Files /\ isOpen'[closing']

LEMMA DeliverBlocks ==
  ASSUME IInv, NEW d \in Ops, NEW a \in Aops, a = data[d].aop, OpsReleased(d),
         NEW o \in Objs, aopOf[o] = a, DeliversTo(d, a, o)
  PROVE  BlockInv' /\ OpCountExact'
<1>1. TypeOK /\ BlockInv /\ BlockOutlivesOps /\ ConstantsAssumption
  BY ConstantsAssumption DEF IInv, BlockInv
<1>2. a # NULL /\ AttachedBlock(o) /\ ao[a].obj = o
  BY <1>1 DEF BlockInv, AttachedBlock, ConstantsAssumption
<1>3. OpCountExact'
  <2> SUFFICES ASSUME NEW b \in Aops, ao'[b].alloc
               PROVE  ao'[b].opCount = Cardinality(Outstanding(b)')
    BY DEF OpCountExact
  <2>1. CASE b = a
    BY <2>1, OutstandingReleased DEF IInv, OpCountExact, DeliversTo
  <2>2. CASE b # a
    BY <2>2, OutstandingReleased DEF IInv, OpCountExact, DeliversTo
  <2> QED BY <2>1, <2>2
<1>4. ASSUME NEW e \in Ops, place'[e] # "free"
      PROVE  /\ e # d /\ place[e] # "free" /\ data[e].aop \in Aops /\ ao[data[e].aop].alloc
             /\ data'[e].aop = data[e].aop /\ data'[e].type = data[e].type /\ PostedBlock(e)
             /\ ao'[data[e].aop].obj = ao[data[e].aop].obj
             /\ ao'[data[e].aop].isCancel = ao[data[e].aop].isCancel
             /\ ao'[data[e].aop].alloc = ao[data[e].aop].alloc
             /\ Outstanding(a) = {d} => data[e].aop # a
  <2>1. e # d
    BY <1>4 DEF OpsReleased
  <2>2. /\ place[e] # "free" /\ data'[e].aop = data[e].aop /\ data'[e].type = data[e].type
    BY <1>4, <2>1 DEF OpsReleased, OpKept
  <2>3. data[e].aop \in Aops /\ ao[data[e].aop].alloc /\ PostedBlock(e)
    BY <1>1, <2>2 DEF BlockInv, BlockOutlivesOps, Live
  <2>4. Outstanding(a) = {d} => data[e].aop # a
    BY <2>1, <2>2 DEF Outstanding
  <2> QED BY <2>1, <2>2, <2>3, <2>4 DEF DeliversTo
<1>5. BlockOutlivesOps'
  BY <1>4 DEF BlockOutlivesOps
<1>6. ASSUME NEW x \in Objs, aopOf'[x] # NULL PROVE AttachedBlock(x)'
  <2>1. aopOf'[x] = aopOf[x] /\ aopOf[x] \in Aops /\ AttachedBlock(x)
    BY <1>1, <1>2, <1>6 DEF BlockInv, TypeOK, DeliversTo
  <2> QED BY <2>1 DEF AttachedBlock, DeliversTo
<1>7. ASSUME NEW e \in Ops, place'[e] # "free" PROVE PostedBlock(e)'
  <2>1. ao[data[e].aop].obj \in Objs /\ data[e].aop # NULL
    BY <1>1, <1>4, <1>7 DEF PostedBlock, TypeOK, BlockType, ConstantsAssumption
  <2>2. data[e].type \in {"rw", "close"} => ao[data[e].aop].obj \in Files
    BY <1>4, <1>7 DEF PostedBlock, FileTypes
  <2>3. ~ao[data[e].aop].isCancel /\ ao[data[e].aop].obj = o => data[e].aop = a
    BY <1>4, <1>7 DEF PostedBlock
  <2>4. ~ao[data[e].aop].isCancel => aopOf'[ao[data[e].aop].obj] = data[e].aop
    BY <1>4, <1>7, <2>1, <2>3 DEF PostedBlock, DeliversTo
  <2>5. ~ao[data[e].aop].isCancel /\ data[e].type \in {"rw", "close"}
          => isOpen'[ao[data[e].aop].obj]
    BY ZenonT(60), <1>4, <1>7, <2>1, <2>2, <2>3 DEF PostedBlock, DeliversTo
  <2> QED BY <1>4, <1>7, <2>1, <2>4, <2>5 DEF PostedBlock
<1>8. /\ \A f \in Files : isOpen'[f] => aopOf'[f] # NULL
      /\ closing' # NULL => isOpen'[closing']
  BY ZenonT(60), <1>1 DEF BlockInv, TypeOK, Objs, DeliversTo
<1> QED BY <1>3, <1>5, <1>6, <1>7, <1>8 DEF BlockInv, Live

LEMMA PushWorkPosts ==
  ASSUME TypeOK, NEW d \in Ops, NEW t, NEW a, NEW fd, NEW blocks, PushWork(d, t, a, fd, blocks)
  PROVE  OpsPosted(d, t, a)
BY DEF PushWork, OpsPosted, OpKept, NewData, TypeOK

LEMMA DetachKeeps ==
  ASSUME TypeOK, NEW a \in Aops, DetachOutcome(a, ao, readyEvents, place), data' = data
  PROVE  OpsKept
BY DEF DetachOutcome, Dropped, OpsKept, OpKept

LEMMA DriveReleases ==
  ASSUME IInv, Drives, ReleaseData,
         \/ place' = Released
         \/ DetachOutcome(Key, Counted, Tail(readyEvents), Released)
  PROVE  OpsReleased(Done)
<1>1. Done \in Ops /\ place[Done] = "ready" /\ TypeOK
  BY DriveFacts DEF IInv
<1>2. /\ place'[Done] = "free"
      /\ \A e \in Ops \ {Done} : place'[e] # "free" <=> place[e] # "free"
  BY <1>1 DEF DetachOutcome, Released, Dropped, TypeOK
<1>3. \A e \in Ops \ {Done} : data'[e] = data[e]
  BY <1>1 DEF ReleaseData, TypeOK
<1> QED BY <1>1, <1>2, <1>3 DEF OpsReleased, OpKept

\* An object that detaches drops its block.
LEMMA DetachBlocks ==
  ASSUME IInv, NEW o \in Objs, NEW a \in Aops, aopOf[o] = a,
         Detach(a, ao, readyEvents, place),
         data' = data, aopOf' = [aopOf EXCEPT ![o] = NULL],
         \A f \in Files : isOpen'[f] = (isOpen[f] /\ f # o),
         closing' \in {NULL, closing}, closing' # o
  PROVE  BlockInv' /\ OpCountExact'
<1>1. TypeOK /\ BlockInv /\ PlaceInv /\ a # NULL /\ AttachedBlock(o) /\ ao[a].alloc
  BY ConstantsAssumption DEF IInv, BlockInv, AttachedBlock, ConstantsAssumption
<1>3. \A x \in Objs : aopOf[x] = a <=> x = o
  BY <1>1 DEF BlockInv, AttachedBlock
<1>4. DetachOutcome(a, ao, readyEvents, place)
  BY <1>1, DetachNow
<1>5. OpsKept
  BY <1>1, <1>4, DetachKeeps
<1>6. \A b \in Aops : Outstanding(b)' = Outstanding(b)
  BY <1>5, OutstandingKept
<1>7. \A e \in Ops : place'[e] # "free" =>
        place[e] # "free" /\ data'[e].aop = data[e].aop /\ data'[e].type = data[e].type
  BY <1>5 DEF OpsKept, OpKept
<1>8. \A b \in Aops \ {a} : ao'[b] = ao[b] /\ Outstanding(b)' = Outstanding(b)
  BY <1>1, <1>4, <1>6 DEF DetachOutcome, TypeOK
<1>9. \/ ~ao'[a].alloc /\ Outstanding(a)' = {}
      \/ /\ ao'[a].alloc /\ ao'[a].isCancel /\ ao'[a].obj = ao[a].obj
         /\ ao'[a].opCount = Cardinality(Outstanding(a)')
  <2>1. ao'[a] = DetachedBlock(ao[a]) /\ ao[a] \in BlockType
    BY <1>1, <1>4 DEF DetachOutcome, TypeOK
  <2>2. CASE ao[a].opCount = 0
    <3>1. ~ao'[a].alloc
      BY <2>1, <2>2 DEF DetachedBlock, FreeBlock
    <3>2. Outstanding(a)' = {}
      BY <1>1, <1>6, <2>2, CountFacts
    <3> QED BY <3>1, <3>2
  <2>3. CASE ao[a].opCount # 0
    <3>1. ao'[a].alloc /\ ao'[a].isCancel /\ ao'[a].obj = ao[a].obj
            /\ ao'[a].opCount = ao[a].opCount
      BY <1>1, <2>1, <2>3 DEF DetachedBlock, BlockType
    <3>2. ao[a].opCount = Cardinality(Outstanding(a)')
      BY <1>1, <1>6 DEF IInv, OpCountExact
    <3> QED BY <3>1, <3>2
  <2> QED BY <2>2, <2>3
<1>10. \A x \in Objs : aopOf'[x] = IF aopOf[x] = a THEN NULL ELSE aopOf[x]
  BY <1>1, <1>3 DEF TypeOK
<1>11. \A f \in Files : isOpen'[f] = (isOpen[f] /\ aopOf[f] # a)
  BY <1>3 DEF Objs
<1>12. closing' # NULL => aopOf[closing'] # a
  BY <1>1, <1>3 DEF TypeOK, Objs
<1>13. DropsBlock(a)
  BY <1>7, <1>8, <1>9, <1>10, <1>11, <1>12 DEF DropsBlock
<1> QED BY <1>1, <1>13, DropBlocks

LEMMA DisconnectBlocks ==
  ASSUME IInv, DriveDisconnect PROVE BlockInv' /\ OpCountExact'
<1> DEFINE s == ao[Key].obj
<1>1. Delivers("disc") /\ Drives /\ Key # NULL /\ "disc" \in OpTypes /\ "disc" \notin FileTypes
  BY DEF DriveDisconnect, Delivers, OpTypes, SockTypes, FileTypes
<1>2. /\ Key \in Aops /\ Key = data[Done].aop /\ Done \in Ops /\ ao[Key].alloc
      /\ Counted = [ao EXCEPT ![Key] = [ao[Key] EXCEPT !.opCount = ao[Key].opCount - 1]]
  BY <1>1, DriveCounts
<1>3. s \in Objs /\ s \notin Files /\ aopOf[s] = Key
  BY <1>1, DeliversFacts
<1>4. DetachOutcome(Key, Counted, Tail(readyEvents), Released) /\ ReleaseData
  BY DisconnectEffect DEF DriveDisconnect
<1>5. OpsReleased(Done)
  BY <1>1, <1>4, DriveReleases
<1>6. TypeOK /\ BlockInv /\ ao[Key] \in BlockType
  BY <1>2 DEF IInv, TypeOK
<1>7. \A e \in Ops : place'[e] # "free" =>
        place[e] # "free" /\ data'[e].aop = data[e].aop /\ data'[e].type = data[e].type
  BY <1>5 DEF OpsReleased, OpKept
<1>8. \A b \in Aops \ {Key} : ao'[b] = ao[b] /\ Outstanding(b)' = Outstanding(b)
  <2> SUFFICES ASSUME NEW b \in Aops, b # Key
               PROVE  ao'[b] = ao[b] /\ Outstanding(b)' = Outstanding(b)
    OBVIOUS
  <2>1. ao'[b] = ao[b]
    BY <1>2, <1>4, <1>6 DEF DetachOutcome, TypeOK
  <2>2. ASSUME NEW k \in Aops, k = data[Done].aop PROVE Outstanding(b)' = Outstanding(b)
    BY <1>2, <1>5, <2>2, OutstandingReleased
  <2> QED BY <1>2, <2>1, <2>2
<1>9. ASSUME NEW k \in Aops, k = Key
      PROVE  \/ ~ao'[k].alloc /\ Outstanding(k)' = {}
             \/ /\ ao'[k].alloc /\ ao'[k].isCancel /\ ao'[k].obj = ao[k].obj
                /\ ao'[k].opCount = Cardinality(Outstanding(k)')
  <2>1. ao'[k] = DetachedBlock([ao[k] EXCEPT !.opCount = ao[k].opCount - 1])
    BY <1>2, <1>4, <1>6, <1>9 DEF DetachOutcome, TypeOK
  <2>2. Cardinality(Outstanding(k)') = ao[k].opCount - 1
    BY <1>2, <1>5, <1>9, OutstandingReleased DEF IInv, OpCountExact
  <2>3. IsFiniteSet(Outstanding(k)')
    <3>1. Outstanding(k)' = Outstanding(k) \ {Done}
      BY <1>2, <1>5, <1>9, OutstandingReleased
    <3> QED BY <3>1, OutstandingFinite, FS_RemoveElement
  <2>4. CASE ao[k].opCount - 1 = 0
    BY <1>6, <1>9, <2>1, <2>2, <2>3, <2>4, FS_EmptySet DEF DetachedBlock, FreeBlock, BlockType
  <2>5. CASE ao[k].opCount - 1 # 0
    BY <1>2, <1>6, <1>9, <2>1, <2>2, <2>5 DEF DetachedBlock, BlockType
  <2> QED BY <2>4, <2>5
<1>10. \A x \in Objs : aopOf'[x] = IF aopOf[x] = Key THEN NULL ELSE aopOf[x]
  BY <1>2, <1>3, <1>6, ConstantsAssumption
     DEF DriveDisconnect, TypeOK, BlockInv, AttachedBlock, ConstantsAssumption
<1>11. isOpen' = isOpen /\ closing' = closing /\ closing = NULL
  BY DEF DriveDisconnect, CallbackRan, Delivers, Drives, EvDrives
<1>12. \A f \in Files : aopOf[f] # Key
  BY <1>2, <1>3, <1>6, ConstantsAssumption DEF BlockInv, AttachedBlock, ConstantsAssumption, Objs
<1> HIDE DEF s
<1>13. ASSUME NEW k \in Aops, k = Key PROVE BlockInv' /\ OpCountExact'
  <2>1. DropsBlock(k)
    <3>1. \/ ~ao'[k].alloc /\ Outstanding(k)' = {}
          \/ /\ ao'[k].alloc /\ ao'[k].isCancel /\ ao'[k].obj = ao[k].obj
             /\ ao'[k].opCount = Cardinality(Outstanding(k)')
      BY <1>9, <1>13
    <3>2. \A b \in Aops \ {k} : ao'[b] = ao[b] /\ Outstanding(b)' = Outstanding(b)
      BY <1>8, <1>13
    <3>3. /\ \A x \in Objs : aopOf'[x] = IF aopOf[x] = k THEN NULL ELSE aopOf[x]
          /\ \A f \in Files : isOpen'[f] = (isOpen[f] /\ aopOf[f] # k)
          /\ closing' \in {NULL, closing} /\ (closing' # NULL => aopOf[closing'] # k)
      BY <1>6, <1>10, <1>11, <1>12, <1>13 DEF TypeOK
    <3> QED BY <1>7, <3>1, <3>2, <3>3 DEF DropsBlock
  <2> QED BY <1>2, <1>13, <2>1, DropBlocks
<1> QED BY <1>2, <1>13

\* The block of an object that has already detached.
LEMMA CancelledBlocks ==
  ASSUME IInv, DriveCancelled PROVE BlockInv' /\ OpCountExact'
<1>1. /\ Drives /\ Key # NULL /\ ReleaseData /\ place' = Released
      /\ ao' = [Counted EXCEPT ![Key] = Spent(Counted[Key])]
      /\ UNCHANGED appVars /\ closing' = closing /\ ao[Key].isCancel
  BY DEF DriveCancelled
<1>2. /\ Key \in Aops /\ Key = data[Done].aop /\ Done \in Ops /\ ao[Key].alloc
      /\ Counted = [ao EXCEPT ![Key] = [ao[Key] EXCEPT !.opCount = ao[Key].opCount - 1]]
  BY <1>1, DriveCounts
<1>3. TypeOK /\ BlockInv /\ ao[Key] \in BlockType
  BY <1>2 DEF IInv, TypeOK
<1>4. OpsReleased(Done)
  BY <1>1, DriveReleases
<1>5. ASSUME NEW a \in Aops, a = Key PROVE BlockInv' /\ OpCountExact'
  <2>1. \A e \in Ops : place'[e] # "free" =>
          place[e] # "free" /\ data'[e].aop = data[e].aop /\ data'[e].type = data[e].type
    BY <1>4 DEF OpsReleased, OpKept
  <2>2. \A b \in Aops \ {a} : ao'[b] = ao[b] /\ Outstanding(b)' = Outstanding(b)
    BY <1>1, <1>2, <1>3, <1>4, <1>5, OutstandingReleased DEF TypeOK
  <2>3. ao'[a] = Spent([ao[a] EXCEPT !.opCount = ao[a].opCount - 1])
    BY <1>1, <1>2, <1>3, <1>5 DEF TypeOK
  <2>4. Cardinality(Outstanding(a)') = ao[a].opCount - 1
          /\ Outstanding(a)' = Outstanding(a) \ {Done}
    BY <1>2, <1>4, <1>5, OutstandingReleased DEF IInv, OpCountExact
  <2>5. \/ ~ao'[a].alloc /\ Outstanding(a)' = {}
        \/ /\ ao'[a].alloc /\ ao'[a].isCancel /\ ao'[a].obj = ao[a].obj
           /\ ao'[a].opCount = Cardinality(Outstanding(a)')
    <3>1. CASE ao[a].opCount - 1 = 0
      <4>1. ~ao'[a].alloc
        BY <1>3, <1>5, <2>3, <3>1 DEF Spent, FreeBlock, BlockType
      <4>2. IsFiniteSet(Outstanding(a)')
        BY <2>4, OutstandingFinite, FS_RemoveElement
      <4> QED BY <2>4, <3>1, <4>1, <4>2, FS_EmptySet
    <3>2. CASE ao[a].opCount - 1 # 0
      BY SMTT(30), <1>1, <1>2, <1>3, <1>5, <2>3, <2>4, <3>2 DEF Spent, BlockType
    <3> QED BY <3>1, <3>2
  <2>6. \A x \in Objs : aopOf[x] # a
    BY <1>1, <1>3, <1>5, ConstantsAssumption DEF BlockInv, AttachedBlock, ConstantsAssumption
  <2>7. /\ \A x \in Objs : aopOf'[x] = IF aopOf[x] = a THEN NULL ELSE aopOf[x]
        /\ \A f \in Files : isOpen'[f] = (isOpen[f] /\ aopOf[f] # a)
        /\ closing' = closing /\ (closing' # NULL => aopOf[closing'] # a)
    BY <1>1, <1>3, <2>6 DEF TypeOK, appVars, Objs
  <2>8. DropsBlock(a)
    BY <2>1, <2>2, <2>5, <2>7 DEF DropsBlock
  <2> QED BY <1>2, <1>5, <2>8, DropBlocks
<1> QED BY <1>2, <1>5

\* What is known of an operation that runs a callback.
Delivered(t, o) ==
  /\ OpsReleased(Done) /\ Done \in Ops /\ data[Done].type = t /\ place[Done] = "ready"
  /\ Key \in Aops /\ Key # NULL /\ Key = data[Done].aop /\ ao[Key].alloc /\ ~ao[Key].isCancel
  /\ o = ao[Key].obj /\ o \in Objs /\ aopOf[o] = Key
  /\ t \in FileTypes <=> o \in Files
  /\ t \in {"rw", "close"} => isOpen[o]
  /\ t = "open" => \A k \in Aops : k = Key => Outstanding(k) = {Done}
  /\ closing = NULL
  /\ \A b \in Aops : b # Key => Counted[b] = ao[b]
  /\ Counted[Key].alloc = ao[Key].alloc /\ Counted[Key].obj = ao[Key].obj
  /\ Counted[Key].isCancel = ao[Key].isCancel /\ Counted[Key].opCount = ao[Key].opCount - 1
  /\ Counted[Key].handle = ao[Key].handle /\ Counted[Key].fileOpMutex = ao[Key].fileOpMutex

LEMMA DeliveredOp ==
  ASSUME IInv, NEW t \in OpTypes, Delivers(t), ReleaseData, place' = Released
  PROVE  Delivered(t, ao[Key].obj)
<1>1. /\ Drives /\ Key # NULL /\ ~ao[Key].isCancel /\ data[Done].type = t
      /\ ao[Key].obj \in Objs /\ aopOf[ao[Key].obj] = Key
      /\ (t \in FileTypes <=> ao[Key].obj \in Files)
  BY DeliversFacts
<1>2. /\ Done \in Ops /\ Key \in Aops /\ Key = data[Done].aop /\ ao[Key].alloc
      /\ Counted = [ao EXCEPT ![Key] = [ao[Key] EXCEPT !.opCount = ao[Key].opCount - 1]]
  BY <1>1, DriveCounts
<1>3. OpsReleased(Done)
  BY <1>1, DriveReleases
<1>4. place[Done] = "ready" /\ place[Done] # "free" /\ closing = NULL
  BY <1>1, DriveFacts DEF Drives, EvDrives
<1>5. t \in {"rw", "close"} => isOpen[ao[Key].obj]
  BY <1>1, <1>2, <1>4 DEF IInv, BlockInv, PostedBlock, Live
<1>6. ASSUME t = "open", NEW k \in Aops, k = Key PROVE Outstanding(k) = {Done}
  BY <1>1, <1>2, <1>4, <1>6 DEF IInv, MutexInv, Outstanding, Live
<1>7. TypeOK /\ ao[Key] \in BlockType
  BY <1>2 DEF IInv, TypeOK
<1>8. /\ \A b \in Aops : b # Key => Counted[b] = ao[b]
      /\ Counted[Key] = [ao[Key] EXCEPT !.opCount = ao[Key].opCount - 1]
  BY <1>2, <1>7 DEF TypeOK
<1>9. /\ Counted[Key].alloc = ao[Key].alloc /\ Counted[Key].obj = ao[Key].obj
      /\ Counted[Key].isCancel = ao[Key].isCancel
      /\ Counted[Key].opCount = ao[Key].opCount - 1
      /\ Counted[Key].handle = ao[Key].handle
      /\ Counted[Key].fileOpMutex = ao[Key].fileOpMutex
  BY <1>7, <1>8 DEF BlockType
<1> QED BY <1>1, <1>2, <1>3, <1>4, <1>5, <1>6, <1>8, <1>9 DEF Delivered

LEMMA DeliveredBlocks ==
  ASSUME IInv, NEW t \in OpTypes, NEW o, Delivered(t, o),
         NEW a \in Aops, a = Key, DeliversTo(Done, a, o)
  PROVE  BlockInv' /\ OpCountExact'
<1>1. Done \in Ops /\ a = data[Done].aop /\ OpsReleased(Done) /\ o \in Objs /\ aopOf[o] = a
  BY DEF Delivered
<1> QED BY <1>1, DeliverBlocks

LEMMA ReadWriteBlocks ==
  ASSUME IInv, DriveReadWrite \/ DriveClose PROVE BlockInv' /\ OpCountExact'
<1>1. PICK t \in OpTypes : Delivers(t) /\ (t = "close" <=> DriveClose)
  BY DEF DriveReadWrite, DriveClose, Delivers, OpTypes, FileTypes, SockTypes
<1>2. place' = Released /\ ReleaseData /\ ao' = Counted /\ UNCHANGED appVars
        /\ closing' \in {closing, ao[Key].obj} /\ (closing' # closing => DriveClose)
  BY DEF DriveReadWrite, DriveClose, CallbackRan
<1>3. Delivered(t, ao[Key].obj)
  BY <1>1, <1>2, DeliveredOp
<1>4. ASSUME NEW a \in Aops, a = Key, NEW o, o = ao[Key].obj PROVE BlockInv' /\ OpCountExact'
  <2>1. Delivered(t, o)
    BY <1>3, <1>4
  <2>2. aopOf' = aopOf /\ isOpen' = isOpen
    BY <1>2 DEF appVars
  <2>3. closing' # NULL => t = "close" /\ closing' = o /\ o \in Files /\ isOpen'[o]
    BY <1>1, <1>2, <1>4, <2>1, <2>2 DEF Delivered, FileTypes
  <2>4. isOpen[o] /\ o \in Files => aopOf[o] # NULL
    BY DEF IInv, BlockInv
  <2>5. DeliversTo(Done, a, o)
    <3>1. /\ \A b \in Aops \ {a} : ao'[b] = ao[b]
          /\ ao'[a].alloc = ao[a].alloc /\ ao'[a].obj = ao[a].obj
          /\ ao'[a].isCancel = ao[a].isCancel /\ ao'[a].opCount = ao[a].opCount - 1
      BY <1>2, <1>4, <2>1 DEF Delivered
    <3>2. aopOf[o] = a
      BY <1>4, <2>1 DEF Delivered
    <3>3. /\ \A x \in Objs \ {o} : aopOf'[x] = aopOf[x]
          /\ \A f \in Files \ {o} : isOpen'[f] = isOpen[f]
          /\ aopOf'[o] = a /\ isOpen'[o] = isOpen[o]
      BY <2>2, <3>2
    <3>4. o \in Files /\ isOpen'[o] => aopOf'[o] # NULL
      BY <2>2, <2>4
    <3>5. closing' # NULL => closing' \in Files /\ isOpen'[closing']
      BY <2>3
    <3> QED BY <3>1, <3>3, <3>4, <3>5 DEF DeliversTo
  <2> QED BY <1>4, <2>1, <2>5, DeliveredBlocks
<1> QED BY <1>3, <1>4 DEF Delivered

LEMMA OpenBlocks ==
  ASSUME IInv, DriveOpen PROVE BlockInv' /\ OpCountExact'
<1>1. /\ "open" \in OpTypes /\ Delivers("open") /\ place' = Released /\ ReleaseData
      /\ closing' = closing
  BY DEF DriveOpen, CallbackRan, OpTypes, FileTypes
<1>2. Delivered("open", ao[Key].obj)
  BY <1>1, DeliveredOp
<1>3. TypeOK
  BY DEF IInv
<1>4. ASSUME NEW a \in Aops, a = Key, NEW o, o = ao[Key].obj PROVE BlockInv' /\ OpCountExact'
  <2>1. Delivered("open", o) /\ Outstanding(a) = {Done} /\ o \in Files /\ o \in Objs
          /\ aopOf[o] = a /\ a # NULL /\ closing' = NULL
    BY <1>1, <1>2, <1>4 DEF Delivered, FileTypes
  <2>2. \/ /\ ao' = [Counted EXCEPT ![Key].handle = data[Done].handle,
                                    ![Key].fileOpMutex = "free"]
           /\ isOpen' = [isOpen EXCEPT ![o] = TRUE] /\ aopOf' = aopOf
        \/ ao' = Counted /\ isOpen' = [isOpen EXCEPT ![o] = FALSE]
             /\ aopOf' \in {aopOf, [aopOf EXCEPT ![o] = NULL]}
    BY <1>4 DEF DriveOpen
  <2>3. Counted \in [Aops -> BlockType]
    BY <1>1, DriveCounts DEF Delivers
  <2>4. /\ \A b \in Aops \ {a} : ao'[b] = Counted[b]
        /\ ao'[a].alloc = Counted[a].alloc /\ ao'[a].obj = Counted[a].obj
        /\ ao'[a].isCancel = Counted[a].isCancel /\ ao'[a].opCount = Counted[a].opCount
    BY <1>4, <2>2, <2>3 DEF BlockType
  <2>5. /\ \A x \in Objs \ {o} : aopOf'[x] = aopOf[x]
        /\ aopOf'[o] = a \/ aopOf'[o] = NULL
        /\ \A f \in Files \ {o} : isOpen'[f] = isOpen[f]
        /\ isOpen'[o] => aopOf'[o] # NULL
    BY <1>3, <2>1, <2>2 DEF TypeOK
  <2>6. DeliversTo(Done, a, o)
    BY ZenonT(60), <1>4, <2>1, <2>4, <2>5 DEF Delivered, DeliversTo
  <2> QED BY <1>1, <1>4, <2>1, <2>6, DeliveredBlocks
<1> QED BY <1>2, <1>4 DEF Delivered

\* An accept without a socket for it is delivered like any other operation.  Else
\* the new block is the socket's, and it had nothing outstanding.
LEMMA AcceptBlocks ==
  ASSUME IInv, DriveAccept PROVE BlockInv' /\ OpCountExact'
<1>1. /\ "accept" \in OpTypes /\ Delivers("accept") /\ place' = Released /\ ReleaseData
      /\ closing' = closing /\ isOpen' = isOpen
  BY DEF DriveAccept, CallbackRan, OpTypes, SockTypes
<1>2. Delivered("accept", ao[Key].obj)
  BY <1>1, DeliveredOp
<1>3. TypeOK /\ BlockInv /\ ConstantsAssumption
  BY ConstantsAssumption DEF IInv
<1>4. CASE ao' = Counted /\ aopOf' = aopOf
  <2>1. ASSUME NEW a \in Aops, a = Key, NEW o, o = ao[Key].obj PROVE BlockInv' /\ OpCountExact'
    <3>1. Delivered("accept", o)
      BY <1>2, <2>1
    <3>2. \A f \in Files : isOpen[f] => aopOf[f] # NULL
      BY <1>3 DEF BlockInv
    <3>3. closing' = NULL
      BY <1>1, <3>1 DEF Delivered
    <3>4. DeliversTo(Done, a, o)
      <4>1. /\ \A b \in Aops \ {a} : ao'[b] = ao[b]
            /\ ao'[a].alloc = ao[a].alloc /\ ao'[a].obj = ao[a].obj
            /\ ao'[a].isCancel = ao[a].isCancel /\ ao'[a].opCount = ao[a].opCount - 1
        BY <1>4, <2>1, <3>1 DEF Delivered
      <4>2. aopOf[o] = a
        BY <2>1, <3>1 DEF Delivered
      <4>3. /\ \A x \in Objs \ {o} : aopOf'[x] = aopOf[x]
            /\ \A f \in Files \ {o} : isOpen'[f] = isOpen[f]
            /\ aopOf'[o] = a /\ isOpen'[o] = isOpen[o]
        BY <1>1, <1>4, <4>2
      <4>4. o \in Files /\ isOpen'[o] => aopOf'[o] # NULL
        BY <1>1, <1>4, <3>2
      <4> QED BY <3>3, <4>1, <4>3, <4>4 DEF DeliversTo
    <3> QED BY <1>1, <2>1, <3>1, <3>4, DeliveredBlocks
  <2> QED BY <1>2, <2>1 DEF Delivered
<1>5. CASE \E s \in Socks, n \in Aops :
             /\ aopOf[s] = NULL /\ ~ao[n].alloc
             /\ ao' = [Counted EXCEPT ![n] = NewBlock(s, data[Done].user, "free")]
             /\ aopOf' = [aopOf EXCEPT ![s] = n]
  <2>1. PICK s \in Socks, n \in Aops :
             /\ aopOf[s] = NULL /\ ~ao[n].alloc
             /\ ao' = [Counted EXCEPT ![n] = NewBlock(s, data[Done].user, "free")]
             /\ aopOf' = [aopOf EXCEPT ![s] = n]
    BY <1>5
  <2>2. s \in Objs /\ s # NULL /\ n # NULL /\ s \notin Files
    BY <1>3 DEF Objs, ConstantsAssumption
  <2>3. Counted \in [Aops -> BlockType]
    BY <1>1, DriveCounts DEF Delivers
  <2>4. /\ n # Key /\ \A b \in Aops \ {n} : ao'[b] = Counted[b]
        /\ ao'[n].alloc /\ ao'[n].obj = s /\ ~ao'[n].isCancel /\ ao'[n].opCount = 0
    BY <1>2, <2>1, <2>3 DEF Delivered, NewBlock
  <2>5. \A b \in Aops \ {n} : /\ ao'[b].alloc = ao[b].alloc /\ ao'[b].obj = ao[b].obj
                              /\ ao'[b].isCancel = ao[b].isCancel
    BY ZenonT(60), <1>2, <2>4 DEF Delivered
  <2>6. \A e \in Ops : place'[e] # "free" =>
          /\ place[e] # "free" /\ data'[e].aop = data[e].aop /\ data'[e].type = data[e].type
          /\ data[e].aop \in Aops \ {n} /\ PostedBlock(e) /\ ao[data[e].aop].alloc
    <3> SUFFICES ASSUME NEW e \in Ops, place'[e] # "free"
                 PROVE  /\ place[e] # "free" /\ data'[e].aop = data[e].aop
                        /\ data'[e].type = data[e].type /\ data[e].aop \in Aops \ {n}
                        /\ PostedBlock(e) /\ ao[data[e].aop].alloc
      OBVIOUS
    <3>1. place[e] # "free" /\ data'[e].aop = data[e].aop /\ data'[e].type = data[e].type
      BY <1>2 DEF Delivered, OpsReleased, OpKept
    <3> QED BY <1>3, <2>1, <3>1 DEF BlockInv, BlockOutlivesOps, Live
  <2>7. BlockOutlivesOps'
    BY <2>5, <2>6 DEF BlockOutlivesOps
  <2>8. \A x \in Objs : aopOf'[x] = IF x = s THEN n ELSE aopOf[x]
    BY <1>3, <2>1 DEF TypeOK
  <2>9. ASSUME NEW x \in Objs, aopOf'[x] # NULL PROVE AttachedBlock(x)'
    <3>1. CASE x = s
      BY <2>4, <2>8, <3>1 DEF AttachedBlock
    <3>2. CASE x # s
      <4>1. aopOf'[x] = aopOf[x] /\ aopOf[x] \in Aops /\ AttachedBlock(x)
        BY <1>3, <2>8, <2>9, <3>2 DEF BlockInv, TypeOK
      <4> QED BY <2>1, <2>5, <4>1 DEF AttachedBlock
    <3> QED BY <3>1, <3>2
  <2>10. ASSUME NEW e \in Ops, place'[e] # "free" PROVE PostedBlock(e)'
    <3>1. /\ data[e].aop \in Aops \ {n} /\ PostedBlock(e) /\ data[e].aop # NULL
          /\ ao[data[e].aop] \in BlockType
      BY <1>3, <2>6, <2>10 DEF TypeOK, ConstantsAssumption
    <3>2. ao[data[e].aop].obj \in Objs
      BY <3>1 DEF PostedBlock, BlockType
    <3>3. ~ao[data[e].aop].isCancel => aopOf'[ao[data[e].aop].obj] = data[e].aop
      BY <2>1, <2>8, <3>1, <3>2 DEF PostedBlock
    <3> QED BY <1>1, <2>5, <2>6, <2>10, <3>1, <3>3 DEF PostedBlock
  <2>11. /\ \A f \in Files : isOpen'[f] => aopOf'[f] # NULL
         /\ closing' # NULL => isOpen'[closing']
    BY <1>1, <1>3, <2>2, <2>8 DEF BlockInv, Objs
  <2>12. ASSUME NEW b \in Aops, ao'[b].alloc PROVE ao'[b].opCount = Cardinality(Outstanding(b)')
    <3>1. CASE b = n
      <4>1. Outstanding(b)' = {}
        BY <2>6, <3>1 DEF Outstanding
      <4> QED BY <2>4, <3>1, <4>1, FS_EmptySet
    <3>2. CASE b # n /\ b = Key
      <4>1. Cardinality(Outstanding(b)') = Cardinality(Outstanding(b)) - 1
        BY <1>2, <3>2, OutstandingReleased DEF Delivered
      <4> QED BY <1>2, <2>4, <3>2, <4>1 DEF Delivered, IInv, OpCountExact
    <3>3. CASE b # n /\ b # Key
      <4>1. ASSUME NEW k \in Aops, k = Key PROVE Outstanding(b)' = Outstanding(b)
        BY <1>2, <3>3, <4>1, OutstandingReleased DEF Delivered
      <4>2. Outstanding(b)' = Outstanding(b)
        BY <1>2, <4>1 DEF Delivered
      <4> QED BY <1>2, <2>4, <2>12, <3>3, <4>2 DEF Delivered, IInv, OpCountExact
    <3> QED BY <3>1, <3>2, <3>3
  <2> QED BY <2>7, <2>9, <2>10, <2>11, <2>12 DEF BlockInv, Live, OpCountExact
<1> QED BY <1>4, <1>5 DEF DriveAccept

LEMMA BlockStep ==
  ASSUME IInv, [Next]_vars PROVE BlockInv' /\ OpCountExact'
<1>1. TypeOK /\ BlockInv /\ BlockOutlivesOps /\ ConstantsAssumption
  BY ConstantsAssumption DEF IInv, BlockInv
<1>2. CASE QuietNext
  BY <1>2, QuietBlocks
<1>3. ASSUME NEW f \in Files, NEW a \in Aops, NEW fd \in Fds, FileOpenSync(f, a, fd)
      PROVE  BlockInv' /\ OpCountExact'
  <2>1. f \in Objs /\ OpsKept
    BY <1>3 DEF Objs, FileOpenSync, OpsKept, OpKept
  <2>2. /\ ~ao[a].alloc /\ aopOf[f] = NULL /\ ao' = [ao EXCEPT ![a] = NewBlock(f, fd, "free")]
        /\ aopOf' = [aopOf EXCEPT ![f] = a] /\ closing' = closing
    BY <1>3 DEF FileOpenSync, Attach, mainVars
  <2>3. \A g \in Files : isOpen'[g] = (isOpen[g] \/ g = f)
    BY <1>1, <1>3 DEF FileOpenSync, TypeOK
  <2> QED BY <2>1, <2>2, <2>3, AttachBlocks
<1>4. ASSUME NEW s \in Socks, NEW a \in Aops, NEW fd \in Fds, SockOpen(s, a, fd)
      PROVE  BlockInv' /\ OpCountExact'
  <2>1. s \in Objs /\ s \notin Files /\ OpsKept
    BY <1>1, <1>4 DEF Objs, SockOpen, OpsKept, OpKept, ConstantsAssumption
  <2>2. /\ ~ao[a].alloc /\ aopOf[s] = NULL /\ ao' = [ao EXCEPT ![a] = NewBlock(s, fd, "free")]
        /\ aopOf' = [aopOf EXCEPT ![s] = a] /\ closing' = closing
    BY <1>4 DEF SockOpen, Attach, mainVars
  <2>3. \A g \in Files : isOpen'[g] = (isOpen[g] \/ g = s)
    BY <1>1, <1>4, <2>1 DEF SockOpen, TypeOK
  <2> QED BY <2>1, <2>2, <2>3, AttachBlocks
<1>5. ASSUME NEW f \in Files, NEW a \in Aops, NEW d \in Ops, FileOpenAsync(f, a, d)
      PROVE  BlockInv' /\ OpCountExact'
  \* The new block and its first operation come in one step.
  <2>1. /\ f \in Objs /\ f # NULL /\ a # NULL /\ ~ao[a].alloc /\ aopOf[f] = NULL
        /\ isOpen' = isOpen /\ closing' = closing /\ aopOf' = [aopOf EXCEPT ![f] = a]
    BY <1>1, <1>5 DEF FileOpenAsync, Objs, ConstantsAssumption, mainVars
  <2>2. OpsPosted(d, "open", a)
    BY <1>1, <1>5, PushWorkPosts DEF FileOpenAsync
  <2>3. /\ \A b \in Aops \ {a} : ao'[b] = ao[b]
        /\ ao'[a].alloc /\ ao'[a].obj = f /\ ~ao'[a].isCancel /\ ao'[a].opCount = 1
    BY <1>1, <1>5 DEF FileOpenAsync, PushWork, CountUp, NewBlock, TypeOK
  <2>4. ASSUME NEW b \in Aops, ao'[b].alloc PROVE ao'[b].opCount = Cardinality(Outstanding(b)')
    <3>1. CASE b = a
      <4>1. Outstanding(a) = {}
        BY <2>1, CountFacts
      <4>2. Cardinality(Outstanding(a)) = 0
        BY <4>1, FS_EmptySet
      <4> QED BY <2>2, <2>3, <3>1, <4>2, OutstandingPosted
    <3>2. CASE b # a
      BY <2>2, <2>3, <2>4, <3>2, OutstandingPosted DEF IInv, OpCountExact
    <3> QED BY <3>1, <3>2
  <2>5. \A e \in Ops : place'[e] # "free" =>
          \/ e = d /\ data'[e].aop = a /\ data'[e].type = "open"
          \/ /\ place[e] # "free" /\ data'[e].aop = data[e].aop /\ data'[e].type = data[e].type
             /\ data[e].aop \in Aops \ {a} /\ ao[data[e].aop].alloc /\ PostedBlock(e)
    <3> SUFFICES ASSUME NEW e \in Ops, place'[e] # "free", e # d
                 PROVE  /\ place[e] # "free" /\ data'[e].aop = data[e].aop
                        /\ data'[e].type = data[e].type /\ data[e].aop \in Aops \ {a}
                        /\ ao[data[e].aop].alloc /\ PostedBlock(e)
      BY <2>2 DEF OpsPosted
    <3>1. place[e] # "free" /\ data'[e].aop = data[e].aop /\ data'[e].type = data[e].type
      BY <2>2 DEF OpsPosted, OpKept
    <3> QED BY <1>1, <2>1, <3>1 DEF BlockInv, BlockOutlivesOps, Live
  <2>6. BlockOutlivesOps'
    BY <2>3, <2>5 DEF BlockOutlivesOps
  <2>7. \A x \in Objs : aopOf'[x] = IF x = f THEN a ELSE aopOf[x]
    BY <1>1, <2>1 DEF TypeOK
  <2>8. ASSUME NEW x \in Objs, aopOf'[x] # NULL PROVE AttachedBlock(x)'
    <3>1. CASE x = f
      BY <2>3, <2>7, <3>1 DEF AttachedBlock
    <3>2. CASE x # f
      <4>1. aopOf'[x] = aopOf[x] /\ aopOf[x] \in Aops /\ AttachedBlock(x)
        BY <1>1, <2>7, <2>8, <3>2 DEF BlockInv, TypeOK
      <4> QED BY <2>1, <2>3, <4>1 DEF AttachedBlock
    <3> QED BY <3>1, <3>2
  <2>9. ASSUME NEW e \in Ops, place'[e] # "free" PROVE PostedBlock(e)'
    <3>1. CASE e = d /\ data'[e].aop = a /\ data'[e].type = "open"
      BY <2>1, <2>3, <2>7, <3>1 DEF PostedBlock, FileTypes
    <3>2. CASE /\ place[e] # "free" /\ data'[e].aop = data[e].aop /\ data'[e].type = data[e].type
               /\ data[e].aop \in Aops \ {a} /\ ao[data[e].aop].alloc /\ PostedBlock(e)
      <4>1. data[e].aop # NULL /\ ao[data[e].aop] \in BlockType
        BY <1>1, <3>2 DEF TypeOK, ConstantsAssumption
      <4>2. ao[data[e].aop].obj \in Objs
        BY <3>2, <4>1 DEF PostedBlock, BlockType
      <4>3. ~ao[data[e].aop].isCancel => aopOf'[ao[data[e].aop].obj] = data[e].aop
        BY <2>1, <2>7, <3>2, <4>1, <4>2 DEF PostedBlock
      <4> QED BY <2>1, <2>3, <3>2, <4>3 DEF PostedBlock
    <3> QED BY <2>5, <2>9, <3>1, <3>2
  <2>10. /\ \A g \in Files : isOpen'[g] => aopOf'[g] # NULL
         /\ closing' # NULL => isOpen'[closing']
    BY <1>1, <2>1, <2>7 DEF BlockInv, Objs
  <2> QED BY <2>4, <2>6, <2>8, <2>9, <2>10 DEF BlockInv, Live, OpCountExact
<1>6. ASSUME NEW f \in Files, NEW d \in Ops, FileReadWrite(f, d) \/ FileCloseAsync(f, d)
      PROVE  BlockInv' /\ OpCountExact'
  <2>1. PICK t \in {"rw", "close"} : PushWork(d, t, aopOf[f], handleOf[f], ao)
    BY <1>6 DEF FileReadWrite, FileCloseAsync
  <2>2. /\ f \in Objs /\ isOpen[f] /\ aopOf[f] \in Aops /\ t \in OpTypes /\ t \in FileTypes
        /\ UNCHANGED appVars /\ closing' = closing
    BY <1>1, <1>6, <2>1
       DEF FileReadWrite, FileCloseAsync, Objs, BlockInv, TypeOK, OpTypes, FileTypes, mainVars
  <2>3. OpsPosted(d, t, aopOf[f]) /\ ao' = CountUp(ao, aopOf[f])
    BY <1>1, <2>1, PushWorkPosts DEF PushWork
  <2> QED BY <2>2, <2>3, PostBlocks
<1>7. ASSUME NEW s \in Socks, NEW t \in SockTypes, NEW d \in Ops, SockPost(s, t, d)
      PROVE  BlockInv' /\ OpCountExact'
  <2>1. /\ s \in Objs /\ s \notin Files /\ aopOf[s] \in Aops /\ t \in OpTypes
        /\ t \notin FileTypes /\ UNCHANGED appVars /\ closing' = closing
    BY <1>1, <1>7 DEF SockPost, Objs, TypeOK, OpTypes, FileTypes, SockTypes, mainVars,
                      ConstantsAssumption
  <2>2. OpsPosted(d, t, aopOf[s]) /\ ao' = CountUp(ao, aopOf[s])
    BY <1>1, <1>7 DEF SockPost, OpsPosted, OpKept, NewData, TypeOK
  <2> QED BY <2>1, <2>2, PostBlocks DEF FileTypes
<1>8. ASSUME NEW f \in Files, FileCloseSync(f) \/ FileDestroyUnopened(f)
      PROVE  BlockInv' /\ OpCountExact'
  <2>1. /\ f \in Objs /\ aopOf[f] \in Aops /\ Detach(aopOf[f], ao, readyEvents, place)
        /\ data' = data /\ aopOf' = [aopOf EXCEPT ![f] = NULL]
        /\ closing' = closing /\ closing' # f
    BY <1>1, <1>8 DEF FileCloseSync, FileDestroyUnopened, BlockInv, TypeOK, Objs, mainVars
  <2>2. \A g \in Files : isOpen'[g] = (isOpen[g] /\ g # f)
    BY ZenonT(60), <1>1, <1>8 DEF FileCloseSync, FileDestroyUnopened, TypeOK
  <2> QED BY <2>1, <2>2, DetachBlocks
<1>9. ASSUME NEW s \in Socks, SockClose(s) PROVE BlockInv' /\ OpCountExact'
  <2>1. /\ s \in Objs /\ s \notin Files /\ aopOf[s] \in Aops
        /\ Detach(aopOf[s], ao, readyEvents, place)
        /\ data' = data /\ aopOf' = [aopOf EXCEPT ![s] = NULL] /\ closing' = closing
        /\ closing' # s /\ isOpen' = isOpen
    BY <1>1, <1>9 DEF SockClose, TypeOK, Objs, mainVars, ConstantsAssumption
  <2>2. \A g \in Files : isOpen'[g] = (isOpen[g] /\ g # s)
    BY <1>1, <2>1 DEF TypeOK
  <2> QED BY <2>1, <2>2, DetachBlocks
<1>10. CASE FinishClose
  <2>1. /\ closing \in Files /\ closing \in Objs /\ closing # NULL /\ aopOf[closing] \in Aops
        /\ Detach(aopOf[closing], ao, readyEvents, place)
        /\ data' = data /\ aopOf' = [aopOf EXCEPT ![closing] = NULL] /\ closing' = NULL
    BY <1>1, <1>10 DEF FinishClose, BlockInv, TypeOK, Objs
  <2>2. \A g \in Files : isOpen'[g] = (isOpen[g] /\ g # closing)
    BY <1>1, <1>10 DEF FinishClose, TypeOK
  <2>3. ASSUME NEW f \in Objs, f = closing PROVE BlockInv' /\ OpCountExact'
    BY <2>1, <2>2, <2>3, DetachBlocks
  <2> QED BY <2>1, <2>3
<1>11. CASE DriveCancelled \/ DriveReadWrite \/ DriveClose \/ DriveOpen \/ DriveDisconnect
              \/ DriveAccept
  BY <1>11, CancelledBlocks, ReadWriteBlocks, OpenBlocks, DisconnectBlocks, AcceptBlocks
<1> QED
  BY <1>2, <1>3, <1>4, <1>5, <1>6, <1>7, <1>8, <1>9, <1>10, <1>11
     DEF Next, AppNext, DriveNext, QuietNext

-----------------------------------------------------------------------------
(* PlaceInv.                                                               *)

LEMMA ReadyStep ==
  ASSUME IInv, [Next]_vars PROVE InReady(readyEvents', place')
<1>1. /\ TypeOK /\ PlaceInv /\ InReady(readyEvents, place)
      /\ readyEvents \in Seq(EventType) /\ place \in [Ops -> Places]
  BY DEF IInv, PlaceInv, TypeOK
<1>2. ASSUME readyEvents' = readyEvents,
             \A d \in Ops : place[d] = "ready" => place'[d] = "ready"
      PROVE  InReady(readyEvents', place')
  <2>1. \A i \in DOMAIN readyEvents : readyEvents[i].op \in Ops
    <3> TAKE i \in DOMAIN readyEvents
    <3>1. readyEvents[i] \in EventType
      BY <1>1
    <3> QED BY <3>1 DEF EventType
  <2> QED BY <1>1, <1>2, <2>1 DEF InReady
<1>3. ASSUME NEW a \in Aops, Detach(a, ao, readyEvents, place)
      PROVE  InReady(readyEvents', place')
  BY <1>1, <1>3, DetachNow DEF DetachOutcome
<1>4. ASSUME NEW d \in Ops, place[d] # "ready", NEW ck \in Aops \cup {NULL},
             PushComplete(d, ck), place' = [place EXCEPT ![d] = "ready"]
      PROVE  InReady(readyEvents', place')
  BY <1>1, <1>4, ReadyAppend DEF PushComplete
<1>5. CASE AppNext
  <2>1. CASE \E f \in Files, a \in Aops, d \in Ops : FileOpenAsync(f, a, d)
    BY <1>1, <1>2, <2>1 DEF FileOpenAsync, PushWork
  <2>2. CASE \E f \in Files, d \in Ops : FileReadWrite(f, d) \/ FileCloseAsync(f, d)
    BY <1>1, <1>2, <2>2 DEF FileReadWrite, FileCloseAsync, PushWork
  <2>3. CASE \E s \in Socks, t \in SockTypes, d \in Ops : SockPost(s, t, d)
    BY <1>1, <1>2, <2>3 DEF SockPost
  <2>4. CASE \E f \in Files : FileCloseSync(f) \/ FileDestroyUnopened(f)
    BY <1>1, <1>3, <2>4
       DEF FileCloseSync, FileDestroyUnopened, IInv, BlockInv, TypeOK, Objs
  <2>5. CASE \E s \in Socks : SockClose(s)
    BY <1>1, <1>3, <2>5 DEF SockClose, TypeOK, Objs
  <2> QED BY <1>2, <1>5, <2>1, <2>2, <2>3, <2>4, <2>5 DEF AppNext, FileOpenSync, SockOpen
<1>6. CASE EvNext
  <2>1. PICK d \in Ops : /\ place[d] = "pend" /\ place' = [place EXCEPT ![d] = "ready"]
                         /\ PushComplete(d, completeKey[data[d].handle])
    BY <1>6 DEF EvNext, CallbackEvIo, CallbackEvAccept
  <2>2. completeKey[data[d].handle] \in Aops \cup {NULL}
    BY <1>1, <2>1, PendFacts DEF TypeOK
  <2> QED BY <1>4, <2>1, <2>2
<1>7. ASSUME NEW w \in Workers, WorkerNext(w) PROVE InReady(readyEvents', place')
  <2>1. CASE WorkerQuit(w)
    BY <2>1, QuitEffect DEF QuitOutcome
  <2>2. CASE WorkerPost(w)
    <3>1. wop[w] \in Ops /\ place[wop[w]] = "working" /\ data[wop[w]].aop \in Aops
      BY <2>2, WorkFacts DEF WorkerPost
    <3> QED BY <1>4, <2>2, <3>1 DEF WorkerPost
  <2>3. CASE \E d \in Ops : WorkerTake(w, d)
    <3>1. PICK d \in Ops : WorkerTake(w, d)
      BY <2>3
    <3>2. place[d] = "queued"
      BY <3>1, ConstantsAssumption
         DEF WorkerTake, Scanned, IInv, ScanInv, PlaceInv, ConstantsAssumption
    <3> QED BY <1>1, <1>2, <3>1, <3>2 DEF WorkerTake
  <2> QED
    BY <1>2, <1>7, <2>1, <2>2, <2>3
       DEF WorkerNext, WorkerWake, WorkerLock, WorkerSkip, WorkerReadWrite, WorkerOpen,
           WorkerClose, WorkerUnlock
<1>8. CASE DriveNext
  <2>1. ASSUME Drives, NEW p \in Places, readyEvents' = Tail(readyEvents),
               place' = [place EXCEPT ![Done] = p]
        PROVE  InReady(readyEvents', place')
    BY <2>1, DriveFacts
  <2>2. CASE DriveKeyless
    BY <2>1, <2>2 DEF DriveKeyless, Places
  <2>3. CASE DriveCancelled \/ DriveReadWrite \/ DriveOpen \/ DriveClose \/ DriveAccept
    <3>1. Drives /\ readyEvents' = Tail(readyEvents) /\ place' = Released
      BY <2>3 DEF DriveCancelled, DriveReadWrite, DriveOpen, DriveClose, DriveAccept, Delivers
    <3> QED BY <2>1, <3>1 DEF Released, Places
  <2>4. CASE FinishClose
    <3>1. aopOf[closing] \in Aops /\ Detach(aopOf[closing], ao, readyEvents, place)
      BY <1>1, <2>4 DEF FinishClose, IInv, BlockInv, TypeOK, Objs
    <3> QED BY <1>3, <3>1
  <2>5. CASE DriveDisconnect
    BY <2>5, DisconnectEffect DEF DetachOutcome
  <2> QED BY <1>8, <2>2, <2>3, <2>4, <2>5 DEF DriveNext
<1>9. CASE UninitNext \/ Terminated \/ UNCHANGED vars
  BY <1>2, <1>9 DEF UninitNext, UninitBegin, UninitJoin, UninitClosePort, Terminated, vars
<1> QED BY <1>5, <1>6, <1>7, <1>8, <1>9 DEF Next

\* The rest of PlaceInv: the list and the workers.
QueueInv ==
  /\ \A i \in DOMAIN extraWorkList :
       extraWorkList[i] # QUIT => place[extraWorkList[i]] = "queued"
  /\ \A i, j \in DOMAIN extraWorkList : extraWorkList[i] = extraWorkList[j] => i = j
  /\ \A w \in Workers : wop[w] # NULL <=> wpc[w] \in {"io", "unlock", "post"}
  /\ \A w \in Workers : wop[w] # NULL => place[wop[w]] = "working"
  /\ \A v, w \in Workers : wop[v] # NULL /\ wop[v] = wop[w] => v = w

LEMMA QueueFrame ==
  ASSUME TypeOK, QueueInv, extraWorkList' = extraWorkList, wop' = wop,
         \A w \in Workers : wpc'[w] \in {"io", "unlock", "post"}
                              <=> wpc[w] \in {"io", "unlock", "post"},
         \A d \in Ops : place[d] \in {"queued", "working"} => place'[d] = place[d]
  PROVE  QueueInv'
<1>1. \A i \in DOMAIN extraWorkList : extraWorkList[i] \in Ops \cup {QUIT}
  BY DEF TypeOK
<1>2. \A w \in Workers : wop[w] \in Ops \cup {NULL}
  BY DEF TypeOK
<1> QED BY <1>1, <1>2 DEF QueueInv

LEMMA QueueStep ==
  ASSUME IInv, [Next]_vars PROVE QueueInv'
<1>1. TypeOK /\ QueueInv /\ ConstantsAssumption /\ extraWorkList \in Seq(Ops \cup {QUIT})
  BY ConstantsAssumption DEF IInv, PlaceInv, QueueInv, TypeOK
<1>2. \A i \in 1..Len(extraWorkList) : extraWorkList[i] \in Ops \cup {QUIT}
  BY <1>1
<1>3. ASSUME NEW d \in Ops, NEW t, NEW a, NEW fd, NEW blocks, PushWork(d, t, a, fd, blocks),
             UNCHANGED <<wop, wpc>>
      PROVE  QueueInv'
  <2>1. /\ place[d] = "free" /\ place' = [place EXCEPT ![d] = "queued"]
        /\ extraWorkList' = Append(extraWorkList, d)
    BY <1>3 DEF PushWork
  <2>2. /\ Len(extraWorkList') = Len(extraWorkList) + 1
        /\ extraWorkList'[Len(extraWorkList) + 1] = d
        /\ \A i \in 1..Len(extraWorkList) :
             extraWorkList'[i] = extraWorkList[i] /\ extraWorkList[i] # d
    BY <1>1, <2>1 DEF QueueInv, ConstantsAssumption
  <2>3. \A i \in DOMAIN extraWorkList' :
          extraWorkList'[i] # QUIT => place'[extraWorkList'[i]] = "queued"
    BY <1>1, <1>2, <2>1, <2>2 DEF QueueInv, TypeOK
  <2>4. \A i, j \in DOMAIN extraWorkList' : extraWorkList'[i] = extraWorkList'[j] => i = j
    BY <1>1, <2>1, <2>2 DEF QueueInv
  <2>5. \A w \in Workers : wop'[w] # NULL => place'[wop'[w]] = "working"
    BY <1>1, <1>3, <2>1 DEF QueueInv, TypeOK
  <2> QED BY <1>1, <1>3, <2>3, <2>4, <2>5 DEF QueueInv
<1>4. CASE AppNext
  <2>1. CASE \E f \in Files, a \in Aops, d \in Ops : FileOpenAsync(f, a, d)
    BY <1>3, <2>1 DEF FileOpenAsync, workerVars
  <2>2. CASE \E f \in Files, d \in Ops : FileReadWrite(f, d) \/ FileCloseAsync(f, d)
    BY <1>3, <2>2 DEF FileReadWrite, FileCloseAsync, workerVars
  <2>3. CASE \E s \in Socks, t \in SockTypes, d \in Ops : SockPost(s, t, d)
    BY <1>1, <2>3, QueueFrame DEF SockPost, listVars, workerVars
  <2>4. CASE \/ \E f \in Files : FileCloseSync(f) \/ FileDestroyUnopened(f)
             \/ \E s \in Socks : SockClose(s)
    <3>1. PICK a \in Aops : Detach(a, ao, readyEvents, place)
      BY <1>1, <2>4
         DEF FileCloseSync, FileDestroyUnopened, SockClose, IInv, BlockInv, TypeOK, Objs
    <3>2. \A d \in Ops : place[d] \in {"queued", "working"} => place'[d] = place[d]
      BY <3>1, DetachNow DEF DetachOutcome, Dropped, IInv
    <3> QED BY <1>1, <2>4, <3>2, QueueFrame
            DEF FileCloseSync, FileDestroyUnopened, SockClose, listVars, workerVars
  <2> QED BY <1>1, <1>4, <2>1, <2>2, <2>3, <2>4, QueueFrame
          DEF AppNext, FileOpenSync, SockOpen, listVars, workerVars
<1>5. CASE EvNext
  <2>1. /\ UNCHANGED <<extraWorkList, wop, wpc>>
        /\ \A d \in Ops : place[d] \in {"queued", "working"} => place'[d] = place[d]
    BY <1>1, <1>5
       DEF EvNext, CallbackEvIo, CallbackEvAccept, listVars, workerVars, TypeOK
  <2> QED BY <1>1, <2>1, QueueFrame
<1>6. ASSUME NEW w \in Workers, WorkerNext(w) PROVE QueueInv'
  <2>1. CASE WorkerQuit(w)
    <3>1. QuitOutcome
      BY <2>1, QuitEffect
    <3>2. wop' = wop /\ wpc' = [wpc EXCEPT ![w] = "out"] /\ wpc[w] = "scan"
      BY <2>1 DEF WorkerQuit, Goto
    <3>3. /\ extraWorkList' = <<QUIT>>
          /\ \A d \in Ops : place[d] = "working" => place'[d] = "working"
      BY <3>1 DEF QuitOutcome
    <3> QED BY <1>1, <3>2, <3>3 DEF QueueInv, TypeOK
  <2>2. CASE WorkerPost(w)
    <3>1. /\ wop[w] \in Ops /\ place[wop[w]] = "working" /\ wpc[w] = "post"
          /\ place' = [place EXCEPT ![wop[w]] = "ready"] /\ extraWorkList' = extraWorkList
          /\ wop' = [wop EXCEPT ![w] = NULL] /\ wpc' = [wpc EXCEPT ![w] = "lock"]
      BY <2>2, WorkFacts DEF WorkerPost, Goto, listVars
    <3>2. \A i \in DOMAIN extraWorkList' :
            extraWorkList'[i] # QUIT => place'[extraWorkList'[i]] = "queued"
      BY <1>1, <1>2, <3>1 DEF QueueInv, TypeOK
    <3> QED BY <1>1, <3>1, <3>2 DEF QueueInv, TypeOK, ConstantsAssumption
  <2>3. CASE \E d \in Ops : WorkerTake(w, d)
    <3>1. PICK d \in Ops : WorkerTake(w, d)
      BY <2>3
    <3>2. /\ wpc[w] = "scan" /\ wit[w] \in 1..Len(extraWorkList) /\ extraWorkList[wit[w]] = d
          /\ place[d] = "queued" /\ d # QUIT /\ wop[w] = NULL
      BY <1>1, <3>1
         DEF WorkerTake, Scanned, IInv, ScanInv, QueueInv, ConstantsAssumption
    <3>3. /\ place' = [place EXCEPT ![d] = "working"] /\ wop' = [wop EXCEPT ![w] = d]
          /\ wpc' = [wpc EXCEPT ![w] = "io"]
      BY <3>1 DEF WorkerTake, Goto
    <3>4. /\ extraWorkList' \in Seq(Ops \cup {QUIT})
          /\ Len(extraWorkList') = Len(extraWorkList) - 1
          /\ \A i \in 1..Len(extraWorkList) - 1 :
               extraWorkList'[i] = IF i < wit[w] THEN extraWorkList[i] ELSE extraWorkList[i + 1]
      BY <1>1, <3>1, <3>2, RemoveAtFacts DEF WorkerTake
    <3> DEFINE at(i) == IF i < wit[w] THEN i ELSE i + 1
    <3>5. \A i \in 1..Len(extraWorkList) - 1 :
            /\ at(i) \in 1..Len(extraWorkList) /\ at(i) # wit[w]
            /\ extraWorkList'[i] = extraWorkList[at(i)]
      BY <3>2, <3>4
    <3>6. \A i, j \in 1..Len(extraWorkList) - 1 : at(i) = at(j) => i = j
      BY <3>2
    <3> HIDE DEF at
    <3>7. ASSUME NEW i \in DOMAIN extraWorkList', extraWorkList'[i] # QUIT
          PROVE  place'[extraWorkList'[i]] = "queued"
      <4>1. i \in 1..Len(extraWorkList) - 1
        BY <3>4
      <4>2. extraWorkList[at(i)] \in Ops /\ extraWorkList[at(i)] # d
        BY <1>1, <1>2, <3>2, <3>5, <3>7, <4>1 DEF QueueInv
      <4> QED BY <1>1, <3>3, <3>5, <3>7, <4>1, <4>2 DEF QueueInv, TypeOK
    <3>8. ASSUME NEW i \in DOMAIN extraWorkList', NEW j \in DOMAIN extraWorkList',
                 extraWorkList'[i] = extraWorkList'[j]
          PROVE  i = j
      <4>1. i \in 1..Len(extraWorkList) - 1 /\ j \in 1..Len(extraWorkList) - 1
        BY <3>4
      <4>2. at(i) = at(j)
        BY <1>1, <3>5, <3>8, <4>1 DEF QueueInv
      <4> QED BY <3>6, <4>1, <4>2
    <3>9. /\ \A v \in Workers : wop'[v] # NULL <=> wpc'[v] \in {"io", "unlock", "post"}
          /\ \A v \in Workers : wop'[v] # NULL => place'[wop'[v]] = "working"
          /\ \A u, v \in Workers : wop'[u] # NULL /\ wop'[u] = wop'[v] => u = v
      BY <1>1, <3>2, <3>3 DEF QueueInv, TypeOK, ConstantsAssumption
    <3> QED BY <3>7, <3>8, <3>9 DEF QueueInv
  <2>4. CASE \/ WorkerWake(w) \/ WorkerLock(w) \/ WorkerReadWrite(w) \/ WorkerClose(w)
             \/ WorkerUnlock(w) \/ \E d \in Ops : WorkerSkip(w, d)
             \/ \E fd \in Fds \cup {NULL} : WorkerOpen(w, fd)
    <3>1. extraWorkList' = extraWorkList /\ wop' = wop /\ place' = place
      BY <2>4 DEF WorkerWake, WorkerLock, WorkerReadWrite, WorkerClose, WorkerUnlock, WorkerSkip,
                  WorkerOpen, listVars
    <3>2. \/ wpc[w] \in {"wait", "lock", "scan"}
               /\ \E pc \in {"wait", "lock", "scan"} : wpc' = [wpc EXCEPT ![w] = pc]
          \/ wpc[w] \in {"io", "unlock", "post"}
               /\ \E pc \in {"io", "unlock", "post"} : wpc' = [wpc EXCEPT ![w] = pc]
          \/ wpc' = wpc
      BY <2>4 DEF WorkerWake, WorkerLock, WorkerReadWrite, WorkerClose, WorkerUnlock, WorkerSkip,
                  WorkerOpen, Goto
    <3>3. \A v \in Workers : wpc'[v] \in {"io", "unlock", "post"}
                               <=> wpc[v] \in {"io", "unlock", "post"}
      BY <1>1, <3>2 DEF TypeOK
    <3> QED BY <1>1, <3>1, <3>3, QueueFrame
  <2> QED BY <1>6, <2>1, <2>2, <2>3, <2>4 DEF WorkerNext
<1>7. CASE DriveNext
  <2>1. \A d \in Ops : place[d] \in {"queued", "working"} => place'[d] = place[d]
    <3>1. CASE DriveKeyless \/ DriveCancelled \/ DriveReadWrite \/ DriveOpen \/ DriveClose
                 \/ DriveAccept
      <4>1. Drives /\ place' \in {Released, [place EXCEPT ![Done] = "lost"]}
        BY <3>1 DEF DriveKeyless, DriveCancelled, DriveReadWrite, DriveOpen, DriveClose,
                    DriveAccept, Delivers
      <4>2. place[Done] = "ready" /\ Done \in Ops
        BY <4>1, DriveFacts
      <4> QED BY <1>1, <4>1, <4>2 DEF Released, TypeOK
    <3>2. CASE FinishClose
      <4>1. aopOf[closing] \in Aops /\ Detach(aopOf[closing], ao, readyEvents, place)
        BY <1>1, <3>2 DEF FinishClose, IInv, BlockInv, TypeOK, Objs
      <4> QED BY <4>1, DetachNow DEF DetachOutcome, Dropped, IInv
    <3>3. CASE DriveDisconnect
      <4>1. Drives /\ DetachOutcome(Key, Counted, Tail(readyEvents), Released)
        BY <3>3, DisconnectEffect DEF DriveDisconnect, Delivers
      <4>2. place[Done] = "ready" /\ Done \in Ops
        BY <4>1, DriveFacts
      <4> QED BY <1>1, <4>1, <4>2 DEF DetachOutcome, Dropped, Released, TypeOK
    <3> QED BY <1>7, <3>1, <3>2, <3>3 DEF DriveNext
  <2>2. UNCHANGED <<extraWorkList, wop, wpc>>
    BY <1>7 DEF DriveNext, DriveKeyless, DriveCancelled, DriveReadWrite, DriveOpen, DriveClose,
                DriveAccept, FinishClose, DriveDisconnect, listVars, workerVars
  <2> QED BY <1>1, <2>1, <2>2, QueueFrame
<1>8. CASE UninitBegin
  <2>1. /\ extraWorkList' = Append(extraWorkList, QUIT) /\ UNCHANGED <<place, wop, wpc>>
        /\ \A i \in 1..Len(extraWorkList) : extraWorkList[i] # QUIT
    BY <1>1, <1>8 DEF UninitBegin, workerVars, IInv, ScanInv
  <2>2. /\ Len(extraWorkList') = Len(extraWorkList) + 1
        /\ extraWorkList'[Len(extraWorkList) + 1] = QUIT
        /\ \A i \in 1..Len(extraWorkList) : extraWorkList'[i] = extraWorkList[i]
    BY <1>1, <2>1
  <2>3. DOMAIN extraWorkList' = 1..Len(extraWorkList) + 1
    BY <1>1, <2>1
  <2> QED BY <1>1, <2>1, <2>2, <2>3 DEF QueueInv
<1>9. CASE UninitJoin
  BY <1>1, <1>9 DEF UninitJoin, workerVars, QueueInv
<1>10. CASE UninitClosePort \/ Terminated \/ UNCHANGED vars
  BY <1>1, <1>10, QueueFrame
     DEF UninitClosePort, Terminated, vars, listVars, workerVars
<1> QED BY <1>4, <1>5, <1>6, <1>7, <1>8, <1>9, <1>10 DEF Next, UninitNext

LEMMA PlaceStep ==
  ASSUME IInv, [Next]_vars PROVE PlaceInv'
BY ReadyStep, QueueStep DEF PlaceInv, QueueInv

-----------------------------------------------------------------------------
(* MutexInv.                                                               *)

\* No operation is posted and no worker takes one up; a block keeps its mutex,
\* is deleted, or has it set while nothing is outstanding on it.
MutexKept ==
  /\ \A e \in Ops : place'[e] # "free" =>
       place[e] # "free" /\ data'[e].aop = data[e].aop /\ data'[e].type = data[e].type
  /\ \A a \in Aops : \/ ao'[a].fileOpMutex = ao[a].fileOpMutex
                     \/ ~ao'[a].alloc
                     \/ /\ ao'[a].fileOpMutex # "none"
                        /\ \A e \in Ops : place'[e] # "free" => data[e].aop # a
  /\ \A x \in Objs : aopOf'[x] # NULL /\ (x \in Files => isOpen'[x]) =>
       \/ aopOf'[x] = aopOf[x] /\ (x \in Files => isOpen[x])
       \/ ao'[aopOf'[x]].fileOpMutex # "none"
  /\ \A w \in Workers : wpc'[w] \in {"io", "unlock"} =>
       wpc[w] \in {"io", "unlock"} /\ wop'[w] = wop[w]

LEMMA MutexKeptInv ==
  ASSUME IInv, TypeOK', PlaceInv', BlockInv', MutexKept PROVE MutexInv'
<1>1. TypeOK /\ PlaceInv /\ BlockInv /\ MutexInv /\ ConstantsAssumption
  BY ConstantsAssumption DEF IInv
<1>2. ASSUME NEW e \in Ops, place'[e] # "free"
      PROVE  /\ Live(e) /\ data'[e].aop = data[e].aop /\ data'[e].type = data[e].type
             /\ data[e].aop \in Aops
             /\ ao'[data[e].aop].fileOpMutex = ao[data[e].aop].fileOpMutex
  <2>1. Live(e) /\ data'[e].aop = data[e].aop /\ data'[e].type = data[e].type
    BY <1>2 DEF MutexKept, Live
  <2>2. data'[e].aop \in Aops /\ ao'[data'[e].aop].alloc
    BY <1>2 DEF BlockInv, BlockOutlivesOps
  <2> QED BY <1>2, <2>1, <2>2 DEF MutexKept
<1>3. ASSUME NEW e \in Ops, place'[e] # "free"
      PROVE  data'[e].type = "open" <=> ao'[data'[e].aop].fileOpMutex = "none"
  BY <1>1, <1>2, <1>3 DEF MutexInv, BlockOf
<1>4. ASSUME NEW d \in Ops, NEW e \in Ops, place'[d] # "free", place'[e] # "free",
             data'[d].type = "open", data'[d].aop = data'[e].aop
      PROVE  d = e
  BY <1>1, <1>2, <1>4 DEF MutexInv
<1>5. ASSUME NEW x \in Objs, aopOf'[x] # NULL, x \in Files => isOpen'[x]
      PROVE  ao'[aopOf'[x]].fileOpMutex # "none"
  <2> SUFFICES ASSUME aopOf'[x] = aopOf[x], x \in Files => isOpen[x]
               PROVE  ao'[aopOf'[x]].fileOpMutex # "none"
    BY <1>5 DEF MutexKept
  <2>1. aopOf[x] \in Aops /\ ao'[aopOf[x]].alloc
    BY <1>5 DEF BlockInv, AttachedBlock, TypeOK
  <2>2. ao[aopOf[x]].fileOpMutex # "none"
    BY <1>1, <1>5 DEF MutexInv, Objs
  <2> QED BY <2>1, <2>2 DEF MutexKept
<1>6. ASSUME NEW w \in Workers, wpc'[w] \in {"io", "unlock"}
      PROVE  ao'[data'[wop'[w]].aop].fileOpMutex \in {w, "none"}
  <2>1. wpc[w] \in {"io", "unlock"} /\ wop'[w] = wop[w]
    BY <1>6 DEF MutexKept
  <2>2. wop'[w] \in Ops /\ place'[wop'[w]] # "free"
    BY <1>6 DEF PlaceInv, TypeOK
  <2>3. ao[data[wop[w]].aop].fileOpMutex \in {w, "none"}
    BY <1>1, <2>1 DEF MutexInv, MutexOf
  <2> QED BY <1>2, <2>1, <2>2, <2>3
<1>7. ASSUME NEW f \in Files, isOpen'[f] PROVE ao'[aopOf'[f]].fileOpMutex # "none"
  BY <1>5, <1>7 DEF BlockInv, Objs
<1>8. ASSUME NEW s \in Socks, aopOf'[s] # NULL PROVE ao'[aopOf'[s]].fileOpMutex # "none"
  BY <1>1, <1>5, <1>8 DEF Objs, ConstantsAssumption
<1> QED BY <1>3, <1>4, <1>6, <1>7, <1>8 DEF MutexInv, Live, BlockOf, MutexOf

\* Another operation on a block that has its mutex.
LEMMA MutexPosted ==
  ASSUME IInv, PlaceInv', TypeOK', NEW d \in Ops, NEW t, NEW a \in Aops,
         OpsPosted(d, t, a), t # "open",
         ao[a].fileOpMutex # "none", ao' = CountUp(ao, a), UNCHANGED <<appVars, wop, wpc>>
  PROVE  MutexInv'
<1>1. TypeOK /\ PlaceInv /\ BlockInv /\ MutexInv
  BY DEF IInv
<1>2. \A b \in Aops : ao'[b].fileOpMutex = ao[b].fileOpMutex
  BY <1>1 DEF CountUp, TypeOK, BlockType
<1>3. \A e \in Ops : place'[e] # "free" =>
        \/ e = d /\ data'[e].aop = a /\ data'[e].type = t
        \/ /\ Live(e) /\ data'[e].aop = data[e].aop /\ data'[e].type = data[e].type
           /\ data[e].aop \in Aops
  BY <1>1 DEF OpsPosted, OpKept, Live, BlockInv, BlockOutlivesOps
<1>4. ASSUME NEW e \in Ops, place'[e] # "free"
      PROVE  data'[e].type = "open" <=> ao'[data'[e].aop].fileOpMutex = "none"
  BY <1>1, <1>2, <1>3, <1>4 DEF MutexInv, BlockOf
<1>5. ASSUME NEW c \in Ops, NEW e \in Ops, place'[c] # "free", place'[e] # "free",
             data'[c].type = "open", data'[c].aop = data'[e].aop
      PROVE  c = e
  <2>1. /\ Live(c) /\ data'[c].aop = data[c].aop /\ data[c].type = "open"
        /\ ao[data[c].aop].fileOpMutex = "none"
    BY <1>1, <1>3, <1>5 DEF MutexInv, BlockOf
  <2>2. e # d
    BY <1>3, <1>5, <2>1 DEF OpsPosted
  <2> QED BY <1>1, <1>3, <1>5, <2>1, <2>2 DEF MutexInv
<1>6. /\ \A f \in Files : isOpen'[f] => ao'[aopOf'[f]].fileOpMutex # "none"
      /\ \A s \in Socks : aopOf'[s] # NULL => ao'[aopOf'[s]].fileOpMutex # "none"
  BY ZenonT(60), <1>1, <1>2 DEF MutexInv, appVars, TypeOK, Objs, BlockInv
<1>7. ASSUME NEW w \in Workers, wpc'[w] \in {"io", "unlock"}
      PROVE  ao'[data'[wop'[w]].aop].fileOpMutex \in {w, "none"}
  <2>1. wop[w] \in Ops /\ place[wop[w]] = "working" /\ wop' = wop /\ wpc' = wpc
    BY <1>7, WorkFacts
  <2>2. data'[wop[w]].aop = data[wop[w]].aop /\ data[wop[w]].aop \in Aops
    BY <1>1, <2>1 DEF OpsPosted, OpKept, BlockInv, BlockOutlivesOps
  <2> QED BY <1>1, <1>2, <1>7, <2>1, <2>2 DEF MutexInv, MutexOf
<1> QED BY <1>4, <1>5, <1>6, <1>7 DEF MutexInv, Live, BlockOf, MutexOf

\* What detach leaves of a block: its mutex, or nothing.
LEMMA DroppedMutex ==
  \A b \in BlockType : /\ \/ DetachedBlock(b).fileOpMutex = b.fileOpMutex
                          \/ ~DetachedBlock(b).alloc
                       /\ \/ Spent(b).fileOpMutex = b.fileOpMutex
                          \/ ~Spent(b).alloc
<1> SUFFICES ASSUME NEW b \in BlockType
             PROVE  /\ \/ DetachedBlock(b).fileOpMutex = b.fileOpMutex
                       \/ ~DetachedBlock(b).alloc
                    /\ \/ Spent(b).fileOpMutex = b.fileOpMutex
                       \/ ~Spent(b).alloc
  OBVIOUS
<1>1. ~FreeBlock.alloc
  BY DEF FreeBlock
<1>2. [b EXCEPT !.isCancel = TRUE].fileOpMutex = b.fileOpMutex
  BY DEF BlockType
<1> QED BY <1>1, <1>2 DEF DetachedBlock, Spent

LEMMA MutexStep ==
  ASSUME IInv, [Next]_vars, TypeOK', PlaceInv', BlockInv' PROVE MutexInv'
<1>1. TypeOK /\ PlaceInv /\ BlockInv /\ BlockOutlivesOps /\ MutexInv /\ ConstantsAssumption
  BY ConstantsAssumption DEF IInv, BlockInv
<1>2. ASSUME OpsKept, UNCHANGED appVars, ao' = ao,
             \A w \in Workers : wpc'[w] \in {"io", "unlock"} =>
               wpc[w] \in {"io", "unlock"} /\ wop'[w] = wop[w]
      PROVE  MutexInv'
  BY <1>2, MutexKeptInv DEF MutexKept, OpsKept, OpKept, appVars
<1>3. CASE EvNext \/ DriveKeyless \/ UninitNext \/ Terminated \/ UNCHANGED vars
  <2>1. OpsKept /\ UNCHANGED appVars
    BY <1>3, QuietEffect DEF QuietNext
  <2>2. UNCHANGED <<ao, wpc, wop>>
    BY <1>3 DEF EvNext, CallbackEvIo, CallbackEvAccept, DriveKeyless, UninitNext, UninitBegin,
                UninitJoin, UninitClosePort, Terminated, vars, workerVars
  <2> QED BY <1>2, <2>1, <2>2
<1>4. ASSUME NEW w \in Workers, WorkerNext(w) PROVE MutexInv'
  <2>1. OpsKept /\ BlocksKept /\ UNCHANGED appVars
    BY <1>4, QuietEffect DEF QuietNext
  <2>2. CASE \/ WorkerWake(w) \/ WorkerLock(w) \/ WorkerQuit(w) \/ WorkerPost(w)
             \/ WorkerReadWrite(w) \/ WorkerClose(w)
             \/ \E d \in Ops : WorkerSkip(w, d)
             \/ \E fd \in Fds \cup {NULL} : WorkerOpen(w, fd)
    <3>1. ao' = ao
      BY <2>2 DEF WorkerWake, WorkerLock, WorkerQuit, WorkerPost, WorkerReadWrite, WorkerClose,
                  WorkerSkip, WorkerOpen
    <3>2. \/ wop' = wop /\ wpc' = wpc
          \/ /\ wop' = wop
             /\ \E pc \in {"wait", "lock", "scan", "out"} : wpc' = [wpc EXCEPT ![w] = pc]
          \/ wop' = wop /\ wpc[w] = "io" /\ wpc' = [wpc EXCEPT ![w] = "unlock"]
          \/ wop' = [wop EXCEPT ![w] = NULL] /\ wpc' = [wpc EXCEPT ![w] = "lock"]
      BY <2>2 DEF WorkerWake, WorkerLock, WorkerQuit, WorkerPost, WorkerReadWrite, WorkerClose,
                  WorkerSkip, WorkerOpen, Goto
    <3>3. \A v \in Workers : wpc'[v] \in {"io", "unlock"} =>
            wpc[v] \in {"io", "unlock"} /\ wop'[v] = wop[v]
      BY <1>1, <3>2 DEF TypeOK
    <3> QED BY <1>2, <2>1, <3>1, <3>3
  \* The mutex of a block changes hands between no worker and w.
  <2>3. ASSUME NEW d \in Ops, place[d] # "free", MutexOf(d) # "none",
               NEW m \in {"free"} \cup Workers,
               ao' = [ao EXCEPT ![data[d].aop].fileOpMutex = m],
               \A v \in Workers : wpc'[v] \in {"io", "unlock"} =>
                 /\ wop'[v] \in Ops /\ place'[wop'[v]] # "free"
                 /\ data[wop'[v]].aop = data[d].aop => m = v
                 /\ data[wop'[v]].aop # data[d].aop => MutexOf(wop'[v]) \in {v, "none"}
        PROVE  MutexInv'
    <3>1. \A e \in Ops : place'[e] # "free" =>
            /\ Live(e) /\ data'[e].aop = data[e].aop /\ data'[e].type = data[e].type
            /\ data[e].aop \in Aops
      BY <1>1, <2>1 DEF OpsKept, OpKept, Live, BlockOutlivesOps
    <3>2. data[d].aop \in Aops
      BY <1>1, <2>3 DEF BlockOutlivesOps
    <3>3. \A a \in Aops : ao'[a].fileOpMutex = IF a = data[d].aop THEN m ELSE ao[a].fileOpMutex
      BY <1>1, <2>3, <3>2 DEF TypeOK, BlockType
    <3>4. m # "none" /\ ao[data[d].aop].fileOpMutex # "none"
      BY <1>1, <2>3 DEF ConstantsAssumption, MutexOf
    <3>5. \A a \in Aops : ao'[a].fileOpMutex = "none" <=> ao[a].fileOpMutex = "none"
      BY <3>3, <3>4
    <3>6. \A e \in Ops : place'[e] # "free" =>
            (data'[e].type = "open" <=> ao'[data'[e].aop].fileOpMutex = "none")
      BY <1>1, <3>1, <3>5 DEF MutexInv, BlockOf
    <3>7. \A c, e \in Ops : /\ place'[c] # "free" /\ place'[e] # "free"
                            /\ data'[c].type = "open" /\ data'[c].aop = data'[e].aop
                            => c = e
      BY <1>1, <3>1 DEF MutexInv
    <3>8. \A f \in Files : isOpen'[f] => ao'[aopOf'[f]].fileOpMutex # "none"
      <4> SUFFICES ASSUME NEW f \in Files, isOpen'[f] PROVE ao'[aopOf'[f]].fileOpMutex # "none"
        OBVIOUS
      <4>1. isOpen[f] /\ aopOf'[f] = aopOf[f] /\ aopOf[f] \in Aops
        BY <1>1, <2>1 DEF appVars, BlockInv, TypeOK, Objs
      <4> QED BY <1>1, <3>5, <4>1 DEF MutexInv
    <3>9. \A s \in Socks : aopOf'[s] # NULL => ao'[aopOf'[s]].fileOpMutex # "none"
      BY <1>1, <2>1, <3>5 DEF MutexInv, appVars, TypeOK, Objs
    <3>10. ASSUME NEW v \in Workers, wpc'[v] \in {"io", "unlock"}
           PROVE  ao'[data'[wop'[v]].aop].fileOpMutex \in {v, "none"}
      <4>1. /\ data'[wop'[v]].aop = data[wop'[v]].aop /\ data[wop'[v]].aop \in Aops
            /\ wop'[v] \in Ops
        BY <2>3, <3>1, <3>10
      <4> QED BY <2>3, <3>3, <3>10, <4>1 DEF MutexOf
    <3> QED BY <3>6, <3>7, <3>8, <3>9, <3>10 DEF MutexInv, Live, BlockOf, MutexOf
  <2>4. CASE \E d \in Ops : WorkerTake(w, d)
    <3>1. PICK d \in Ops : WorkerTake(w, d)
      BY <2>4
    <3>2. /\ wpc[w] = "scan" /\ place[d] = "queued" /\ data[d].aop \in Aops
          /\ place' = [place EXCEPT ![d] = "working"] /\ wop' = [wop EXCEPT ![w] = d]
          /\ wpc' = [wpc EXCEPT ![w] = "io"] /\ data' = data
          /\ MutexOf(d) \in {"none", "free"}
      BY <1>1, <3>1
         DEF WorkerTake, Goto, Scanned, IInv, ScanInv, PlaceInv, BlockOutlivesOps,
             ConstantsAssumption
    <3>3. ASSUME NEW v \in Workers, v # w, wpc'[v] \in {"io", "unlock"}
          PROVE  /\ wop'[v] = wop[v] /\ wop[v] \in Ops /\ place'[wop[v]] # "free"
                 /\ MutexOf(wop[v]) \in {v, "none"}
      <4>1. wpc[v] \in {"io", "unlock"} /\ wop'[v] = wop[v]
        BY <1>1, <3>2, <3>3 DEF TypeOK
      <4>2. wop[v] \in Ops /\ place[wop[v]] = "working"
        BY <4>1, WorkFacts
      <4> QED BY <1>1, <3>2, <4>1, <4>2 DEF MutexInv, TypeOK
    <3>4. wop'[w] = d /\ place'[d] # "free" /\ wpc'[w] = "io"
      BY <1>1, <3>2 DEF TypeOK
    <3>5. CASE MutexOf(d) = "none"
      <4>1. ao' = ao
        BY <3>1, <3>5 DEF WorkerTake
      <4>2. \A v \in Workers : wpc'[v] \in {"io", "unlock"} =>
              ao'[data'[wop'[v]].aop].fileOpMutex \in {v, "none"}
        BY <3>2, <3>3, <3>4, <3>5, <4>1 DEF MutexOf
      <4> QED BY <1>1, <2>1, <3>2, <4>1, <4>2
              DEF MutexInv, MutexOf, Live, BlockOf, OpsKept, OpKept, appVars
    <3>6. CASE MutexOf(d) # "none"
      <4>1. ao' = [ao EXCEPT ![data[d].aop].fileOpMutex = w] /\ MutexOf(d) = "free"
        BY <3>1, <3>2, <3>6 DEF WorkerTake
      <4>2. \A v \in Workers : wpc'[v] \in {"io", "unlock"} =>
              /\ wop'[v] \in Ops /\ place'[wop'[v]] # "free"
              /\ data[wop'[v]].aop = data[d].aop => w = v
              /\ data[wop'[v]].aop # data[d].aop => MutexOf(wop'[v]) \in {v, "none"}
        BY <1>1, <3>3, <3>4, <4>1 DEF MutexOf, ConstantsAssumption
      <4>3. place[d] # "free" /\ w \in {"free"} \cup Workers
        BY <3>2
      <4> QED BY <2>3, <3>6, <4>1, <4>2, <4>3
    <3> QED BY <3>5, <3>6
  <2>5. CASE WorkerUnlock(w)
    <3> DEFINE d == wop[w]
    <3>1. /\ wpc[w] = "unlock" /\ d \in Ops /\ place[d] = "working" /\ data[d].aop \in Aops
          /\ wpc' = [wpc EXCEPT ![w] = "post"] /\ UNCHANGED <<wop, place, data>>
          /\ MutexOf(d) \in {w, "none"}
      BY <1>1, <2>5, WorkFacts DEF WorkerUnlock, Goto, MutexInv
    <3>2. ASSUME NEW v \in Workers, wpc'[v] \in {"io", "unlock"}
          PROVE  /\ v # w /\ wpc[v] \in {"io", "unlock"} /\ wop[v] \in Ops
                 /\ place[wop[v]] = "working" /\ MutexOf(wop[v]) \in {v, "none"}
      <4>1. v # w /\ wpc[v] \in {"io", "unlock"}
        BY <1>1, <3>1, <3>2 DEF TypeOK
      <4> QED BY <1>1, <4>1, WorkFacts DEF MutexInv
    <3>3. CASE MutexOf(d) = "none"
      <4>1. ao' = ao
        BY <2>5, <3>3 DEF WorkerUnlock, MutexOf
      <4>2. \A v \in Workers : wpc'[v] \in {"io", "unlock"} =>
              wpc[v] \in {"io", "unlock"} /\ wop'[v] = wop[v]
        BY <3>1, <3>2
      <4> QED BY <1>2, <2>1, <4>1, <4>2
    <3>4. CASE MutexOf(d) # "none"
      <4>1. ao' = [ao EXCEPT ![data[d].aop].fileOpMutex = "free"] /\ MutexOf(d) = w
        BY <2>5, <3>1, <3>4 DEF WorkerUnlock, MutexOf
      <4>2. \A v \in Workers : wpc'[v] \in {"io", "unlock"} =>
              /\ wop'[v] \in Ops /\ place'[wop'[v]] # "free"
              /\ data[wop'[v]].aop = data[d].aop => "free" = v
              /\ data[wop'[v]].aop # data[d].aop => MutexOf(wop'[v]) \in {v, "none"}
        BY <3>1, <3>2, <3>4, <4>1 DEF MutexOf
      <4>3. place[d] # "free" /\ "free" \in {"free"} \cup Workers
        BY <3>1
      <4> HIDE DEF d
      <4> QED BY <2>3, <3>1, <3>4, <4>1, <4>2, <4>3
    <3> QED BY <3>3, <3>4
  <2> QED BY <1>4, <2>2, <2>4, <2>5 DEF WorkerNext
<1>5. ASSUME NEW o \in Objs, NEW a \in Aops, NEW fd, ~ao[a].alloc, aopOf[o] = NULL,
             ao' = [ao EXCEPT ![a] = NewBlock(o, fd, "free")],
             aopOf' = [aopOf EXCEPT ![o] = a], OpsKept,
             \A g \in Files : g # o => isOpen'[g] = isOpen[g], UNCHANGED <<wop, wpc>>
      PROVE  MutexInv'
  <2>1. /\ \A b \in Aops \ {a} : ao'[b] = ao[b]
        /\ ao'[a].fileOpMutex = "free"
        /\ \A x \in Objs : aopOf'[x] = IF x = o THEN a ELSE aopOf[x]
    BY <1>1, <1>5 DEF TypeOK, NewBlock
  <2>2. \A e \in Ops : place'[e] # "free" =>
          /\ place[e] # "free" /\ data'[e].aop = data[e].aop /\ data'[e].type = data[e].type
          /\ data[e].aop # a
    BY <1>1, <1>5 DEF OpsKept, OpKept, BlockOutlivesOps
  <2>3. MutexKept
    BY <1>5, <2>1, <2>2 DEF MutexKept
  <2> QED BY <2>3, MutexKeptInv
<1>6. ASSUME NEW f \in Files, NEW a \in Aops, NEW d \in Ops, FileOpenAsync(f, a, d)
      PROVE  MutexInv'
  <2>1. /\ f \in Objs /\ ~ao[a].alloc /\ aopOf[f] = NULL /\ ~isOpen[f] /\ isOpen' = isOpen
        /\ \A x \in Objs : aopOf'[x] = IF x = f THEN a ELSE aopOf[x]
        /\ UNCHANGED <<wop, wpc>>
    BY <1>1, <1>6 DEF FileOpenAsync, Objs, TypeOK, workerVars, BlockInv
  <2>2. OpsPosted(d, "open", a)
    BY <1>1, <1>6, PushWorkPosts DEF FileOpenAsync
  <2>3. /\ \A b \in Aops \ {a} : ao'[b] = ao[b]
        /\ ao'[a].fileOpMutex = "none"
    BY <1>1, <1>6 DEF FileOpenAsync, PushWork, CountUp, NewBlock, TypeOK
  <2>4. \A e \in Ops : place'[e] # "free" =>
          \/ e = d /\ data'[e].aop = a /\ data'[e].type = "open"
          \/ /\ Live(e) /\ data'[e].aop = data[e].aop /\ data'[e].type = data[e].type
             /\ data[e].aop \in Aops \ {a}
    BY <1>1, <2>1, <2>2 DEF OpsPosted, OpKept, BlockOutlivesOps, Live
  <2>5. \A e \in Ops : place'[e] # "free" =>
          (data'[e].type = "open" <=> ao'[data'[e].aop].fileOpMutex = "none")
    BY <1>1, <2>3, <2>4 DEF MutexInv, BlockOf
  <2>6. \A c, e \in Ops : /\ place'[c] # "free" /\ place'[e] # "free"
                          /\ data'[c].type = "open" /\ data'[c].aop = data'[e].aop
                          => c = e
    BY <1>1, <2>4 DEF MutexInv
  <2>7. /\ \A g \in Files : isOpen'[g] => ao'[aopOf'[g]].fileOpMutex # "none"
        /\ \A s \in Socks : aopOf'[s] # NULL => ao'[aopOf'[s]].fileOpMutex # "none"
    <3>1. ASSUME NEW x \in Objs, x # f, aopOf[x] # NULL
          PROVE  aopOf'[x] = aopOf[x] /\ aopOf[x] \in Aops \ {a}
      BY <1>1, <2>1, <3>1 DEF BlockInv, AttachedBlock, TypeOK
    <3>2. \A g \in Files : isOpen'[g] => g # f /\ aopOf[g] # NULL
      BY <1>1, <2>1 DEF BlockInv
    <3>3. \A s \in Socks : s # f
      BY <1>1 DEF ConstantsAssumption
    <3> QED BY <1>1, <2>1, <2>3, <3>1, <3>2, <3>3 DEF MutexInv, Objs
  <2>8. \A w \in Workers : wpc'[w] \in {"io", "unlock"} =>
          ao'[data'[wop'[w]].aop].fileOpMutex \in {w, "none"}
    <3> SUFFICES ASSUME NEW w \in Workers, wpc'[w] \in {"io", "unlock"}
                 PROVE  ao'[data'[wop'[w]].aop].fileOpMutex \in {w, "none"}
      OBVIOUS
    <3>1. wop'[w] = wop[w] /\ wop[w] \in Ops /\ place[wop[w]] = "working"
      BY <2>1, WorkFacts
    <3>2. /\ data'[wop[w]].aop = data[wop[w]].aop /\ data[wop[w]].aop \in Aops \ {a}
      BY <1>1, <2>1, <2>2, <3>1 DEF OpsPosted, OpKept, BlockOutlivesOps
    <3> QED BY <1>1, <2>1, <2>3, <3>1, <3>2 DEF MutexInv, MutexOf
  <2> QED BY <2>5, <2>6, <2>7, <2>8 DEF MutexInv, Live, BlockOf, MutexOf
<1>7. ASSUME NEW f \in Files, NEW d \in Ops, FileReadWrite(f, d) \/ FileCloseAsync(f, d)
      PROVE  MutexInv'
  <2>1. PICK t \in {"rw", "close"} : PushWork(d, t, aopOf[f], handleOf[f], ao)
    BY <1>7 DEF FileReadWrite, FileCloseAsync
  <2>2. /\ aopOf[f] \in Aops /\ t # "open" /\ UNCHANGED <<appVars, wop, wpc>>
        /\ ao[aopOf[f]].fileOpMutex # "none"
    BY <1>1, <1>7, <2>1
       DEF FileReadWrite, FileCloseAsync, Objs, BlockInv, MutexInv, TypeOK, workerVars
  <2>3. OpsPosted(d, t, aopOf[f]) /\ ao' = CountUp(ao, aopOf[f])
    BY <1>1, <2>1, PushWorkPosts DEF PushWork
  <2> QED BY <2>2, <2>3, MutexPosted
<1>8. ASSUME NEW s \in Socks, NEW t \in SockTypes, NEW d \in Ops, SockPost(s, t, d)
      PROVE  MutexInv'
  <2>1. /\ aopOf[s] \in Aops /\ t # "open" /\ UNCHANGED <<appVars, wop, wpc>>
        /\ ao[aopOf[s]].fileOpMutex # "none"
    BY <1>1, <1>8 DEF SockPost, Objs, MutexInv, TypeOK, SockTypes, workerVars
  <2>2. OpsPosted(d, t, aopOf[s]) /\ ao' = CountUp(ao, aopOf[s])
    BY <1>1, <1>8 DEF SockPost, OpsPosted, OpKept, NewData, TypeOK
  <2> QED BY <2>1, <2>2, MutexPosted
\* The steps that detach an object or deliver to it leave the mutexes alone.
<1>9. ASSUME NEW o \in Objs, NEW a \in Aops, aopOf[o] = a, Detach(a, ao, readyEvents, place),
             data' = data, aopOf' = [aopOf EXCEPT ![o] = NULL],
             \A g \in Files : g # o => isOpen'[g] = isOpen[g], UNCHANGED <<wop, wpc>>
      PROVE  MutexInv'
  <2>1. DetachOutcome(a, ao, readyEvents, place)
    BY <1>1, <1>9, DetachNow
  <2>2. OpsKept
    BY <1>1, <1>9, <2>1, DetachKeeps
  <2>3. \A b \in Aops : ao'[b].fileOpMutex = ao[b].fileOpMutex \/ ~ao'[b].alloc
    BY <1>1, <2>1, DroppedMutex DEF DetachOutcome, TypeOK
  <2>4. \A x \in Objs : aopOf'[x] = IF x = o THEN NULL ELSE aopOf[x]
    BY <1>1, <1>9 DEF TypeOK
  <2>5. MutexKept
    BY <1>9, <2>2, <2>3, <2>4 DEF MutexKept, OpsKept, OpKept
  <2> QED BY <2>5, MutexKeptInv
<1>10. ASSUME NEW f \in Files, FileCloseSync(f) \/ FileDestroyUnopened(f) PROVE MutexInv'
  <2>1. f \in Objs /\ aopOf[f] \in Aops
    BY <1>1, <1>10 DEF FileCloseSync, FileDestroyUnopened, BlockInv, TypeOK, Objs
  <2>2. /\ Detach(aopOf[f], ao, readyEvents, place) /\ data' = data
        /\ aopOf' = [aopOf EXCEPT ![f] = NULL] /\ UNCHANGED <<wop, wpc>>
        /\ \A g \in Files : g # f => isOpen'[g] = isOpen[g]
    BY <1>1, <1>10 DEF FileCloseSync, FileDestroyUnopened, TypeOK, workerVars
  <2> QED BY <1>9, <2>1, <2>2
<1>11. ASSUME NEW s \in Socks, SockClose(s) PROVE MutexInv'
  BY <1>1, <1>9, <1>11 DEF SockClose, TypeOK, Objs, workerVars
<1>12. CASE FinishClose
  <2>1. closing \in Objs /\ aopOf[closing] \in Aops
    BY <1>1, <1>12 DEF FinishClose, BlockInv, TypeOK, Objs
  <2>2. /\ Detach(aopOf[closing], ao, readyEvents, place) /\ data' = data
        /\ aopOf' = [aopOf EXCEPT ![closing] = NULL] /\ UNCHANGED <<wop, wpc>>
        /\ \A g \in Files : g # closing => isOpen'[g] = isOpen[g]
    BY <1>1, <1>12 DEF FinishClose, TypeOK, workerVars
  <2> QED BY <1>9, <2>1, <2>2
<1>13. CASE DriveCancelled \/ DriveReadWrite \/ DriveClose \/ DriveOpen \/ DriveDisconnect
              \/ DriveAccept
  <2>1. /\ Drives /\ Key # NULL /\ ReleaseData /\ UNCHANGED <<wop, wpc>>
        /\ \/ place' = Released
           \/ DetachOutcome(Key, Counted, Tail(readyEvents), Released)
    BY <1>13, DisconnectEffect
       DEF DriveCancelled, DriveReadWrite, DriveClose, DriveOpen, DriveDisconnect, DriveAccept,
           Delivers, workerVars
  <2>2. OpsReleased(Done)
    BY <2>1, DriveReleases
  <2>3. /\ Key \in Aops /\ Key = data[Done].aop /\ Done \in Ops
        /\ Counted \in [Aops -> BlockType]
        /\ Counted = [ao EXCEPT ![Key] = [ao[Key] EXCEPT !.opCount = ao[Key].opCount - 1]]
    BY <2>1, DriveCounts
  <2>4. \A b \in Aops : Counted[b].fileOpMutex = ao[b].fileOpMutex
    BY <1>1, <2>3 DEF TypeOK, BlockType
  <2>5. \A e \in Ops : place'[e] # "free" =>
          /\ e # Done /\ place[e] # "free" /\ data'[e].aop = data[e].aop
          /\ data'[e].type = data[e].type
    BY <2>2 DEF OpsReleased, OpKept
  <2>6. ASSUME \A b \in Aops : \/ ao'[b].fileOpMutex = ao[b].fileOpMutex
                               \/ ~ao'[b].alloc
                               \/ /\ ao'[b].fileOpMutex # "none"
                                  /\ \A e \in Ops : place'[e] # "free" => data[e].aop # b,
               \A x \in Objs : aopOf'[x] # NULL /\ (x \in Files => isOpen'[x]) =>
                 \/ aopOf'[x] = aopOf[x] /\ (x \in Files => isOpen[x])
                 \/ ao'[aopOf'[x]].fileOpMutex # "none"
        PROVE  MutexInv'
    BY <2>1, <2>5, <2>6, MutexKeptInv DEF MutexKept
  <2>7. CASE DriveCancelled
    <3>1. ao' = [Counted EXCEPT ![Key] = Spent(Counted[Key])] /\ UNCHANGED appVars
      BY <2>7 DEF DriveCancelled
    <3>2. \A b \in Aops : ao'[b].fileOpMutex = ao[b].fileOpMutex \/ ~ao'[b].alloc
      BY <2>3, <2>4, <3>1, DroppedMutex
    <3> QED BY <2>6, <3>1, <3>2 DEF appVars
  <2>8. CASE DriveReadWrite \/ DriveClose
    <3>1. ao' = Counted /\ UNCHANGED appVars
      BY <2>8 DEF DriveReadWrite, DriveClose
    <3> QED BY <2>4, <2>6, <3>1 DEF appVars
  <2>9. CASE DriveOpen
    <3>1. /\ "open" \in OpTypes /\ Delivers("open") /\ place' = Released
      BY <2>9 DEF DriveOpen, OpTypes, FileTypes
    <3>2. Delivered("open", ao[Key].obj)
      BY <2>1, <3>1, DeliveredOp
    <3>3. \A e \in Ops : place'[e] # "free" => data[e].aop # Key
      BY <2>3, <2>5, <3>2 DEF Delivered, Outstanding
    <3>4. \/ /\ ao' = [Counted EXCEPT ![Key].handle = data[Done].handle,
                                      ![Key].fileOpMutex = "free"]
             /\ isOpen' = [isOpen EXCEPT ![ao[Key].obj] = TRUE] /\ aopOf' = aopOf
          \/ ao' = Counted /\ isOpen' = [isOpen EXCEPT ![ao[Key].obj] = FALSE]
               /\ aopOf' \in {aopOf, [aopOf EXCEPT ![ao[Key].obj] = NULL]}
      BY <2>9 DEF DriveOpen
    <3>5. CASE /\ ao' = [Counted EXCEPT ![Key].handle = data[Done].handle,
                                        ![Key].fileOpMutex = "free"]
               /\ isOpen' = [isOpen EXCEPT ![ao[Key].obj] = TRUE] /\ aopOf' = aopOf
      <4>1. ao'[Key].fileOpMutex = "free" /\ \A b \in Aops : b # Key => ao'[b] = Counted[b]
        <5> DEFINE h == data[Done].handle
        <5>1. Key \in Aops /\ Counted \in [Aops -> BlockType]
          BY <2>3
        <5>2. /\ ao'[Key] = [Counted[Key] EXCEPT !.handle = h, !.fileOpMutex = "free"]
              /\ \A b \in Aops : b # Key => ao'[b] = Counted[b]
          BY <3>5, <5>1
        <5>3. ao'[Key].fileOpMutex = "free"
          BY <5>1, <5>2 DEF BlockType
        <5> QED BY <5>2, <5>3
      <4>2. \A b \in Aops : \/ ao'[b].fileOpMutex = ao[b].fileOpMutex
                            \/ /\ ao'[b].fileOpMutex # "none"
                               /\ \A e \in Ops : place'[e] # "free" => data[e].aop # b
        BY <2>4, <3>3, <4>1
      <4>3. \A x \in Objs : x \in Files /\ isOpen'[x] =>
              isOpen[x] \/ ao'[aopOf'[x]].fileOpMutex # "none"
        BY <1>1, <3>2, <3>5, <4>1 DEF Delivered, TypeOK
      <4> QED BY <2>6, <3>5, <4>2, <4>3
    <3>6. CASE ao' = Counted /\ isOpen' = [isOpen EXCEPT ![ao[Key].obj] = FALSE]
                 /\ aopOf' \in {aopOf, [aopOf EXCEPT ![ao[Key].obj] = NULL]}
      <4>1. \A x \in Objs : aopOf'[x] # NULL /\ (x \in Files => isOpen'[x]) =>
              aopOf'[x] = aopOf[x] /\ (x \in Files => isOpen[x])
        BY <1>1, <3>2, <3>6 DEF Delivered, TypeOK
      <4> QED BY <2>4, <2>6, <3>6, <4>1
    <3> QED BY <3>4, <3>5, <3>6
  <2>10. CASE DriveDisconnect
    <3>1. DetachOutcome(Key, Counted, Tail(readyEvents), Released)
      BY <2>10, DisconnectEffect
    <3>2. \A b \in Aops : ao'[b].fileOpMutex = ao[b].fileOpMutex \/ ~ao'[b].alloc
      BY <2>3, <2>4, <3>1, DroppedMutex DEF DetachOutcome
    <3>3. aopOf' = [aopOf EXCEPT ![ao[Key].obj] = NULL] /\ isOpen' = isOpen
      BY <2>10 DEF DriveDisconnect
    <3> QED BY <1>1, <2>6, <3>2, <3>3 DEF TypeOK
  <2>11. CASE DriveAccept
    <3>1. isOpen' = isOpen
      BY <2>11 DEF DriveAccept
    <3>2. CASE ao' = Counted /\ aopOf' = aopOf
      BY <2>4, <2>6, <3>1, <3>2
    <3>3. CASE \E s \in Socks, n \in Aops :
                 /\ aopOf[s] = NULL /\ ~ao[n].alloc
                 /\ ao' = [Counted EXCEPT ![n] = NewBlock(s, data[Done].user, "free")]
                 /\ aopOf' = [aopOf EXCEPT ![s] = n]
      <4>1. PICK s \in Socks, n \in Aops :
                 /\ aopOf[s] = NULL /\ ~ao[n].alloc
                 /\ ao' = [Counted EXCEPT ![n] = NewBlock(s, data[Done].user, "free")]
                 /\ aopOf' = [aopOf EXCEPT ![s] = n]
        BY <3>3
      <4>2. ao'[n].fileOpMutex = "free" /\ \A b \in Aops : b # n => ao'[b] = Counted[b]
        BY <2>3, <4>1 DEF NewBlock
      <4>3. \A e \in Ops : place'[e] # "free" => data[e].aop # n
        BY <1>1, <2>5, <4>1 DEF BlockOutlivesOps
      <4>4. \A x \in Objs : x # s => aopOf'[x] = aopOf[x]
        BY <1>1, <4>1 DEF TypeOK
      <4>5. aopOf'[s] = n /\ s \notin Files
        BY <1>1, <4>1 DEF TypeOK, Objs, ConstantsAssumption
      <4> QED BY <2>4, <2>6, <3>1, <4>2, <4>3, <4>4, <4>5
    <3> QED BY <2>11, <3>2, <3>3 DEF DriveAccept
  <2> QED BY <1>13, <2>7, <2>8, <2>9, <2>10, <2>11
<1>14. ASSUME NEW f \in Files, NEW a \in Aops, NEW fd \in Fds, FileOpenSync(f, a, fd)
       PROVE  MutexInv'
  <2>1. f \in Objs /\ OpsKept /\ UNCHANGED <<wop, wpc>>
    BY <1>14 DEF Objs, FileOpenSync, OpsKept, OpKept, workerVars
  <2>2. \A g \in Files : g # f => isOpen'[g] = isOpen[g]
    BY <1>1, <1>14 DEF FileOpenSync, TypeOK
  <2> QED BY <1>5, <1>14, <2>1, <2>2 DEF FileOpenSync, Attach
<1>15. ASSUME NEW s \in Socks, NEW a \in Aops, NEW fd \in Fds, SockOpen(s, a, fd)
       PROVE  MutexInv'
  <2>1. s \in Objs /\ OpsKept /\ UNCHANGED <<wop, wpc, isOpen>>
    BY <1>15 DEF Objs, SockOpen, OpsKept, OpKept, workerVars
  <2> QED BY <1>5, <1>15, <2>1 DEF SockOpen, Attach
<1> QED
  BY <1>3, <1>4, <1>6, <1>7, <1>8, <1>10, <1>11, <1>12, <1>13, <1>14, <1>15
     DEF Next, AppNext, DriveNext

-----------------------------------------------------------------------------
(* The conjuncts of completion keys and descriptors, and the theorems.     *)

(***************************************************************************)
(* What a step makes of one operation block that is out of the pool.       *)
(***************************************************************************)
Carried(d) ==
  \/ /\ data'[d] = data[d]
     /\ \A p \in {"pend", "queued"} : place'[d] = p => place[d] = p
  \/ /\ data[d].type = "accept" /\ place[d] = "pend" /\ place'[d] = "ready"
     /\ \E fd \in Fds \cup {NULL} : /\ data'[d] = [data[d] EXCEPT !.user = fd]
                                    /\ fd # NULL => fdOwner'[fd] = d
  \/ /\ data[d].type = "open" /\ place[d] = "working" /\ place'[d] = "working"
     /\ \E fd \in Fds \cup {NULL} :
          /\ data'[d] = [data[d] EXCEPT !.ok = (fd # NULL), !.handle = fd]
          /\ fd # NULL => fdOwner'[fd] = d
  \/ /\ data[d].type \in {"rw", "close"} /\ place[d] = "working" /\ place'[d] = "working"
     /\ data'[d] = [data[d] EXCEPT !.ok = TRUE]

PostedNow(d) ==
  \/ \E f \in Files, a \in Aops : FileOpenAsync(f, a, d)
  \/ \E f \in Files : FileReadWrite(f, d) \/ FileCloseAsync(f, d)
  \/ \E s \in Socks, t \in SockTypes : SockPost(s, t, d)

LEMMA OpSteps ==
  ASSUME IInv, [Next]_vars, NEW d \in Ops, place'[d] # "free"
  PROVE  \/ place[d] # "free" /\ Carried(d)
         \/ place[d] = "free" /\ PostedNow(d)
<1>1. TypeOK /\ PlaceInv /\ ConstantsAssumption
  BY ConstantsAssumption DEF IInv
<1>2. ASSUME data' = data, place' = place
      PROVE  place[d] # "free" /\ Carried(d)
  BY <1>2 DEF Carried
<1>3. ASSUME NEW a \in Aops, Detach(a, ao, readyEvents, place), data' = data
      PROVE  place[d] # "free" /\ Carried(d)
  BY <1>1, <1>3, DetachNow DEF DetachOutcome, Carried, Dropped
<1>4. CASE AppNext
  <2>1. ASSUME NEW e \in Ops, NEW t, NEW a, NEW fd, NEW blocks, PushWork(e, t, a, fd, blocks),
               e # d
        PROVE  place[d] # "free" /\ Carried(d)
    BY <1>1, <2>1 DEF PushWork, TypeOK, Carried
  <2>2. ASSUME NEW e \in Ops, NEW t, NEW a, NEW fd, NEW blocks, PushWork(e, t, a, fd, blocks)
        PROVE  place[e] = "free"
    BY <2>2 DEF PushWork
  <2>3. CASE \E f \in Files, a \in Aops, e \in Ops : FileOpenAsync(f, a, e)
    <3>1. PICK f \in Files, a \in Aops, e \in Ops : FileOpenAsync(f, a, e)
      BY <2>3
    <3>2. PushWork(e, "open", a, NULL, [ao EXCEPT ![a] = NewBlock(f, NULL, "none")])
      BY <3>1 DEF FileOpenAsync
    <3> QED BY <2>1, <2>2, <3>1, <3>2 DEF PostedNow
  <2>4. CASE \E f \in Files, e \in Ops : FileReadWrite(f, e) \/ FileCloseAsync(f, e)
    <3>1. PICK f \in Files, e \in Ops : FileReadWrite(f, e) \/ FileCloseAsync(f, e)
      BY <2>4
    <3>2. PICK t : PushWork(e, t, aopOf[f], handleOf[f], ao)
      BY <3>1 DEF FileReadWrite, FileCloseAsync
    <3> QED BY <2>1, <2>2, <3>1, <3>2 DEF PostedNow
  <2>5. CASE \E s \in Socks, t \in SockTypes, e \in Ops : SockPost(s, t, e)
    <3>1. PICK s \in Socks, t \in SockTypes, e \in Ops : SockPost(s, t, e)
      BY <2>5
    <3>2. CASE e = d
      BY <3>1, <3>2 DEF PostedNow, SockPost
    <3>3. CASE e # d
      BY <1>1, <3>1, <3>3 DEF SockPost, Carried, TypeOK
    <3> QED BY <3>2, <3>3
  <2>6. CASE \E f \in Files : FileCloseSync(f) \/ FileDestroyUnopened(f)
    BY <1>1, <1>3, <2>6
       DEF FileCloseSync, FileDestroyUnopened, IInv, BlockInv, TypeOK, Objs
  <2>7. CASE \E s \in Socks : SockClose(s)
    BY <1>1, <1>3, <2>7 DEF SockClose, TypeOK, Objs
  <2> QED BY <1>2, <1>4, <2>3, <2>4, <2>5, <2>6, <2>7 DEF AppNext, FileOpenSync, SockOpen
<1>5. CASE EvNext
  <2>1. CASE \E e \in Ops : CallbackEvIo(e)
    BY ZenonT(60), <1>1, <2>1 DEF CallbackEvIo, TypeOK, Carried
  <2>2. CASE \E e \in Ops, fd \in Fds \cup {NULL} : CallbackEvAccept(e, fd)
    <3>1. PICK e \in Ops, fd \in Fds \cup {NULL} : CallbackEvAccept(e, fd)
      BY <2>2
    <3>2. CASE e = d
      <4>1. /\ data[d].type = "accept" /\ place[d] = "pend" /\ place'[d] = "ready"
            /\ data'[d] = [data[d] EXCEPT !.user = fd]
        BY <1>1, <3>1, <3>2 DEF CallbackEvAccept, TypeOK
      <4>2. fd # NULL => fdOwner'[fd] = d
        BY <1>1, <3>1, <3>2 DEF CallbackEvAccept
      <4> QED BY <4>1, <4>2 DEF Carried
    <3>3. CASE e # d
      BY <1>1, <3>1, <3>3 DEF CallbackEvAccept, TypeOK, Carried
    <3> QED BY <3>2, <3>3
  <2> QED BY <1>5, <2>1, <2>2 DEF EvNext
<1>6. ASSUME NEW w \in Workers, WorkerNext(w) PROVE place[d] # "free" /\ Carried(d)
  <2>1. CASE WorkerQuit(w)
    BY <2>1, QuitEffect DEF QuitOutcome, WorkerQuit, Carried
  <2>2. CASE WorkerPost(w)
    <3>1. wop[w] \in Ops /\ place[wop[w]] = "working"
      BY <2>2, WorkFacts DEF WorkerPost
    <3> QED BY <1>1, <2>2, <3>1 DEF WorkerPost, TypeOK, Carried
  <2>3. CASE \E e \in Ops : WorkerTake(w, e)
    <3>1. PICK e \in Ops : WorkerTake(w, e)
      BY <2>3
    <3>2. place[e] = "queued"
      BY <1>1, <3>1 DEF WorkerTake, Scanned, IInv, ScanInv, PlaceInv, ConstantsAssumption
    <3> QED BY <1>1, <3>1, <3>2 DEF WorkerTake, TypeOK, Carried
  <2>4. CASE WorkerReadWrite(w) \/ WorkerClose(w)
    <3>1. wop[w] \in Ops /\ place[wop[w]] = "working"
      BY <2>4, WorkFacts DEF WorkerReadWrite, WorkerClose
    <3> QED BY ZenonT(60), <1>1, <2>4, <3>1 DEF WorkerReadWrite, WorkerClose, TypeOK, Carried
  <2>5. CASE \E fd \in Fds \cup {NULL} : WorkerOpen(w, fd)
    <3>1. PICK fd \in Fds \cup {NULL} : WorkerOpen(w, fd)
      BY <2>5
    <3>2. wop[w] \in Ops /\ place[wop[w]] = "working"
      BY <3>1, WorkFacts DEF WorkerOpen
    <3>3. CASE wop[w] = d
      <4>1. /\ data[d].type = "open" /\ place[d] = "working" /\ place'[d] = "working"
            /\ data'[d] = [data[d] EXCEPT !.ok = (fd # NULL), !.handle = fd]
        BY <1>1, <3>1, <3>2, <3>3 DEF WorkerOpen, TypeOK
      <4>2. fd # NULL => fdOwner'[fd] = d
        BY <3>1, <3>3 DEF WorkerOpen
      <4> QED BY <4>1, <4>2 DEF Carried
    <3>4. CASE wop[w] # d
      BY <1>1, <3>1, <3>2, <3>4 DEF WorkerOpen, TypeOK, Carried
    <3> QED BY <3>3, <3>4
  <2> QED
    BY <1>2, <1>6, <2>1, <2>2, <2>3, <2>4, <2>5
       DEF WorkerNext, WorkerWake, WorkerLock, WorkerSkip, WorkerUnlock
<1>7. CASE DriveNext
  <2>1. CASE DriveKeyless
    <3>1. Done \in Ops /\ place[Done] = "ready"
      BY <2>1, DriveFacts DEF DriveKeyless
    <3> QED BY <1>1, <2>1, <3>1 DEF DriveKeyless, TypeOK, Carried
  <2>2. CASE FinishClose
    <3>1. aopOf[closing] \in Aops /\ Detach(aopOf[closing], ao, readyEvents, place)
            /\ data' = data
      BY <1>1, <2>2 DEF FinishClose, IInv, BlockInv, TypeOK, Objs
    <3> QED BY <1>3, <3>1
  <2>3. CASE DriveCancelled \/ DriveReadWrite \/ DriveOpen \/ DriveClose \/ DriveAccept
               \/ DriveDisconnect
    <3>1. /\ Drives /\ ReleaseData
          /\ \/ place' = Released
             \/ DetachOutcome(Key, Counted, Tail(readyEvents), Released)
      BY <2>3, DisconnectEffect
         DEF DriveCancelled, DriveReadWrite, DriveOpen, DriveClose, DriveAccept,
             DriveDisconnect, Delivers
    <3>2. Done \in Ops /\ place[Done] = "ready"
      BY <3>1, DriveFacts
    <3>3. d # Done
      BY <1>1, <3>1, <3>2 DEF DetachOutcome, Released, Dropped, TypeOK
    <3>4. data'[d] = data[d]
      BY <1>1, <3>1, <3>2, <3>3 DEF ReleaseData, TypeOK
    <3>5. \/ place'[d] = place[d]
          \/ place[d] = "pend" /\ place'[d] = "ready"
      BY <1>1, <3>1, <3>2, <3>3 DEF DetachOutcome, Released, Dropped, TypeOK
    <3> QED BY <3>4, <3>5 DEF Carried
  <2> QED BY <1>7, <2>1, <2>2, <2>3 DEF DriveNext
<1>8. CASE UninitNext \/ Terminated \/ UNCHANGED vars
  BY <1>2, <1>8 DEF UninitNext, UninitBegin, UninitJoin, UninitClosePort, Terminated, vars
<1> QED BY <1>4, <1>5, <1>6, <1>7, <1>8 DEF Next

(***************************************************************************)
(* And of one control block: it keeps its object and, but for the open     *)
(* that gives it one, its handle, unless the object detaches.              *)
(***************************************************************************)
BlockCarried(a) ==
  \/ /\ ao'[a].isCancel
     /\ \A d \in Ops : place'[d] = "pend" => data'[d].aop # a
     /\ \A o \in Objs : aopOf'[o] # a
  \/ /\ ao'[a].isCancel = ao[a].isCancel /\ ao'[a].obj = ao[a].obj
     /\ ao'[a].handle = ao[a].handle \/ (DriveOpen /\ a = Key)

LEMMA BlockSteps ==
  ASSUME IInv, BlockInv', [Next]_vars, NEW a \in Aops, ao[a].alloc, ao'[a].alloc
  PROVE  BlockCarried(a)
<1>1. TypeOK /\ PlaceInv /\ BlockInv /\ KeyInv /\ ConstantsAssumption
  BY ConstantsAssumption DEF IInv
<1>2. CASE QuietNext
  BY <1>2, QuietEffect DEF BlocksKept, BlockKept, BlockCarried
<1>3. CASE ao' = ao
  BY <1>3 DEF BlockCarried
<1>4. ASSUME NEW n \in Aops, NEW b, ~ao[n].alloc, ao' = [ao EXCEPT ![n] = b]
      PROVE  BlockCarried(a)
  BY <1>1, <1>4 DEF TypeOK, BlockCarried
<1>5. ASSUME NEW n \in Aops, ao' = CountUp(ao, n)
      PROVE  BlockCarried(a)
  BY <1>1, <1>5 DEF TypeOK, BlockType, CountUp, BlockCarried
\* A detach, from the blocks and places it finds: its waiting operations are gone.
<1>6. ASSUME NEW n \in Aops, NEW blocks \in [Aops -> BlockType], NEW ready, NEW places,
             DetachOutcome(n, blocks, ready, places), ao[n].alloc, ~ao[n].isCancel,
             \A b \in Aops \ {n} : blocks[b] = ao[b],
             blocks[n].obj = ao[n].obj, blocks[n].handle = ao[n].handle,
             \A d \in Ops : place'[d] = "pend" =>
               place[d] = "pend" /\ data'[d].aop = data[d].aop
      PROVE  BlockCarried(a)
  <2>1. CASE a # n
    BY <1>6, <2>1 DEF DetachOutcome, BlockCarried
  <2>2. CASE a = n
    <3>1. ao'[a] = DetachedBlock(blocks[n]) /\ blocks[n] \in BlockType
      BY <1>6, <2>2 DEF DetachOutcome
    <3>2. ao'[a].isCancel
      BY <3>1, <2>2 DEF DetachedBlock, FreeBlock, BlockType
    <3>3. ASSUME NEW d \in Ops, place'[d] = "pend", data'[d].aop = n PROVE FALSE
      <4>1. place[d] = "pend" /\ data[d].aop = n
        BY <1>6, <3>3
      <4>2. data[d].handle \in Fds /\ data[d].handle = ao[n].handle
        BY <1>1, <4>1, PendFacts DEF KeyInv, PendingRight, BlockOf
      <4>3. Dropped(d, blocks[n].handle)
        BY <1>1, <1>6, <4>1, <4>2 DEF Dropped, ConstantsAssumption
      <4> QED BY <1>6, <3>3, <4>3 DEF DetachOutcome
    <3>4. ASSUME NEW o \in Objs, aopOf'[o] = n PROVE FALSE
      <4>1. n # NULL
        BY <1>1 DEF ConstantsAssumption
      <4>2. ~ao'[n].isCancel
        BY <3>4, <4>1 DEF BlockInv, AttachedBlock
      <4> QED BY <2>2, <3>2, <4>2
    <3> QED BY <2>2, <3>2, <3>3, <3>4 DEF BlockCarried
  <2> QED BY <2>1, <2>2
<1>7. ASSUME NEW o \in Objs, aopOf[o] # NULL, Detach(aopOf[o], ao, readyEvents, place),
             data' = data
      PROVE  BlockCarried(a)
  <2>1. aopOf[o] \in Aops /\ ao[aopOf[o]].alloc /\ ~ao[aopOf[o]].isCancel
    BY <1>1, <1>7 DEF BlockInv, AttachedBlock, TypeOK
  <2>2. DetachOutcome(aopOf[o], ao, readyEvents, place)
    BY <1>1, <1>7, <2>1, DetachNow
  <2>3. \A d \in Ops : place'[d] = "pend" => place[d] = "pend"
    BY <2>2 DEF DetachOutcome
  <2>4. ao \in [Aops -> BlockType]
    BY <1>1 DEF TypeOK
  <2> QED BY <1>6, <1>7, <2>1, <2>2, <2>3, <2>4
<1>8. CASE AppNext
  <2>1. CASE \E f \in Files, n \in Aops, fd \in Fds : FileOpenSync(f, n, fd)
    BY <1>4, <2>1 DEF FileOpenSync, Attach
  <2>2. CASE \E s \in Socks, n \in Aops, fd \in Fds : SockOpen(s, n, fd)
    BY <1>4, <2>2 DEF SockOpen, Attach
  <2>3. CASE \E f \in Files, n \in Aops, d \in Ops : FileOpenAsync(f, n, d)
    <3>1. PICK f \in Files, n \in Aops, d \in Ops : FileOpenAsync(f, n, d)
      BY <2>3
    <3>2. /\ ~ao[n].alloc
          /\ ao' = [[ao EXCEPT ![n] = NewBlock(f, NULL, "none")] EXCEPT ![n].opCount = @ + 1]
      BY <3>1 DEF FileOpenAsync, PushWork, CountUp
    <3>3. a # n /\ ao'[a] = ao[a]
      BY <1>1, <3>2 DEF TypeOK
    <3> QED BY <3>3 DEF BlockCarried
  <2>4. CASE \E f \in Files, d \in Ops : FileReadWrite(f, d) \/ FileCloseAsync(f, d)
    <3>1. PICK f \in Files : isOpen[f] /\ ao' = CountUp(ao, aopOf[f])
      BY <2>4 DEF FileReadWrite, FileCloseAsync, PushWork
    <3>2. aopOf[f] \in Aops
      BY <1>1, <3>1 DEF BlockInv, TypeOK, Objs
    <3> QED BY <1>5, <3>1, <3>2
  <2>5. CASE \E s \in Socks, t \in SockTypes, d \in Ops : SockPost(s, t, d)
    BY <1>1, <1>5, <2>5 DEF SockPost, TypeOK, Objs
  <2>6. CASE \E f \in Files : FileCloseSync(f) \/ FileDestroyUnopened(f)
    BY <1>1, <1>7, <2>6 DEF FileCloseSync, FileDestroyUnopened, BlockInv, Objs
  <2>7. CASE \E s \in Socks : SockClose(s)
    BY <1>7, <2>7 DEF SockClose, Objs
  <2> QED BY <1>8, <2>1, <2>2, <2>3, <2>4, <2>5, <2>6, <2>7 DEF AppNext
<1>9. CASE FinishClose
  <2>1. closing \in Objs /\ aopOf[closing] # NULL
    BY <1>1, <1>9 DEF FinishClose, BlockInv, TypeOK, Objs
  <2> QED BY <1>7, <1>9, <2>1 DEF FinishClose
<1>10. CASE DriveCancelled \/ DriveReadWrite \/ DriveOpen \/ DriveClose \/ DriveAccept
              \/ DriveDisconnect
  <2>1. Drives /\ Key # NULL /\ ReleaseData
    BY <1>10 DEF DriveCancelled, DriveReadWrite, DriveOpen, DriveClose, DriveAccept,
                 DriveDisconnect, Delivers
  <2>2. /\ Key \in Aops /\ ao[Key].alloc /\ Done \in Ops /\ Key = data[Done].aop
        /\ Counted \in [Aops -> BlockType] /\ place[Done] = "ready"
        /\ Counted = [ao EXCEPT ![Key] = [ao[Key] EXCEPT !.opCount = ao[Key].opCount - 1]]
    BY <2>1, DriveCounts, DriveFacts
  <2>3. \A b \in Aops : /\ Counted[b].isCancel = ao[b].isCancel /\ Counted[b].obj = ao[b].obj
                        /\ Counted[b].handle = ao[b].handle /\ Counted[b].alloc = ao[b].alloc
                        /\ b # Key => Counted[b] = ao[b]
    BY <1>1, <2>2 DEF TypeOK, BlockType
  <2>4. CASE DriveCancelled
    <3>1. ao' = [Counted EXCEPT ![Key] = Spent(Counted[Key])]
      BY <2>4 DEF DriveCancelled
    <3>2. a = Key => ao'[a] = Counted[a]
      BY <2>2, <3>1 DEF Spent, FreeBlock
    <3>3. a # Key => ao'[a] = Counted[a]
      BY <2>2, <3>1
    <3> QED BY <2>3, <3>2, <3>3 DEF BlockCarried
  <2>5. CASE DriveReadWrite \/ DriveClose
    BY <2>3, <2>5 DEF DriveReadWrite, DriveClose, BlockCarried
  <2>6. CASE DriveOpen
    <3>1. \/ ao' = Counted
          \/ ao' = [Counted EXCEPT ![Key].handle = data[Done].handle, ![Key].fileOpMutex = "free"]
      BY <2>6 DEF DriveOpen
    <3>2. a # Key => ao'[a] = Counted[a]
      BY <2>2, <3>1
    <3>3. \/ ao'[a] = Counted[a]
          \/ ao'[a] = [Counted[a] EXCEPT !.handle = data[Done].handle, !.fileOpMutex = "free"]
      BY <2>2, <3>1
    <3>4. ao'[a].isCancel = Counted[a].isCancel /\ ao'[a].obj = Counted[a].obj
      <4>1. Counted[a] \in BlockType
        BY <1>1, <2>2
      <4> QED BY <3>3, <4>1 DEF BlockType
    <3> QED BY <2>3, <2>6, <3>2, <3>4 DEF BlockCarried
  <2>7. CASE DriveAccept
    <3>1. \/ ao' = Counted
          \/ \E n \in Aops : ~ao[n].alloc /\ \E b : ao' = [Counted EXCEPT ![n] = b]
      BY <2>7 DEF DriveAccept
    <3>2. ao'[a] = Counted[a]
      BY <2>2, <3>1
    <3> QED BY <2>3, <3>2 DEF BlockCarried
  <2>8. CASE DriveDisconnect
    <3>1. DetachOutcome(Key, Counted, Tail(readyEvents), Released) /\ ~ao[Key].isCancel
      BY <2>8, DisconnectEffect DEF DriveDisconnect, Delivers
    <3>2. ASSUME NEW d \in Ops, place'[d] = "pend"
          PROVE  place[d] = "pend" /\ data'[d].aop = data[d].aop
      <4>1. Released[d] = "pend"
        BY <3>1, <3>2 DEF DetachOutcome
      <4>2. d # Done /\ place[d] = "pend"
        BY <1>1, <2>2, <4>1 DEF Released, TypeOK
      <4> QED BY <1>1, <2>1, <2>2, <4>2 DEF ReleaseData, TypeOK
    <3>3. \A b \in Aops \ {Key} : Counted[b] = ao[b]
      BY <2>3
    <3> QED BY <1>6, <2>2, <2>3, <3>1, <3>2, <3>3
  <2> QED BY <1>10, <2>4, <2>5, <2>6, <2>7, <2>8
<1> QED BY <1>2, <1>8, <1>9, <1>10 DEF Next, DriveNext, QuietNext

(***************************************************************************)
(* Descriptors: nobody closes or rebinds one that is not his.              *)
(***************************************************************************)
LEMMA AsyncCloseOnly ==
  ASSUME IInv, ClosedInTurn, NEW a \in Aops, NEW d \in Outstanding(a),
         data[d].type = "close"
  PROVE  AllowAsyncClose /\ ~AllowBusyClose
BY DEF IInv, DescriptorInv, OpDescriptor, Outstanding, Live, ClosedInTurn

LEMMA FileCloseOwner ==
  ASSUME IInv, ClosedInTurn, NEW f \in Files, FileCloseSync(f)
  PROVE  handleOf[f] \in Fds /\ fdOwner[handleOf[f]] = aopOf[f]
<1>1. isOpen[f] /\ closing # f /\ (AllowBusyClose \/ ao[aopOf[f]].opCount = 0)
  BY DEF FileCloseSync
<1>2. aopOf[f] \in Aops /\ ao[aopOf[f]].alloc
  BY <1>1, ConstantsAssumption DEF IInv, BlockInv, AttachedBlock, TypeOK, Objs
<1>3. FileDescriptor(f)
  BY <1>1 DEF IInv, DescriptorInv
<1>4. ASSUME NEW d \in Outstanding(aopOf[f]), data[d].type = "close" PROVE FALSE
  <2>1. ~AllowBusyClose
    BY <1>2, <1>4, AsyncCloseOnly
  <2>2. Outstanding(aopOf[f]) = {}
    BY <1>1, <1>2, <2>1, CountFacts
  <2> QED BY <1>4, <2>2
<1> QED BY <1>1, <1>3, <1>4 DEF FileDescriptor

LEMMA WorkerCloseOwner ==
  ASSUME IInv, ClosedInTurn, NEW w \in Workers, WorkerClose(w)
  PROVE  /\ data[wop[w]].handle \in Fds
         /\ fdOwner[data[wop[w]].handle] = data[wop[w]].aop
         /\ data[wop[w]].aop \in Aops
         /\ \E f \in Files : aopOf[f] = data[wop[w]].aop
<1> DEFINE d == wop[w]
           f == ao[data[d].aop].obj
<1>1. /\ d \in Ops /\ place[d] = "working" /\ data[d].aop \in Aops /\ ao[data[d].aop].alloc
      /\ data[d].type = "close" /\ wpc[w] = "io"
  BY WorkFacts DEF WorkerClose
<1>2. Live(d) /\ PostedBlock(d) /\ OpDescriptor(d) /\ ~data[d].ok
  BY <1>1 DEF Live, IInv, BlockInv, DescriptorInv
<1>3. /\ ~ao[data[d].aop].isCancel /\ data[d].handle = ao[data[d].aop].handle
      /\ isOpen[f] /\ closing # f
      /\ \A e \in Outstanding(data[d].aop) : data[e].type = "close" => e = d
  BY <1>1, <1>2 DEF OpDescriptor, BlockOf
<1>4. f \in Files /\ aopOf[f] = data[d].aop
  BY <1>1, <1>2, <1>3 DEF PostedBlock, FileTypes
<1>5. FileDescriptor(f)
  BY <1>3, <1>4 DEF IInv, DescriptorInv
<1>6. handleOf[f] \in Fds /\ handleOf[f] = data[d].handle
  BY <1>3, <1>4, <1>5 DEF FileDescriptor
<1>7. \/ fdOwner[handleOf[f]] = aopOf[f]
      \/ \E e \in Outstanding(aopOf[f]) : data[e].type = "close" /\ data[e].ok
  BY <1>3, <1>5 DEF FileDescriptor
<1>8. ASSUME NEW e \in Outstanding(aopOf[f]), data[e].type = "close" /\ data[e].ok PROVE FALSE
  BY <1>2, <1>3, <1>4, <1>8
<1> HIDE DEF d, f
<1>9. fdOwner[data[d].handle] = data[d].aop
  BY <1>4, <1>6, <1>7, <1>8
<1> QED BY <1>1, <1>4, <1>6, <1>9 DEF d

OwnersKept ==
  /\ \A d \in Ops, g \in Fds : fdOwner[g] = d /\ place'[d] # "free" => fdOwner'[g] = d
  /\ \A o \in Objs, g \in Fds :
       aopOf[o] # NULL /\ fdOwner[g] = aopOf[o] /\ aopOf'[o] = aopOf[o] =>
         \/ fdOwner'[g] = fdOwner[g]
         \/ \E w \in Workers : WorkerClose(w) /\ data[wop[w]].aop = aopOf[o]
  /\ \A g \in Fds : fdOwner[g] \in Aops => completeKey'[g] \in {NULL, completeKey[g]}

LEMMA OwnersStep ==
  ASSUME IInv, ClosedInTurn, [Next]_vars PROVE OwnersKept
<1>1. TypeOK /\ PlaceInv /\ BlockInv /\ KeyInv /\ DescriptorInv /\ ConstantsAssumption
  BY ConstantsAssumption DEF IInv
<1>2. /\ \A a \in Aops : a \notin Ops /\ a # NULL
      /\ \A d \in Ops : d # NULL
  BY <1>1 DEF ConstantsAssumption
<1>3. CASE UNCHANGED <<fdOwner, completeKey>>
  BY <1>3 DEF OwnersKept
\* A free descriptor is taken.
<1>4. ASSUME NEW fd \in Fds \cup {NULL}, fd # NULL => fdOwner[fd] = NULL,
             \A g \in Fds : g # fd => fdOwner'[g] = fdOwner[g] /\ completeKey'[g] = completeKey[g]
      PROVE  OwnersKept
  BY <1>1, <1>2, <1>4 DEF OwnersKept, TypeOK
\* The descriptor of an object that detaches is closed.
<1>5. ASSUME NEW o \in Objs, aopOf[o] \in Aops, aopOf'[o] = NULL, NEW fd \in Fds,
             fdOwner[fd] = aopOf[o],
             \A g \in Fds : completeKey'[g] \in {NULL, completeKey[g]},
             \A g \in Fds : g # fd => fdOwner'[g] = fdOwner[g]
      PROVE  OwnersKept
  <2>1. \A x \in Objs : aopOf[x] = aopOf[o] => x = o
    BY <1>1, <1>2, <1>5 DEF BlockInv, AttachedBlock
  <2> QED BY <1>1, <1>2, <1>5, <2>1 DEF OwnersKept
\* A completion that is being delivered gives its descriptor away.
<1>6. ASSUME Done \in Ops, place'[Done] = "free", NEW fd \in Fds, fdOwner[fd] = Done,
             \A g \in Fds : g # fd => fdOwner'[g] = fdOwner[g] /\ completeKey'[g] = completeKey[g]
      PROVE  OwnersKept
  <2>1. ASSUME NEW d \in Ops, NEW g \in Fds, fdOwner[g] = d, place'[d] # "free"
        PROVE  fdOwner'[g] = d
    BY <1>6, <2>1
  <2>2. ASSUME NEW o \in Objs, NEW g \in Fds, aopOf[o] # NULL, fdOwner[g] = aopOf[o]
        PROVE  fdOwner'[g] = fdOwner[g]
    BY <1>1, <1>2, <1>6, <2>2 DEF TypeOK
  <2>3. ASSUME NEW g \in Fds, fdOwner[g] \in Aops PROVE completeKey'[g] = completeKey[g]
    BY <1>2, <1>6, <2>3
  <2> QED BY <2>1, <2>2, <2>3 DEF OwnersKept
<1>7. ASSUME fdOwner' = fdOwner, \A g \in Fds : completeKey'[g] \in {NULL, completeKey[g]}
      PROVE  OwnersKept
  BY <1>7 DEF OwnersKept
<1>8. ASSUME NEW a \in Aops, Detach(a, ao, readyEvents, place)
      PROVE  \A g \in Fds : completeKey'[g] \in {NULL, completeKey[g]}
  BY <1>1, <1>8, DetachNow DEF DetachOutcome
<1>9. CASE AppNext
  <2>1. ASSUME NEW o \in Objs, NEW a \in Aops, NEW fd \in Fds, LowestFd(fd), Attach(o, a, fd),
               fdOwner' = [fdOwner EXCEPT ![fd] = a]
        PROVE  OwnersKept
    BY <1>1, <1>4, <2>1 DEF LowestFd, FreeFds, Attach, SetKey, TypeOK
  <2>2. CASE \E f \in Files, a \in Aops, fd \in Fds : FileOpenSync(f, a, fd)
    BY <2>1, <2>2 DEF FileOpenSync, Objs
  <2>3. CASE \E s \in Socks, a \in Aops, fd \in Fds : SockOpen(s, a, fd)
    BY <2>1, <2>3 DEF SockOpen, Objs
  <2>4. CASE \E f \in Files : FileCloseSync(f)
    <3>1. PICK f \in Files : FileCloseSync(f)
      BY <2>4
    <3>2. handleOf[f] \in Fds /\ fdOwner[handleOf[f]] = aopOf[f]
      BY <3>1, FileCloseOwner
    <3>3. f \in Objs /\ aopOf[f] \in Aops /\ aopOf'[f] = NULL
      BY <1>1, <3>1 DEF FileCloseSync, BlockInv, TypeOK, Objs
    <3>4. \A g \in Fds : completeKey'[g] \in {NULL, completeKey[g]}
      BY <1>8, <3>1, <3>3 DEF FileCloseSync
    <3>5. \A g \in Fds : g # handleOf[f] => fdOwner'[g] = fdOwner[g]
      BY <1>1, <3>1 DEF FileCloseSync, TypeOK
    <3> QED BY <1>5, <3>2, <3>3, <3>4, <3>5
  <2>5. CASE \E f \in Files : FileDestroyUnopened(f)
    BY <1>1, <1>7, <1>8, <2>5 DEF FileDestroyUnopened, TypeOK, Objs
  <2>6. CASE \E s \in Socks : SockClose(s)
    <3>1. PICK s \in Socks : SockClose(s)
      BY <2>6
    <3>2. handleOf[s] \in Fds /\ fdOwner[handleOf[s]] = aopOf[s]
      BY <1>1, <3>1 DEF SockClose, KeyInv, SocketRight
    <3>3. s \in Objs /\ aopOf[s] \in Aops /\ aopOf'[s] = NULL
      BY <1>1, <3>1 DEF SockClose, TypeOK, Objs
    <3>4. \A g \in Fds : completeKey'[g] \in {NULL, completeKey[g]}
      BY <1>8, <3>1, <3>3 DEF SockClose
    <3>5. \A g \in Fds : g # handleOf[s] => fdOwner'[g] = fdOwner[g]
      BY <1>1, <3>1 DEF SockClose, TypeOK
    <3> QED BY <1>5, <3>2, <3>3, <3>4, <3>5
  <2>7. CASE \/ \E f \in Files, a \in Aops, d \in Ops : FileOpenAsync(f, a, d)
             \/ \E f \in Files, d \in Ops : FileReadWrite(f, d) \/ FileCloseAsync(f, d)
             \/ \E s \in Socks, t \in SockTypes, d \in Ops : SockPost(s, t, d)
    BY <1>3, <2>7 DEF FileOpenAsync, FileReadWrite, FileCloseAsync, SockPost
  <2> QED BY <1>9, <2>2, <2>3, <2>4, <2>5, <2>6, <2>7 DEF AppNext
<1>10. CASE EvNext
  <2>1. CASE \E d \in Ops : CallbackEvIo(d)
    BY <1>3, <2>1 DEF CallbackEvIo
  <2>2. CASE \E d \in Ops, fd \in Fds \cup {NULL} : CallbackEvAccept(d, fd)
    BY <1>4, <2>2 DEF CallbackEvAccept, LowestFd, FreeFds
  <2> QED BY <1>10, <2>1, <2>2 DEF EvNext
<1>11. ASSUME NEW w \in Workers, WorkerNext(w) PROVE OwnersKept
  <2>1. CASE \E fd \in Fds \cup {NULL} : WorkerOpen(w, fd)
    BY <1>4, <2>1 DEF WorkerOpen, LowestFd, FreeFds
  <2>2. CASE WorkerClose(w)
    <3>1. /\ data[wop[w]].handle \in Fds /\ fdOwner[data[wop[w]].handle] = data[wop[w]].aop
          /\ data[wop[w]].aop \in Aops
      BY <2>2, WorkerCloseOwner
    <3>2. \A g \in Fds : g # data[wop[w]].handle => fdOwner'[g] = fdOwner[g]
      BY <1>1, <2>2 DEF WorkerClose, TypeOK
    <3>3. completeKey' = completeKey
      BY <2>2 DEF WorkerClose
    <3> QED BY <1>2, <2>2, <3>1, <3>2, <3>3 DEF OwnersKept
  <2> QED
    BY <1>3, <1>11, <2>1, <2>2
       DEF WorkerNext, WorkerWake, WorkerLock, WorkerSkip, WorkerTake, WorkerQuit,
           WorkerReadWrite, WorkerUnlock, WorkerPost
<1>12. CASE DriveNext
  <2>1. CASE DriveKeyless \/ DriveCancelled \/ DriveReadWrite \/ DriveClose
    BY <1>3, <2>1 DEF DriveKeyless, DriveCancelled, DriveReadWrite, DriveClose
  <2>2. CASE FinishClose
    <3>1. aopOf[closing] \in Aops
      BY <1>1, <2>2 DEF FinishClose, BlockInv, TypeOK, Objs
    <3> QED BY <1>7, <1>8, <2>2, <3>1 DEF FinishClose
  <2>3. CASE DriveOpen \/ DriveAccept
    <3>1. PICK t \in {"open", "accept"} :
            Delivers(t) /\ place' = Released /\ (t = "open" <=> DriveOpen)
      BY <2>3 DEF DriveOpen, DriveAccept, Delivers
    <3>2. Done \in Ops /\ place[Done] = "ready" /\ data[Done].type = t
      BY <3>1, DriveFacts DEF Delivers
    <3>3. place'[Done] = "free" /\ Live(Done) /\ OpDescriptor(Done)
      BY <1>1, <3>1, <3>2 DEF Released, TypeOK, Live, DescriptorInv
    <3>4. CASE DriveOpen
      <4>1. data[Done].type = "open"
        BY <3>1, <3>2, <3>4
      <4>2. CASE data[Done].ok
        <5>1. data[Done].handle \in Fds /\ fdOwner[data[Done].handle] = Done
          BY <3>3, <4>1, <4>2 DEF OpDescriptor
        <5>2. \A g \in Fds : g # data[Done].handle =>
                fdOwner'[g] = fdOwner[g] /\ completeKey'[g] = completeKey[g]
          BY <1>1, <3>4, <4>2 DEF DriveOpen, SetKey, TypeOK
        <5> QED BY <1>6, <3>2, <3>3, <5>1, <5>2
      <4>3. CASE ~data[Done].ok
        BY <1>3, <3>4, <4>3 DEF DriveOpen
      <4> QED BY <4>2, <4>3
    <3>5. CASE DriveAccept
      <4>1. data[Done].type = "accept"
        BY <2>3, <3>5 DEF DriveAccept, Delivers
      <4>2. \A g \in Fds : g # data[Done].user =>
              fdOwner'[g] = fdOwner[g] /\ completeKey'[g] = completeKey[g]
        BY <1>1, <3>5 DEF DriveAccept, SetKey, TypeOK
      <4>3. data[Done].user \in Fds \cup {NULL}
        BY <1>1, <3>2 DEF TypeOK, DataType
      <4>4. CASE data[Done].user = NULL
        BY <1>4, <4>2, <4>4
      <4>5. CASE data[Done].user # NULL
        BY <1>6, <3>2, <3>3, <4>1, <4>2, <4>3, <4>5 DEF OpDescriptor
      <4> QED BY <4>4, <4>5
    <3> QED BY <2>3, <3>4, <3>5
  <2>4. CASE DriveDisconnect
    <3> DEFINE s == ao[Key].obj
    <3>1. Delivers("disc") /\ "disc" \in OpTypes /\ "disc" \notin FileTypes
      BY <2>4 DEF DriveDisconnect, OpTypes, SockTypes, FileTypes
    <3>2. s \in Objs /\ s \notin Files /\ aopOf[s] = Key /\ Key \in Aops
      BY <3>1, DeliversFacts, DriveCounts DEF Delivers
    <3>3. s \in Socks /\ SocketRight(s)
      BY <1>1, <1>2, <3>2 DEF Objs, KeyInv
    <3>4. aopOf'[s] = NULL /\ \A g \in Fds : g # handleOf[s] => fdOwner'[g] = fdOwner[g]
      BY <1>1, <2>4, <3>2 DEF DriveDisconnect, TypeOK
    <3>5. \A g \in Fds : completeKey'[g] \in {NULL, completeKey[g]}
      BY <2>4, DisconnectEffect DEF DetachOutcome
    <3>6. handleOf[s] \in Fds /\ fdOwner[handleOf[s]] = aopOf[s]
      BY <3>3 DEF SocketRight
    <3> HIDE DEF s
    <3> QED BY <1>5, <3>2, <3>4, <3>5, <3>6
  <2> QED BY <1>12, <2>1, <2>2, <2>3, <2>4 DEF DriveNext
<1>13. CASE UninitNext \/ Terminated \/ UNCHANGED vars
  BY <1>3, <1>13 DEF UninitNext, UninitBegin, UninitJoin, UninitClosePort, Terminated, vars
<1> QED BY <1>9, <1>10, <1>11, <1>12, <1>13 DEF Next

-----------------------------------------------------------------------------
(* KeyInv.                                                                 *)

\* Where a completion of the ready queue comes from: it was there, or it comes under
\* its operation's own block, or under the key of the descriptor it waited on.
EventFrom(i) ==
  LET d == readyEvents'[i].op
  IN \/ \E j \in DOMAIN readyEvents : readyEvents'[i] = readyEvents[j]
     \/ readyEvents'[i].ck = data[d].aop
     \/ place[d] = "pend" /\ readyEvents'[i].ck = completeKey[data[d].handle]

LEMMA EventsFrom ==
  ASSUME IInv, [Next]_vars PROVE \A i \in DOMAIN readyEvents' : EventFrom(i)
<1>1. TypeOK /\ PlaceInv /\ BlockInv /\ KeyInv /\ ConstantsAssumption
  BY ConstantsAssumption DEF IInv
<1>6. CASE readyEvents' = readyEvents
  BY <1>6 DEF EventFrom
<1>7. ASSUME NEW d \in Ops, NEW ck, PushComplete(d, ck),
             \/ ck = data[d].aop
             \/ place[d] = "pend" /\ ck = completeKey[data[d].handle]
      PROVE  \A i \in DOMAIN readyEvents' : EventFrom(i)
  <2> SUFFICES ASSUME NEW i \in DOMAIN readyEvents' PROVE EventFrom(i)
    OBVIOUS
  <2>1. readyEvents' = Append(readyEvents, Event(d, ck)) /\ readyEvents \in Seq(EventType)
    BY <1>1, <1>7 DEF PushComplete, TypeOK
  <2>2. \/ i \in DOMAIN readyEvents /\ readyEvents'[i] = readyEvents[i]
        \/ readyEvents'[i] = Event(d, ck)
    <3> DEFINE e == Event(d, ck)
    <3>1. readyEvents' = Append(readyEvents, e)
      BY <2>1
    <3> HIDE DEF e
    <3>2. \/ i \in DOMAIN readyEvents /\ readyEvents'[i] = readyEvents[i]
          \/ readyEvents'[i] = e
      BY <2>1, <3>1
    <3> QED BY <3>2 DEF e
  <2>3. Event(d, ck).op = d /\ Event(d, ck).ck = ck
    BY DEF Event
  <2> QED BY <1>7, <2>2, <2>3 DEF EventFrom
<1>8. ASSUME NEW n \in Aops, NEW blocks, NEW ready, NEW places,
             DetachOutcome(n, blocks, ready, places),
             \A i \in DOMAIN ready : \E j \in DOMAIN readyEvents : ready[i] = readyEvents[j]
      PROVE  \A i \in DOMAIN readyEvents' : EventFrom(i)
  <2> SUFFICES ASSUME NEW i \in DOMAIN readyEvents' PROVE EventFrom(i)
    OBVIOUS
  <2>1. CASE i \in DOMAIN ready /\ readyEvents'[i] = ready[i]
    BY <1>8, <2>1 DEF EventFrom
  <2>2. CASE /\ Dropped(readyEvents'[i].op, blocks[n].handle)
             /\ readyEvents'[i].ck = completeKey[data[readyEvents'[i].op].handle]
    BY <2>2 DEF Dropped, EventFrom
  <2> QED BY <1>8, <2>1, <2>2 DEF DetachOutcome
<1>9. ASSUME NEW n \in Aops, Detach(n, ao, readyEvents, place)
      PROVE  \A i \in DOMAIN readyEvents' : EventFrom(i)
  BY <1>1, <1>8, <1>9, DetachNow
<1>10. CASE AppNext
  <2>1. CASE \E f \in Files : FileCloseSync(f) \/ FileDestroyUnopened(f)
    BY <1>1, <1>9, <2>1
       DEF FileCloseSync, FileDestroyUnopened, BlockInv, TypeOK, Objs
  <2>2. CASE \E s \in Socks : SockClose(s)
    BY <1>1, <1>9, <2>2 DEF SockClose, TypeOK, Objs
  <2> QED BY <1>6, <1>10, <2>1, <2>2
          DEF AppNext, FileOpenSync, SockOpen, FileOpenAsync, FileReadWrite, FileCloseAsync,
              SockPost
<1>11. CASE EvNext
  BY <1>7, <1>11 DEF EvNext, CallbackEvIo, CallbackEvAccept
<1>12. ASSUME NEW w \in Workers, WorkerNext(w)
       PROVE  \A i \in DOMAIN readyEvents' : EventFrom(i)
  <2>1. CASE WorkerQuit(w)
    BY <2>1, QuitEffect DEF QuitOutcome, EventFrom
  <2>2. CASE WorkerPost(w)
    <3>1. wop[w] \in Ops
      BY <2>2, WorkFacts DEF WorkerPost
    <3> QED BY <1>7, <2>2, <3>1 DEF WorkerPost
  <2> QED
    BY <1>6, <1>12, <2>1, <2>2
       DEF WorkerNext, WorkerWake, WorkerLock, WorkerSkip, WorkerTake, WorkerReadWrite,
           WorkerOpen, WorkerClose, WorkerUnlock
<1>13. CASE DriveNext
  <2>1. CASE Drives /\ readyEvents' = Tail(readyEvents)
    BY <2>1, DriveFacts DEF EventFrom
  <2>2. CASE FinishClose
    <3>1. aopOf[closing] \in Aops
      BY <1>1, <2>2 DEF FinishClose, BlockInv, TypeOK, Objs
    <3> QED BY <1>9, <2>2, <3>1 DEF FinishClose
  <2>3. CASE DriveDisconnect
    <3>1. /\ DetachOutcome(Key, Counted, Tail(readyEvents), Released)
          /\ Drives /\ Key # NULL
      BY <2>3, DisconnectEffect DEF DriveDisconnect, Delivers
    <3>2. Key \in Aops
      BY <3>1, DriveCounts
    <3>3. \A i \in DOMAIN Tail(readyEvents) :
            \E j \in DOMAIN readyEvents : Tail(readyEvents)[i] = readyEvents[j]
      BY <3>1, DriveFacts
    <3> QED BY <1>8, <3>1, <3>2, <3>3
  <2> QED BY <1>13, <2>1, <2>2, <2>3
          DEF DriveNext, DriveKeyless, DriveCancelled, DriveReadWrite, DriveOpen, DriveClose,
              DriveAccept, Delivers
<1>14. CASE UninitNext \/ Terminated \/ UNCHANGED vars
  BY <1>6, <1>14 DEF UninitNext, UninitBegin, UninitJoin, UninitClosePort, Terminated, vars
<1> QED BY <1>10, <1>11, <1>12, <1>13, <1>14 DEF Next

KeyRight(i) == readyEvents[i].ck \in {NULL, data[readyEvents[i].op].aop}

LEMMA ReadyKeys ==
  ASSUME IInv, TypeOK', PlaceInv', [Next]_vars
  PROVE  \A i \in DOMAIN readyEvents' : KeyRight(i)'
<1>1. TypeOK /\ PlaceInv /\ BlockInv /\ KeyInv /\ ConstantsAssumption
  BY ConstantsAssumption DEF IInv
<1>2. \A i \in DOMAIN readyEvents :
        readyEvents[i].op \in Ops /\ place[readyEvents[i].op] = "ready" /\ KeyRight(i)
  <2> TAKE i \in DOMAIN readyEvents
  <2>1. readyEvents[i] \in EventType
    BY <1>1 DEF TypeOK
  <2> QED BY <1>1, <2>1 DEF EventType, PlaceInv, InReady, KeyInv, KeyRight
<1>3. \A i \in DOMAIN readyEvents' :
        readyEvents'[i].op \in Ops /\ place'[readyEvents'[i].op] = "ready"
  <2> TAKE i \in DOMAIN readyEvents'
  <2>1. readyEvents'[i] \in EventType
    BY DEF TypeOK
  <2> QED BY <2>1 DEF EventType, PlaceInv, InReady
\* An operation that is ready after the step was posted before it, on its block.
<1>4. ASSUME NEW d \in Ops, place'[d] = "ready" PROVE data'[d].aop = data[d].aop
  <2>1. CASE place[d] # "free" /\ Carried(d)
    <3>1. data[d] \in DataType
      BY <1>1 DEF TypeOK
    <3> QED BY <2>1, <3>1 DEF Carried, DataType
  <2>2. CASE place[d] = "free" /\ PostedNow(d)
    <3>1. place'[d] # "ready"
      BY ZenonT(60), <1>1, <2>2 DEF PostedNow, FileOpenAsync, FileReadWrite, FileCloseAsync, SockPost,
                        PushWork, TypeOK
    <3> QED BY <1>4, <3>1
  <2> QED BY <1>4, <2>1, <2>2, OpSteps
<1>5. ASSUME NEW i \in DOMAIN readyEvents' PROVE KeyRight(i)'
  <2> DEFINE d == readyEvents'[i].op
  <2>1. d \in Ops /\ data'[d].aop = data[d].aop /\ EventFrom(i)
    BY <1>3, <1>4, EventsFrom
  <2>2. readyEvents'[i].ck \in {NULL, data[d].aop}
    <3>1. CASE \E j \in DOMAIN readyEvents : readyEvents'[i] = readyEvents[j]
      BY <1>2, <3>1 DEF KeyRight
    <3>2. CASE place[d] = "pend" /\ readyEvents'[i].ck = completeKey[data[d].handle]
      BY <2>1, <3>2, PendFacts
    <3> QED BY <2>1, <3>1, <3>2 DEF EventFrom
  <2> QED BY <2>1, <2>2 DEF KeyRight
<1> QED BY <1>5

LEMMA PendStep ==
  ASSUME IInv, TypeOK', BlockInv', [Next]_vars, NEW d \in Ops, place'[d] = "pend"
  PROVE  PendingRight(d)'
<1>1. TypeOK /\ BlockInv /\ KeyInv /\ MutexInv /\ ConstantsAssumption
  BY ConstantsAssumption DEF IInv
<1>2. data'[d].aop \in Aops /\ ao'[data'[d].aop].alloc
  BY DEF BlockInv, BlockOutlivesOps
<1>3. CASE place[d] # "free" /\ Carried(d)
  <2>1. place[d] = "pend" /\ data'[d] = data[d]
    BY <1>3 DEF Carried
  <2>2. PendingRight(d) /\ ao[data[d].aop].alloc
    BY <1>1, <2>1 DEF KeyInv, BlockInv, BlockOutlivesOps
  <2> DEFINE a == data[d].aop
  <2>3. BlockCarried(a)
    BY <1>2, <2>1, <2>2, BlockSteps
  <2>4. ASSUME DriveOpen, a = Key PROVE FALSE
    <3>1. Drives /\ data[Done].type = "open"
      BY <2>4 DEF DriveOpen, Delivers
    <3>2. Done \in Ops /\ place[Done] = "ready" /\ data[Done].aop = Key
      BY <1>1, <1>2, <2>1, <2>4, <3>1, DriveFacts DEF ConstantsAssumption
    <3>3. Done = d
      BY <1>1, <2>1, <2>4, <3>1, <3>2 DEF MutexInv, Live
    <3> QED BY <2>1, <3>2, <3>3
  <2>5. /\ ao'[a].isCancel = ao[a].isCancel /\ ao'[a].handle = ao[a].handle
    BY <2>1, <2>3, <2>4 DEF BlockCarried
  <2> QED BY <2>1, <2>2, <2>5 DEF PendingRight, BlockOf
<1>4. CASE place[d] = "free" /\ PostedNow(d)
  <2>1. PICK s \in Socks, t \in SockTypes : SockPost(s, t, d)
    BY <1>1, <1>4 DEF PostedNow, FileOpenAsync, FileReadWrite, FileCloseAsync, PushWork, TypeOK
  <2> DEFINE a == aopOf[s]
  <2>2. /\ data'[d] = NewData(t, a, handleOf[s]) /\ a # NULL /\ a \in Aops /\ aopOf' = aopOf
        /\ ao' = CountUp(ao, a) /\ s \in Objs
    BY <1>1, <2>1 DEF SockPost, TypeOK, Objs, appVars
  <2>3. ~ao'[a].isCancel /\ handleOf[s] = ao[a].handle
    BY <1>1, <2>1, <2>2 DEF BlockInv, AttachedBlock, KeyInv, SocketRight
  <2>4. ao'[a].handle = ao[a].handle
    BY <1>1, <2>2 DEF CountUp, TypeOK, BlockType
  <2> HIDE DEF a
  <2>5. /\ data'[d].type = t /\ data'[d].aop = a /\ data'[d].handle = handleOf[s]
        /\ data'[d].user = NULL
    BY <2>2 DEF NewData
  <2> QED BY <2>3, <2>4, <2>5 DEF PendingRight, BlockOf
<1> QED BY <1>3, <1>4, OpSteps

(***************************************************************************)
(* What a step makes of one object.                                        *)
(***************************************************************************)
ObjCarried(o) ==
  \/ /\ aopOf'[o] = aopOf[o] /\ handleOf'[o] = handleOf[o]
     /\ o \in Files => isOpen'[o] = isOpen[o]
  \/ aopOf'[o] = NULL
  \/ o \in Files /\ ~isOpen'[o]
  \/ o \in Files /\ \E a \in Aops, fd \in Fds : FileOpenSync(o, a, fd)
  \/ o \in Files /\ DriveOpen /\ o = ao[Key].obj /\ data[Done].ok /\ ~uninitFlag
  \/ o \in Socks /\ \E a \in Aops, fd \in Fds : SockOpen(o, a, fd)
  \/ o \in Socks /\ DriveAccept /\ aopOf'[o] # aopOf[o]

LEMMA ObjSteps ==
  ASSUME IInv, [Next]_vars, NEW o \in Objs PROVE ObjCarried(o)
<1>1. TypeOK /\ BlockInv /\ ConstantsAssumption
  BY ConstantsAssumption DEF IInv
<1>2. CASE UNCHANGED appVars
  BY <1>2 DEF appVars, ObjCarried
<1>3. CASE QuietNext
  BY <1>2, <1>3, QuietEffect
\* One object changes; the others are as they were.
<1>4. ASSUME NEW x \in Objs, NEW a, NEW fd, NEW b,
             aopOf' = [aopOf EXCEPT ![x] = a],
             handleOf' = handleOf \/ handleOf' = [handleOf EXCEPT ![x] = fd],
             isOpen' = isOpen \/ isOpen' = [isOpen EXCEPT ![x] = b], o # x
      PROVE  ObjCarried(o)
  BY <1>1, <1>4 DEF TypeOK, ObjCarried
<1>5. CASE AppNext
  <2>1. ASSUME NEW f \in Files, NEW a \in Aops, NEW fd \in Fds, FileOpenSync(f, a, fd)
        PROVE  ObjCarried(o)
    <3>1. o = f => ObjCarried(o)
      BY <2>1 DEF ObjCarried
    <3> QED BY <1>4, <2>1, <3>1 DEF FileOpenSync, Attach, Objs
  <2>2. ASSUME NEW f \in Files, NEW a \in Aops, NEW d \in Ops, FileOpenAsync(f, a, d)
        PROVE  ObjCarried(o)
    <3>1. ~isOpen'[f]
      BY <1>1, <2>2 DEF FileOpenAsync, BlockInv
    <3>2. o = f => ObjCarried(o)
      BY <2>2, <3>1 DEF ObjCarried
    <3> QED BY <1>4, <2>2, <3>2 DEF FileOpenAsync, Objs
  <2>3. ASSUME NEW f \in Files, FileCloseSync(f) \/ FileDestroyUnopened(f)
        PROVE  ObjCarried(o)
    <3>1. o = f => ObjCarried(o)
      BY <1>1, <2>3 DEF FileCloseSync, FileDestroyUnopened, TypeOK, ObjCarried
    <3> QED BY <1>4, <2>3, <3>1 DEF FileCloseSync, FileDestroyUnopened, Objs
  <2>4. ASSUME NEW s \in Socks, NEW a \in Aops, NEW fd \in Fds, SockOpen(s, a, fd)
        PROVE  ObjCarried(o)
    <3>1. o = s => ObjCarried(o)
      BY <2>4 DEF ObjCarried
    <3> QED BY <1>4, <2>4, <3>1 DEF SockOpen, Attach, Objs
  <2>5. ASSUME NEW s \in Socks, SockClose(s) PROVE ObjCarried(o)
    <3>1. o = s => ObjCarried(o)
      BY <1>1, <2>5 DEF SockClose, TypeOK, ObjCarried
    <3> QED BY <1>4, <2>5, <3>1 DEF SockClose, Objs
  <2> QED
    BY <1>2, <1>5, <2>1, <2>2, <2>3, <2>4, <2>5
       DEF AppNext, FileReadWrite, FileCloseAsync, SockPost
<1>6. CASE DriveNext
  <2>1. CASE DriveKeyless \/ DriveCancelled \/ DriveReadWrite \/ DriveClose
    BY <1>2, <2>1 DEF DriveKeyless, DriveCancelled, DriveReadWrite, DriveClose
  <2>2. CASE FinishClose
    <3>1. o = closing => ObjCarried(o)
      BY <1>1, <2>2 DEF FinishClose, TypeOK, ObjCarried
    <3> QED BY <1>1, <1>4, <2>2, <3>1 DEF FinishClose, TypeOK, Objs
  <2>3. CASE DriveOpen
    <3> DEFINE f == ao[Key].obj
    <3>1. f \in Files /\ f \in Objs
      BY <2>3, DeliversFile DEF DriveOpen, FileTypes, Objs
    <3>2. CASE o = f
      <4>1. CASE data[Done].ok /\ ~uninitFlag
        BY <2>3, <3>1, <3>2, <4>1 DEF ObjCarried
      <4>2. CASE ~(data[Done].ok /\ ~uninitFlag)
        <5>1. isOpen' = [isOpen EXCEPT ![f] = FALSE]
          BY <2>3, <4>2 DEF DriveOpen
        <5> QED BY <1>1, <3>1, <3>2, <5>1 DEF ObjCarried, TypeOK
      <4> QED BY <4>1, <4>2
    <3>3. CASE o # f
      <4>1. /\ aopOf'[o] = aopOf[o] /\ handleOf'[o] = handleOf[o]
            /\ o \in Files => isOpen'[o] = isOpen[o]
        BY <1>1, <2>3, <3>1, <3>3 DEF DriveOpen, TypeOK
      <4> QED BY <4>1 DEF ObjCarried
    <3> QED BY <3>2, <3>3
  <2>4. CASE DriveDisconnect
    <3> DEFINE s == ao[Key].obj
    <3>1. s \in Objs
      BY <2>4, DeliversFacts DEF DriveDisconnect, OpTypes, SockTypes
    <3>2. o = s => ObjCarried(o)
      BY <1>1, <2>4 DEF DriveDisconnect, TypeOK, ObjCarried
    <3> QED BY <1>4, <2>4, <3>1, <3>2 DEF DriveDisconnect
  <2>5. CASE DriveAccept
    <3>1. CASE UNCHANGED appVars
      BY <1>2, <3>1
    <3>2. CASE \E s \in Socks, a \in Aops :
                 /\ aopOf[s] = NULL /\ aopOf' = [aopOf EXCEPT ![s] = a]
                 /\ handleOf' = [handleOf EXCEPT ![s] = data[Done].user]
                 /\ isOpen' = isOpen
      <4>1. PICK s \in Socks, a \in Aops :
                 /\ aopOf[s] = NULL /\ aopOf' = [aopOf EXCEPT ![s] = a]
                 /\ handleOf' = [handleOf EXCEPT ![s] = data[Done].user]
                 /\ isOpen' = isOpen
        BY <3>2
      <4>2. s \in Objs /\ aopOf'[s] # aopOf[s]
        BY <1>1, <4>1 DEF Objs, TypeOK, ConstantsAssumption
      <4>3. o = s => ObjCarried(o)
        BY <2>5, <4>1, <4>2 DEF ObjCarried
      <4> QED BY <1>4, <4>1, <4>2, <4>3
    <3> QED BY <2>5, <3>1, <3>2 DEF DriveAccept, appVars
  <2> QED BY <1>6, <2>1, <2>2, <2>3, <2>4, <2>5 DEF DriveNext
<1> QED BY <1>3, <1>5, <1>6 DEF Next, QuietNext

LEMMA SocketStep ==
  ASSUME IInv, Careful, TypeOK', BlockInv', [Next]_vars, NEW s \in Socks, aopOf'[s] # NULL
  PROVE  SocketRight(s)'
<1>1. TypeOK /\ BlockInv /\ KeyInv /\ DescriptorInv /\ ConstantsAssumption /\ ClosedInTurn
  BY ConstantsAssumption DEF IInv, Careful
<1>2. OwnersKept /\ s \in Objs /\ s \notin Files
  BY <1>1, OwnersStep DEF Objs, ConstantsAssumption
<1>3. CASE aopOf'[s] = aopOf[s] /\ handleOf'[s] = handleOf[s]
  <2> DEFINE a == aopOf[s]
             fd == handleOf[s]
  <2>1. a # NULL /\ a \in Aops /\ ao[a].alloc /\ ao[a].obj = s /\ ao'[a].alloc
    BY <1>1, <1>2, <1>3 DEF TypeOK, BlockInv, AttachedBlock
  <2>2. fd \in Fds /\ fd = ao[a].handle /\ fdOwner[fd] = a /\ completeKey[fd] \in {NULL, a}
    BY <1>1, <2>1 DEF KeyInv, SocketRight
  <2>3. BlockCarried(a)
    BY <2>1, BlockSteps
  <2>4. DriveOpen => a # Key
    BY <1>2, <2>1, DeliversFile DEF DriveOpen, FileTypes
  <2>5. ao'[a].handle = fd
    BY <1>2, <1>3, <2>2, <2>3, <2>4 DEF BlockCarried
  <2>6. ASSUME NEW w \in Workers, WorkerClose(w), data[wop[w]].aop = a PROVE FALSE
    <3>1. PICK f \in Files : aopOf[f] = a
      BY <1>1, <2>6, WorkerCloseOwner
    <3> QED BY <1>1, <1>2, <2>1, <3>1 DEF BlockInv, AttachedBlock, Objs
  <2>7. fdOwner'[fd] = a /\ completeKey'[fd] \in {NULL, a}
    BY <1>2, <1>3, <2>1, <2>2, <2>6 DEF OwnersKept
  <2> QED BY <1>3, <2>2, <2>5, <2>7 DEF SocketRight
<1>4. CASE \E a \in Aops, fd \in Fds : SockOpen(s, a, fd)
  <2>1. PICK a \in Aops, fd \in Fds : SockOpen(s, a, fd)
    BY <1>4
  <2>2. /\ aopOf'[s] = a /\ handleOf'[s] = fd /\ fdOwner'[fd] = a /\ completeKey'[fd] = a
        /\ ao'[a] = NewBlock(s, fd, "free")
    BY <1>1, <1>2, <2>1 DEF SockOpen, Attach, SetKey, TypeOK
  <2> QED BY <2>2 DEF SocketRight, NewBlock
<1>5. CASE DriveAccept /\ aopOf'[s] # aopOf[s]
  <2> DEFINE fd == data[Done].user
  <2>1. PICK x \in Socks, a \in Aops :
          /\ fd # NULL /\ aopOf' = [aopOf EXCEPT ![x] = a]
          /\ ao' = [Counted EXCEPT ![a] = NewBlock(x, fd, "free")] /\ SetKey(fd, a)
          /\ handleOf' = [handleOf EXCEPT ![x] = fd]
          /\ fdOwner' = [fdOwner EXCEPT ![fd] = a]
    BY <1>5 DEF DriveAccept
  <2>2. x = s
    BY <1>1, <1>2, <1>5, <2>1 DEF TypeOK
  <2>3. Done \in Ops /\ Counted \in [Aops -> BlockType]
    BY <1>5, DriveCounts DEF DriveAccept, Delivers
  <2>4. fd \in Fds
    BY <1>1, <2>1, <2>3 DEF TypeOK, DataType
  <2>5. /\ aopOf'[s] = a /\ handleOf'[s] = fd /\ fdOwner'[fd] = a /\ completeKey'[fd] = a
        /\ ao'[a] = NewBlock(s, fd, "free")
    BY <1>1, <1>2, <2>1, <2>2, <2>3, <2>4 DEF SetKey, TypeOK
  <2> QED BY <2>4, <2>5 DEF SocketRight, NewBlock
<1> QED BY <1>2, <1>3, <1>4, <1>5, ObjSteps DEF ObjCarried

LEMMA KeyStep ==
  ASSUME IInv, Careful, TypeOK', PlaceInv', BlockInv', [Next]_vars PROVE KeyInv'
<1>1. \A i \in DOMAIN readyEvents' : KeyRight(i)'
  BY ReadyKeys
<1>2. \A d \in Ops : place'[d] = "pend" => PendingRight(d)'
  BY PendStep
<1>3. \A s \in Socks : aopOf'[s] # NULL => SocketRight(s)'
  BY SocketStep
<1> QED BY <1>1, <1>2, <1>3 DEF KeyInv, KeyRight

-----------------------------------------------------------------------------
(* DescriptorInv.                                                          *)

\* A file with an asynchronous close on its way stays as it is until driveEngine
\* delivers that close.
LEMMA CloseSteps ==
  ASSUME IInv, ClosedInTurn, [Next]_vars, NEW d \in Ops, place[d] # "free",
         data[d].type = "close", place'[d] # "free",
         NEW f \in Files, f = ao[data[d].aop].obj
  PROVE  isOpen'[f] /\ aopOf'[f] = aopOf[f] /\ closing' # f
<1>1. TypeOK /\ BlockInv /\ MutexInv /\ DescriptorInv /\ ConstantsAssumption
  BY ConstantsAssumption DEF IInv
<1> DEFINE a == data[d].aop
<1>2. /\ PostedBlock(d) /\ OpDescriptor(d) /\ a \in Aops /\ ao[a].alloc
  BY <1>1 DEF Live, BlockInv, BlockOutlivesOps, DescriptorInv
<1>3. /\ AllowAsyncClose /\ isOpen[f] /\ closing # f /\ ~ao[a].isCancel
      /\ \A e \in Outstanding(a) : data[e].type = "close" => e = d
  BY <1>2 DEF OpDescriptor, BlockOf
<1>4. aopOf[f] = a /\ f \in Objs /\ f \notin Socks /\ a # NULL
  BY <1>1, <1>2, <1>3 DEF PostedBlock, Objs, ConstantsAssumption
<1>5. ~AllowBusyClose /\ ao[a].opCount # 0
  BY <1>1, <1>2, <1>3, CountFacts DEF ClosedInTurn
<1>6. CASE QuietNext
  BY <1>3, <1>6, QuietEffect DEF appVars
<1>7. CASE AppNext
  <2>1. CASE \E g \in Files : FileCloseSync(g) \/ FileDestroyUnopened(g)
    <3>1. PICK g \in Files : FileCloseSync(g) \/ FileDestroyUnopened(g)
      BY <2>1
    <3>2. g # f
      BY <1>3, <1>4, <1>5, <3>1 DEF FileCloseSync, FileDestroyUnopened
    <3>3. closing' = closing /\ aopOf' = [aopOf EXCEPT ![g] = NULL]
      BY <3>1 DEF FileCloseSync, FileDestroyUnopened, mainVars
    <3>4. isOpen' = isOpen \/ isOpen' = [isOpen EXCEPT ![g] = FALSE]
      BY <3>1 DEF FileCloseSync, FileDestroyUnopened
    <3> QED BY <1>1, <1>3, <1>4, <3>2, <3>3, <3>4 DEF TypeOK
  <2>2. CASE \/ \E g \in Files, n \in Aops, fd \in Fds : FileOpenSync(g, n, fd)
             \/ \E g \in Files, n \in Aops, e \in Ops : FileOpenAsync(g, n, e)
    BY ZenonT(60), <1>1, <1>3, <1>4, <2>2 DEF FileOpenSync, FileOpenAsync, Attach, TypeOK, mainVars
  <2>3. CASE \/ \E s \in Socks, n \in Aops, fd \in Fds : SockOpen(s, n, fd)
             \/ \E s \in Socks : SockClose(s)
    BY <1>1, <1>3, <1>4, <2>3 DEF SockOpen, Attach, SockClose, TypeOK, mainVars
  <2> QED
    BY <1>3, <1>7, <2>1, <2>2, <2>3
       DEF AppNext, FileReadWrite, FileCloseAsync, SockPost, appVars, mainVars
<1>8. CASE DriveNext
  <2>1. CASE DriveKeyless \/ DriveCancelled \/ DriveReadWrite
    BY <1>3, <2>1 DEF DriveKeyless, DriveCancelled, DriveReadWrite, CallbackRan, appVars
  <2>2. CASE DriveClose
    <3>1. Drives /\ Key # NULL /\ data[Done].type = "close" /\ place' = Released
      BY <2>2 DEF DriveClose, Delivers
    <3>2. /\ Done \in Ops /\ place[Done] = "ready" /\ data[Done].aop = Key
          /\ "close" \in OpTypes /\ aopOf[ao[Key].obj] = Key
      BY <2>2, <3>1, DriveFacts, DeliversFacts DEF DriveClose, OpTypes, FileTypes
    <3>3. place'[Done] = "free"
      BY <1>1, <3>1, <3>2 DEF Released, TypeOK
    <3>4. ao[Key].obj # f
      <4>1. SUFFICES ASSUME ao[Key].obj = f PROVE FALSE
        OBVIOUS
      <4>2. Done \in Outstanding(a)
        BY <1>4, <3>2, <4>1 DEF Outstanding
      <4> QED BY <1>3, <3>1, <3>3, <4>2
    <3> QED BY <1>3, <2>2, <3>4 DEF DriveClose, appVars
  <2>3. CASE FinishClose
    BY <1>1, <1>3, <1>4, <2>3 DEF FinishClose, TypeOK
  <2>4. CASE DriveOpen
    <3>1. /\ Delivers("open") /\ "open" \in OpTypes /\ closing' = closing
      BY <2>4 DEF DriveOpen, OpTypes, FileTypes, CallbackRan
    <3>2. /\ Done \in Ops /\ place[Done] = "ready" /\ data[Done].aop = Key
          /\ data[Done].type = "open" /\ aopOf[ao[Key].obj] = Key
      BY <3>1, DriveFacts, DeliversFacts DEF Delivers
    <3>3. ao[Key].obj # f
      <4>1. ao[Key].fileOpMutex = "none"
        BY <1>1, <3>2 DEF MutexInv, Live, BlockOf
      <4> QED BY <1>1, <1>3, <1>4, <3>2, <4>1 DEF MutexInv
    <3>4. /\ aopOf' \in {aopOf, [aopOf EXCEPT ![ao[Key].obj] = NULL]}
          /\ \E b \in BOOLEAN : isOpen' = [isOpen EXCEPT ![ao[Key].obj] = b]
      BY <2>4 DEF DriveOpen
    <3> QED BY <1>1, <1>3, <1>4, <3>1, <3>3, <3>4 DEF TypeOK
  <2>5. CASE DriveDisconnect
    <3>1. Delivers("disc") /\ "disc" \in OpTypes /\ "disc" \notin FileTypes
      BY <2>5 DEF DriveDisconnect, OpTypes, SockTypes, FileTypes
    <3>2. ao[Key].obj # f
      BY <3>1, DeliversFacts
    <3> QED BY <1>1, <1>3, <2>5, <3>2 DEF DriveDisconnect, CallbackRan, TypeOK
  <2>6. CASE DriveAccept
    <3>1. isOpen' = isOpen /\ closing' = closing
      BY <2>6 DEF DriveAccept, CallbackRan
    <3>2. \/ aopOf' = aopOf
          \/ \E s \in Socks, n \in Aops : aopOf' = [aopOf EXCEPT ![s] = n]
      BY <2>6 DEF DriveAccept
    <3> QED BY <1>1, <1>3, <1>4, <3>1, <3>2 DEF TypeOK
  <2> QED BY <1>8, <2>1, <2>2, <2>3, <2>4, <2>5, <2>6 DEF DriveNext
<1> QED BY <1>6, <1>7, <1>8 DEF Next, QuietNext

\* Every other operation starts with nothing a descriptor could be known by.
PostedOther(d) ==
  \/ \E f \in Files, a \in Aops : FileOpenAsync(f, a, d)
  \/ \E f \in Files : FileReadWrite(f, d)
  \/ \E s \in Socks, t \in SockTypes : SockPost(s, t, d)

LEMMA PostedOtherData ==
  ASSUME IInv, NEW d \in Ops, PostedOther(d)
  PROVE  data'[d].type # "close" /\ ~data'[d].ok /\ data'[d].user = NULL
<1>1. data \in [Ops -> DataType]
  BY DEF IInv, TypeOK
<1>2. PICK t, a, fd : t # "close" /\ data' = [data EXCEPT ![d] = NewData(t, a, fd)]
  <2>1. CASE \E f \in Files, a \in Aops : FileOpenAsync(f, a, d)
    <3>1. PICK f \in Files, a \in Aops : FileOpenAsync(f, a, d)
      BY <2>1
    <3>2. data' = [data EXCEPT ![d] = NewData("open", a, NULL)] /\ "open" \in OpTypes
      BY <3>1 DEF FileOpenAsync, PushWork, OpTypes, FileTypes
    <3> QED BY <3>2
  <2>2. CASE \E f \in Files : FileReadWrite(f, d)
    <3>1. PICK f \in Files : FileReadWrite(f, d)
      BY <2>2
    <3>2. data' = [data EXCEPT ![d] = NewData("rw", aopOf[f], handleOf[f])] /\ "rw" \in OpTypes
      BY <3>1 DEF FileReadWrite, PushWork, OpTypes, FileTypes
    <3> QED BY <3>2
  <2>3. CASE \E s \in Socks, t \in SockTypes : SockPost(s, t, d)
    <3>1. PICK s \in Socks, t \in SockTypes : SockPost(s, t, d)
      BY <2>3
    <3>2. /\ data' = [data EXCEPT ![d] = NewData(t, aopOf[s], handleOf[s])]
          /\ t \in OpTypes /\ t # "close"
      BY <3>1 DEF SockPost, OpTypes, SockTypes
    <3> QED BY <3>2
  <2> QED BY <2>1, <2>2, <2>3 DEF PostedOther
<1>3. data'[d] = NewData(t, a, fd)
  BY <1>1, <1>2
<1> QED BY <1>2, <1>3 DEF NewData

LEMMA OpDescriptorStep ==
  ASSUME IInv, ClosedInTurn, TypeOK', BlockInv', [Next]_vars,
         NEW d \in Ops, place'[d] # "free"
  PROVE  OpDescriptor(d)'
<1>1. TypeOK /\ BlockInv /\ DescriptorInv /\ OwnersKept /\ ConstantsAssumption
  BY OwnersStep, ConstantsAssumption DEF IInv
<1>2. data'[d].aop \in Aops /\ ao'[data'[d].aop].alloc
  BY DEF BlockInv, BlockOutlivesOps
<1>3. CASE place[d] # "free" /\ Carried(d)
  <2>1. /\ data[d] \in DataType /\ OpDescriptor(d) /\ PostedBlock(d)
        /\ data[d].aop \in Aops /\ ao[data[d].aop].alloc
    BY <1>1, <1>3 DEF TypeOK, DescriptorInv, BlockInv, BlockOutlivesOps, Live
  <2>2. data'[d].type = data[d].type /\ data'[d].aop = data[d].aop
    <3>1. CASE data'[d] = data[d]
      BY <3>1
    <3>2. CASE \E fd \in Fds \cup {NULL} : data'[d] = [data[d] EXCEPT !.user = fd]
      BY <2>1, <3>2 DEF DataType
    <3>3. CASE \E fd \in Fds \cup {NULL} :
                 data'[d] = [data[d] EXCEPT !.ok = (fd # NULL), !.handle = fd]
      BY <2>1, <3>3 DEF DataType
    <3>4. CASE data'[d] = [data[d] EXCEPT !.ok = TRUE]
      BY <2>1, <3>4 DEF DataType
    <3> QED BY <1>3, <3>1, <3>2, <3>3, <3>4 DEF Carried
  <2>3. data'[d].type = "open" /\ data'[d].ok =>
          data'[d].handle \in Fds /\ fdOwner'[data'[d].handle] = d
    <3> SUFFICES ASSUME data[d].type = "open", data'[d].ok
                 PROVE  data'[d].handle \in Fds /\ fdOwner'[data'[d].handle] = d
      BY <2>2
    <3>1. CASE data'[d] = data[d]
      <4>1. data[d].handle \in Fds /\ fdOwner[data[d].handle] = d
        BY <2>1, <3>1 DEF OpDescriptor
      <4>2. fdOwner'[data[d].handle] = d
        BY <1>1, <4>1 DEF OwnersKept
      <4> QED BY <3>1, <4>1, <4>2
    <3>2. CASE data'[d] # data[d]
      <4>1. PICK fd \in Fds \cup {NULL} :
              /\ data'[d] = [data[d] EXCEPT !.ok = (fd # NULL), !.handle = fd]
              /\ fd # NULL => fdOwner'[fd] = d
        BY <1>3, <3>2 DEF Carried
      <4>2. data'[d].handle = fd /\ (data'[d].ok <=> fd # NULL)
        BY <2>1, <4>1 DEF DataType
      <4> QED BY <4>1, <4>2
    <3> QED BY <3>1, <3>2
  <2>4. data'[d].type = "accept" /\ data'[d].user # NULL => fdOwner'[data'[d].user] = d
    <3> SUFFICES ASSUME data[d].type = "accept", data'[d].user # NULL
                 PROVE  fdOwner'[data'[d].user] = d
      BY <2>2
    <3>1. CASE data'[d] = data[d]
      <4>1. data[d].user \in Fds
        BY <2>1, <3>1 DEF DataType
      <4>2. fdOwner[data[d].user] = d
        BY <2>1, <3>1 DEF OpDescriptor
      <4>3. fdOwner'[data[d].user] = d
        BY <1>1, <4>1, <4>2 DEF OwnersKept
      <4> QED BY <3>1, <4>1, <4>3
    <3>2. CASE data'[d] # data[d]
      <4>1. PICK fd \in Fds \cup {NULL} :
              data'[d] = [data[d] EXCEPT !.user = fd] /\ (fd # NULL => fdOwner'[fd] = d)
        BY <1>3, <3>2 DEF Carried
      <4>2. data'[d].user = fd
        BY <2>1, <4>1 DEF DataType
      <4> QED BY <4>1, <4>2
    <3> QED BY <3>1, <3>2
  <2>5. ASSUME data'[d].type = "close"
        PROVE  /\ AllowAsyncClose
               /\ ~ao'[data'[d].aop].isCancel /\ data'[d].handle = ao'[data'[d].aop].handle
               /\ isOpen'[ao'[data'[d].aop].obj] /\ closing' # ao'[data'[d].aop].obj
    <3> DEFINE a == data[d].aop
               f == ao[a].obj
    <3>1. /\ data[d].type = "close" /\ AllowAsyncClose /\ ~ao[a].isCancel
          /\ data[d].handle = ao[a].handle /\ isOpen[f]
      BY <2>1, <2>2, <2>5 DEF OpDescriptor, BlockOf
    <3>2. f \in Files /\ f \in Objs /\ aopOf[f] = a
      BY <2>1, <3>1 DEF PostedBlock, FileTypes, Objs
    <3>3. isOpen'[f] /\ aopOf'[f] = a /\ closing' # f
      BY <1>3, <3>1, <3>2, CloseSteps
    <3>4. BlockCarried(a)
      BY <1>2, <2>1, <2>2, BlockSteps
    <3>5. DriveOpen => a # Key
      <4> SUFFICES ASSUME DriveOpen, a = Key PROVE FALSE
        OBVIOUS
      <4>1. Drives /\ data[Done].type = "open"
        BY DEF DriveOpen, Delivers
      <4>2. Done \in Ops /\ place[Done] = "ready" /\ data[Done].aop = a
        BY <1>1, <2>1, <4>1, DriveFacts DEF ConstantsAssumption
      <4>3. ao[a].fileOpMutex = "none"
        BY <4>1, <4>2 DEF IInv, MutexInv, Live, BlockOf
      <4> QED BY <3>1, <3>2, <4>3 DEF IInv, MutexInv
    <3>6. ao'[a].isCancel = ao[a].isCancel /\ ao'[a].obj = f /\ ao'[a].handle = ao[a].handle
      BY <3>2, <3>3, <3>4, <3>5 DEF BlockCarried
    <3>7. data'[d].handle = data[d].handle
      BY <1>3, <2>1, <3>1 DEF Carried, DataType
    <3> QED BY <2>2, <3>1, <3>3, <3>6, <3>7
  <2>6. ASSUME data'[d].type = "close", NEW e \in Ops, place'[e] # "free",
               data'[e].aop = data'[d].aop, data'[e].type = "close"
        PROVE  e = d
    <3>1. /\ data[d].type = "close" /\ d \in Outstanding(data[d].aop)
          /\ \A c \in Outstanding(data[d].aop) : data[c].type = "close" => c = d
      BY <1>3, <2>1, <2>2, <2>6 DEF OpDescriptor, Outstanding
    <3>2. CASE place[e] # "free" /\ Carried(e)
      <4>1. data[e] \in DataType
        BY <1>1 DEF TypeOK
      <4>2. data'[e].type = data[e].type /\ data'[e].aop = data[e].aop
        BY <3>2, <4>1 DEF Carried, DataType
      <4> QED BY <2>2, <2>6, <3>1, <3>2, <4>2 DEF Outstanding
    <3>3. CASE place[e] = "free" /\ PostedNow(e)
      <4>0. ~PostedOther(e)
        BY <2>6, PostedOtherData
      <4>1. PICK f \in Files : FileCloseAsync(f, e)
        BY <3>3, <4>0 DEF PostedNow, PostedOther
      <4>2. data'[e].aop = aopOf[f]
        BY <1>1, <4>1 DEF FileCloseAsync, PushWork, NewData, TypeOK
      <4>3. aopOf[f] = data[d].aop
        BY <2>2, <2>6, <4>2
      <4>4. ~AllowBusyClose
        BY <2>1, <3>1, AsyncCloseOnly
      <4> QED BY <3>1, <4>1, <4>3, <4>4 DEF FileCloseAsync
    <3> QED BY <2>6, <3>2, <3>3, OpSteps
  <2> QED BY <2>3, <2>4, <2>5, <2>6 DEF OpDescriptor, BlockOf, Outstanding
<1>4. CASE place[d] = "free" /\ PostedNow(d)
  <2>1. CASE PostedOther(d)
    <3>1. data'[d].type # "close" /\ ~data'[d].ok /\ data'[d].user = NULL
      BY <2>1, PostedOtherData
    <3> QED BY <3>1 DEF OpDescriptor
  <2>2. ASSUME NEW f \in Files, FileCloseAsync(f, d) PROVE OpDescriptor(d)'
    <3> DEFINE a == aopOf[f]
    <3>1. /\ AllowAsyncClose /\ isOpen[f] /\ closing # f /\ UNCHANGED <<appVars, closing>>
          /\ data'[d] = NewData("close", a, handleOf[f]) /\ ao' = CountUp(ao, a)
          /\ \A e \in Ops \ {d} : data'[e] = data[e] /\ place'[e] = place[e]
          /\ AllowBusyClose \/ \A c \in Outstanding(a) : data[c].type # "close"
      BY <1>1, <2>2 DEF FileCloseAsync, PushWork, TypeOK, mainVars
    <3>2. a \in Aops /\ a # NULL /\ f \in Objs
      BY <1>1, <3>1 DEF BlockInv, TypeOK, Objs
    <3>3. ~ao'[a].isCancel /\ ao'[a].obj = f /\ aopOf'[f] = a /\ isOpen'[f] /\ closing' # f
      BY <3>1, <3>2 DEF BlockInv, AttachedBlock, appVars
    <3>4. handleOf[f] = ao[a].handle /\ ao'[a].handle = ao[a].handle
      BY <1>1, <3>1, <3>2 DEF DescriptorInv, FileDescriptor, CountUp, TypeOK, BlockType
    <3>5. data'[d].type = "close" /\ data'[d].aop = a /\ data'[d].handle = handleOf[f]
            /\ ~data'[d].ok
      BY <3>1 DEF NewData
    <3>6. ~AllowBusyClose
      BY <1>1, <3>1 DEF ClosedInTurn
    <3>7. ASSUME NEW e \in Ops, place'[e] # "free", data'[e].aop = a, data'[e].type = "close"
          PROVE  e = d
      BY <3>1, <3>6, <3>7 DEF Outstanding
    <3> HIDE DEF a
    <3> QED BY <3>1, <3>3, <3>4, <3>5, <3>7 DEF OpDescriptor, BlockOf, Outstanding
  <2> QED BY <1>4, <2>1, <2>2 DEF PostedNow, PostedOther
<1> QED BY <1>3, <1>4, OpSteps

\* What a step releases: the completion driveEngine has counted.
LEMMA ReleaseSteps ==
  ASSUME IInv, [Next]_vars, NEW d \in Ops, place[d] # "free", place'[d] = "free"
  PROVE  /\ d = Done /\ Drives /\ Key = data[d].aop
         /\ data[d].type = "close" => DriveClose \/ DriveCancelled
<1>1. TypeOK /\ BlockInv /\ ConstantsAssumption
  BY ConstantsAssumption DEF IInv
<1>2. ASSUME OpsKept PROVE FALSE
  BY <1>2 DEF OpsKept, OpKept
<1>3. ASSUME NEW a \in Aops, Detach(a, ao, readyEvents, place) PROVE FALSE
  <2>1. DetachOutcome(a, ao, readyEvents, place)
    BY <1>1, <1>3, DetachNow DEF IInv
  <2> QED BY <2>1 DEF DetachOutcome
<1>4. ~QuietNext
  BY <1>2, QuietEffect
<1>5. ~AppNext
  <2>1. ASSUME NEW e \in Ops, place'= [place EXCEPT ![e] = "queued"]
                                \/ place' = [place EXCEPT ![e] = "pend"]
        PROVE  FALSE
    BY <1>1, <2>1 DEF TypeOK
  <2>2. place' # place
    OBVIOUS
  <2>3. ~\E f \in Files : FileCloseSync(f) \/ FileDestroyUnopened(f)
    BY <1>1, <1>3 DEF FileCloseSync, FileDestroyUnopened, BlockInv, TypeOK, Objs
  <2>4. ~\E s \in Socks : SockClose(s)
    BY <1>1, <1>3 DEF SockClose, TypeOK, Objs
  <2> QED BY <2>1, <2>2, <2>3, <2>4
          DEF AppNext, FileOpenSync, SockOpen, FileOpenAsync, FileReadWrite, FileCloseAsync,
              PushWork, SockPost
<1>6. ~FinishClose
  <2> SUFFICES ASSUME FinishClose PROVE FALSE
    OBVIOUS
  <2>1. aopOf[closing] \in Aops /\ Detach(aopOf[closing], ao, readyEvents, place)
    BY <1>1 DEF FinishClose, BlockInv, TypeOK, Objs
  <2> QED BY <1>3, <2>1
<1>7. DriveCancelled \/ DriveReadWrite \/ DriveOpen \/ DriveClose \/ DriveAccept
        \/ DriveDisconnect
  BY <1>4, <1>5, <1>6 DEF Next, DriveNext, QuietNext
<1>8. /\ Drives /\ Key # NULL
      /\ \/ place' = Released
         \/ DetachOutcome(Key, Counted, Tail(readyEvents), Released)
  BY <1>7, DisconnectEffect
     DEF DriveCancelled, DriveReadWrite, DriveOpen, DriveClose, DriveAccept, DriveDisconnect,
         Delivers
<1>9. Done \in Ops /\ Key = data[Done].aop
  BY <1>8, DriveCounts
<1>10. d = Done
  <2>1. Released[d] = "free"
    BY <1>8 DEF DetachOutcome
  <2> QED BY <1>1, <2>1 DEF Released, TypeOK
<1>11. data[d].type = "close" => DriveClose \/ DriveCancelled
  BY <1>7, <1>10 DEF DriveReadWrite, DriveOpen, DriveAccept, DriveDisconnect, Delivers
<1> QED BY <1>8, <1>9, <1>10, <1>11

LEMMA FileDescriptorStep ==
  ASSUME IInv, ClosedInTurn, TypeOK', BlockInv', [Next]_vars,
         NEW f \in Files, isOpen'[f]
  PROVE  FileDescriptor(f)'
<1>1. TypeOK /\ BlockInv /\ MutexInv /\ DescriptorInv /\ OwnersKept /\ ConstantsAssumption
  BY OwnersStep, ConstantsAssumption DEF IInv
<1>2. f \in Objs /\ f \notin Socks /\ aopOf'[f] # NULL /\ f # NULL
  BY <1>1 DEF Objs, ConstantsAssumption, BlockInv
<1>3. CASE aopOf'[f] = aopOf[f] /\ handleOf'[f] = handleOf[f] /\ isOpen'[f] = isOpen[f]
  <2> DEFINE a == aopOf[f]
             fd == handleOf[f]
  <2>1. a # NULL /\ a \in Aops /\ ao[a].alloc /\ ao[a].obj = f /\ ~ao[a].isCancel /\ isOpen[f]
          /\ ao'[a].alloc
    BY <1>1, <1>2, <1>3 DEF TypeOK, BlockInv, AttachedBlock
  <2>2. /\ fd \in Fds /\ fd = ao[a].handle
        /\ closing # f => \/ fdOwner[fd] = a
                          \/ \E d \in Outstanding(a) : data[d].type = "close" /\ data[d].ok
    BY <1>1, <2>1 DEF DescriptorInv, FileDescriptor
  <2>3. BlockCarried(a)
    BY <2>1, BlockSteps
  <2>4. DriveOpen => a # Key
    <3> SUFFICES ASSUME DriveOpen, a = Key PROVE FALSE
      OBVIOUS
    <3>1. Drives /\ data[Done].type = "open"
      BY DEF DriveOpen, Delivers
    <3>2. Done \in Ops /\ place[Done] = "ready" /\ data[Done].aop = a
      BY <2>1, <3>1, DriveFacts
    <3>3. ao[a].fileOpMutex = "none"
      BY <1>1, <3>1, <3>2 DEF MutexInv, Live, BlockOf
    <3> QED BY <1>1, <2>1, <3>3 DEF MutexInv
  <2>5. ao'[a].handle = fd
    BY <1>2, <1>3, <2>2, <2>3, <2>4 DEF BlockCarried
  <2>6. ASSUME closing' # f
        PROVE  \/ fdOwner'[fd] = a
               \/ \E d \in Ops : /\ place'[d] # "free" /\ data'[d].aop = a
                                 /\ data'[d].type = "close" /\ data'[d].ok
    <3>1. closing # f
      <4> SUFFICES ASSUME closing = f PROVE FALSE
        OBVIOUS
      <4>1. ~Drives /\ ~QuietNext /\ ~AppNext
        <5>1. ~Drives
          BY <1>2 DEF Drives, EvDrives
        <5>2. ~QuietNext
          BY <2>6, QuietEffect
        <5>3. ~AppNext
          BY <2>6 DEF AppNext, FileOpenSync, SockOpen, FileOpenAsync, FileReadWrite,
                      FileCloseAsync, FileCloseSync, FileDestroyUnopened, SockPost, SockClose,
                      mainVars
        <5> QED BY <5>1, <5>2, <5>3
      <4>2. FinishClose
        BY <4>1 DEF Next, DriveNext, QuietNext, DriveCancelled, DriveReadWrite, DriveOpen,
                    DriveClose, DriveAccept, DriveDisconnect, Delivers
      <4>3. ~isOpen'[f]
        BY <1>1, <4>2 DEF FinishClose, TypeOK
      <4> QED BY <4>3
    <3>2. CASE fdOwner[fd] = a
      <4>1. CASE fdOwner'[fd] = fdOwner[fd]
        BY <3>2, <4>1
      <4>2. ASSUME NEW w \in Workers, WorkerClose(w), data[wop[w]].aop = a
            PROVE  \E d \in Ops : /\ place'[d] # "free" /\ data'[d].aop = a
                                  /\ data'[d].type = "close" /\ data'[d].ok
        <5>1. wop[w] \in Ops /\ place[wop[w]] = "working"
          BY <4>2, WorkFacts DEF WorkerClose
        <5>2. /\ data'[wop[w]] = [data[wop[w]] EXCEPT !.ok = TRUE] /\ place' = place
              /\ data[wop[w]].type = "close" /\ data[wop[w]] \in DataType
          BY <1>1, <4>2, <5>1 DEF WorkerClose, TypeOK
        <5>3. data'[wop[w]].aop = a /\ data'[wop[w]].type = "close" /\ data'[wop[w]].ok
          BY <4>2, <5>2 DEF DataType
        <5> QED BY <5>1, <5>2, <5>3
      <4> QED BY <1>1, <1>2, <1>3, <2>1, <2>2, <3>2, <4>1, <4>2 DEF OwnersKept
    <3>3. ASSUME NEW d \in Outstanding(a), data[d].type = "close" /\ data[d].ok
          PROVE  \E e \in Ops : /\ place'[e] # "free" /\ data'[e].aop = a
                                /\ data'[e].type = "close" /\ data'[e].ok
      <4>1. d \in Ops /\ place[d] # "free" /\ data[d].aop = a /\ data[d] \in DataType
        BY <1>1, <3>3 DEF Outstanding, TypeOK
      <4>2. place'[d] # "free"
        <5> SUFFICES ASSUME place'[d] = "free" PROVE FALSE
          OBVIOUS
        <5>1. Key = a /\ (DriveClose \/ DriveCancelled)
          BY <3>3, <4>1, ReleaseSteps
        <5>2. CASE DriveClose
          BY <2>1, <2>6, <5>1, <5>2 DEF DriveClose
        <5>3. CASE DriveCancelled
          BY <2>1, <5>1, <5>3 DEF DriveCancelled
        <5> QED BY <5>1, <5>2, <5>3
      <4>3. Carried(d)
        BY <4>1, <4>2, OpSteps
      <4>4. data'[d].aop = a /\ data'[d].type = "close" /\ data'[d].ok
        BY <3>3, <4>1, <4>3 DEF Carried, DataType
      <4> QED BY <4>1, <4>2, <4>4
    <3> QED BY <2>2, <3>1, <3>2, <3>3
  <2> HIDE DEF a, fd
  <2> QED BY <1>3, <2>2, <2>5, <2>6 DEF FileDescriptor, Outstanding, a, fd
<1>4. CASE \E a \in Aops, fd \in Fds : FileOpenSync(f, a, fd)
  <2>1. PICK a \in Aops, fd \in Fds : FileOpenSync(f, a, fd)
    BY <1>4
  <2>2. /\ aopOf'[f] = a /\ handleOf'[f] = fd /\ fdOwner'[fd] = a
        /\ ao'[a] = NewBlock(f, fd, "free")
    BY <1>1, <1>2, <2>1 DEF FileOpenSync, Attach, TypeOK
  <2> QED BY <2>2 DEF FileDescriptor, NewBlock
<1>5. CASE DriveOpen /\ f = ao[Key].obj /\ data[Done].ok /\ ~uninitFlag
  <2> DEFINE fd == data[Done].handle
  <2>1. /\ Drives /\ Key # NULL /\ data[Done].type = "open" /\ "open" \in OpTypes
        /\ Delivers("open")
    BY <1>5 DEF DriveOpen, Delivers, OpTypes, FileTypes
  <2>2. /\ Done \in Ops /\ place[Done] = "ready" /\ Key \in Aops /\ aopOf[f] = Key
        /\ Counted \in [Aops -> BlockType]
    BY <1>5, <2>1, DriveFacts, DriveCounts, DeliversFacts
  <2>3. fd \in Fds
    BY <1>1, <1>5, <2>1, <2>2 DEF DescriptorInv, OpDescriptor, Live
  <2>4. /\ ao' = [Counted EXCEPT ![Key].handle = fd, ![Key].fileOpMutex = "free"]
        /\ handleOf' = [handleOf EXCEPT ![f] = fd]
        /\ fdOwner' = [fdOwner EXCEPT ![fd] = Key] /\ aopOf' = aopOf
    BY <1>5 DEF DriveOpen
  <2>5. ao'[Key].handle = fd /\ handleOf'[f] = fd /\ fdOwner'[fd] = Key /\ aopOf'[f] = Key
    BY <1>1, <1>2, <2>2, <2>3, <2>4 DEF TypeOK, BlockType
  <2> QED BY <2>3, <2>5 DEF FileDescriptor
<1> QED BY <1>2, <1>3, <1>4, <1>5, ObjSteps DEF ObjCarried

LEMMA QueuedStep ==
  ASSUME IInv, ClosedInTurn, [Next]_vars, NEW d \in Ops, place'[d] = "queued"
  PROVE  ~data'[d].ok
<1>1. TypeOK /\ DescriptorInv
  BY DEF IInv
<1>2. CASE place[d] # "free" /\ Carried(d)
  BY <1>1, <1>2 DEF Carried, DescriptorInv
<1>3. CASE place[d] = "free" /\ PostedNow(d)
  <2>1. CASE PostedOther(d)
    BY <2>1, PostedOtherData
  <2>2. CASE \E f \in Files : FileCloseAsync(f, d)
    BY <1>1, <2>2 DEF FileCloseAsync, PushWork, NewData, TypeOK
  <2> QED BY <1>3, <2>1, <2>2 DEF PostedNow, PostedOther
<1> QED BY <1>2, <1>3, OpSteps

LEMMA WorkingStep ==
  ASSUME IInv, ClosedInTurn, [Next]_vars, NEW w \in Workers, wpc'[w] = "io"
  PROVE  ~data'[wop'[w]].ok
<1>1. TypeOK /\ PlaceInv /\ DescriptorInv /\ ConstantsAssumption
  BY ConstantsAssumption DEF IInv
\* The operation a worker is on is changed by that worker alone.
<1>2. ASSUME UNCHANGED <<wpc, wop>>,
             \/ data' = data
             \/ \E e \in Ops : place[e] # "working" /\ \E b : data' = [data EXCEPT ![e] = b]
      PROVE  ~data'[wop'[w]].ok
  <2>1. wpc[w] = "io" /\ wop[w] \in Ops /\ place[wop[w]] = "working"
    BY <1>2, WorkFacts
  <2>2. data'[wop[w]] = data[wop[w]]
    BY <1>1, <1>2, <2>1 DEF TypeOK
  <2> QED BY <1>1, <1>2, <2>1, <2>2 DEF DescriptorInv
<1>3. CASE AppNext
  <2>1. UNCHANGED <<wpc, wop>>
    BY <1>3 DEF AppNext, FileOpenSync, SockOpen, FileOpenAsync, FileReadWrite, FileCloseAsync,
                FileCloseSync, FileDestroyUnopened, SockPost, SockClose, workerVars
  <2>2. \/ data' = data
        \/ \E e \in Ops : place[e] = "free" /\ \E b : data' = [data EXCEPT ![e] = b]
    BY ZenonT(60), <1>3 DEF AppNext, FileOpenSync, SockOpen, FileOpenAsync, FileReadWrite, FileCloseAsync,
                FileCloseSync, FileDestroyUnopened, SockPost, SockClose, PushWork
  <2> QED BY <1>2, <2>1, <2>2
<1>4. CASE EvNext
  <2>1. UNCHANGED <<wpc, wop>>
    BY <1>4 DEF EvNext, CallbackEvIo, CallbackEvAccept, workerVars
  <2>2. \/ data' = data
        \/ \E e \in Ops : place[e] = "pend" /\ \E b : data' = [data EXCEPT ![e] = b]
    BY <1>4 DEF EvNext, CallbackEvIo, CallbackEvAccept
  <2> QED BY <1>2, <2>1, <2>2
<1>5. CASE DriveNext
  <2>1. UNCHANGED <<wpc, wop>>
    BY <1>5 DEF DriveNext, DriveKeyless, DriveCancelled, DriveReadWrite, DriveOpen, DriveClose,
                DriveAccept, DriveDisconnect, FinishClose, workerVars
  <2>2. \/ data' = data
        \/ Drives /\ ReleaseData
    BY <1>5 DEF DriveNext, DriveKeyless, DriveCancelled, DriveReadWrite, DriveOpen, DriveClose,
                DriveAccept, DriveDisconnect, FinishClose, Delivers
  <2>3. CASE data' = data
    BY <1>2, <2>1, <2>3
  <2>4. CASE Drives /\ ReleaseData
    <3>1. Done \in Ops /\ place[Done] = "ready"
      BY <2>4, DriveFacts
    <3>2. data' = [data EXCEPT ![Done] = NoData]
      BY <2>4 DEF ReleaseData
    <3> QED BY <1>2, <2>1, <3>1, <3>2
  <2> QED BY <2>2, <2>3, <2>4
<1>6. CASE UninitNext \/ Terminated \/ UNCHANGED vars
  BY <1>2, <1>6 DEF UninitNext, UninitBegin, UninitJoin, UninitClosePort, Terminated, vars,
                    workerVars
<1>7. ASSUME NEW v \in Workers, WorkerNext(v) PROVE ~data'[wop'[w]].ok
  <2>1. CASE \E d \in Ops : WorkerTake(v, d)
    <3>1. PICK d \in Ops : WorkerTake(v, d)
      BY <2>1
    <3>2. place[d] = "queued"
      BY <1>1, <3>1 DEF WorkerTake, Scanned, IInv, ScanInv, PlaceInv, ConstantsAssumption
    <3>3. /\ data' = data /\ wop' = [wop EXCEPT ![v] = d]
          /\ wpc' = [wpc EXCEPT ![v] = "io"]
      BY <3>1 DEF WorkerTake, Goto
    <3>4. CASE v = w
      BY <1>1, <3>2, <3>3, <3>4 DEF TypeOK, DescriptorInv
    <3>5. CASE v # w
      BY <1>1, <3>3, <3>5 DEF TypeOK, DescriptorInv
    <3> QED BY <3>4, <3>5
  <2>2. CASE WorkerReadWrite(v) \/ WorkerClose(v) \/ \E fd \in Fds \cup {NULL} : WorkerOpen(v, fd)
    <3>1. /\ wpc[v] = "io" /\ wpc' = [wpc EXCEPT ![v] = "unlock"] /\ wop' = wop
          /\ \E b : data' = [data EXCEPT ![wop[v]] = b]
      BY <2>2 DEF WorkerReadWrite, WorkerClose, WorkerOpen, Goto
    <3>2. v # w /\ wpc[w] = "io"
      BY <1>1, <3>1 DEF TypeOK
    <3>3. wop[v] \in Ops /\ wop[w] \in Ops
      BY <3>1, <3>2, WorkFacts
    <3>4. wop[v] # wop[w]
      BY <1>1, <3>2, <3>3 DEF PlaceInv, ConstantsAssumption
    <3>5. data'[wop[w]] = data[wop[w]]
      BY <1>1, <3>1, <3>3, <3>4 DEF TypeOK
    <3> QED BY <1>1, <3>1, <3>2, <3>5 DEF DescriptorInv
  <2>3. CASE \/ WorkerWake(v) \/ WorkerLock(v) \/ WorkerQuit(v) \/ WorkerUnlock(v)
             \/ WorkerPost(v) \/ \E d \in Ops : WorkerSkip(v, d)
    <3>1. /\ data' = data
          /\ wop' = wop \/ wop' = [wop EXCEPT ![v] = NULL]
          /\ \/ wpc' = wpc
             \/ \E pc \in {"wait", "lock", "scan", "out", "post"} : wpc' = [wpc EXCEPT ![v] = pc]
          /\ wop' = wop \/ wpc' = [wpc EXCEPT ![v] = "lock"]
      BY <2>3 DEF WorkerWake, WorkerLock, WorkerQuit, WorkerUnlock, WorkerPost, WorkerSkip, Goto
    <3>2. wpc[w] = "io" /\ wop'[w] = wop[w]
      BY <1>1, <3>1 DEF TypeOK
    <3> QED BY <1>1, <3>1, <3>2 DEF DescriptorInv
  <2> QED BY <1>7, <2>1, <2>2, <2>3 DEF WorkerNext
<1> QED BY <1>3, <1>4, <1>5, <1>6, <1>7 DEF Next

LEMMA DescriptorStep ==
  ASSUME IInv, TypeOK', BlockInv', [Next]_vars PROVE DescriptorInv'
<1> SUFFICES ASSUME ClosedInTurn PROVE DescriptorInv'
  BY DEF DescriptorInv
<1>1. \A d \in Ops : place'[d] # "free" => OpDescriptor(d)'
  BY OpDescriptorStep
<1>2. \A f \in Files : isOpen'[f] => FileDescriptor(f)'
  BY FileDescriptorStep
<1>3. \A d \in Ops : place'[d] = "queued" => ~data'[d].ok
  BY QueuedStep
<1>4. \A w \in Workers : wpc'[w] = "io" => ~data'[wop'[w]].ok
  BY WorkingStep
<1> QED BY <1>1, <1>2, <1>3, <1>4 DEF DescriptorInv, Live

-----------------------------------------------------------------------------
(* The inductive invariant, and what it says.                              *)

LEMMA InitInv == Init => IInv
<1> SUFFICES ASSUME Init PROVE IInv
  OBVIOUS
<1>1. TypeOK
  <2>1. FreeBlock \in BlockType /\ NoData \in DataType
    BY BlockTypes DEF NoData, DataType, OpTypes, FileTypes
  <2>2. /\ aopOf \in [Objs -> Aops \cup {NULL}] /\ handleOf \in [Objs -> Fds \cup {NULL}]
        /\ isOpen \in [Files -> BOOLEAN] /\ ao \in [Aops -> BlockType]
        /\ data \in [Ops -> DataType] /\ place \in [Ops -> Places]
    BY <2>1 DEF Init, Places
  <2>3. /\ completeKey \in [Fds -> Aops \cup {NULL}]
        /\ fdOwner \in [Fds -> Aops \cup Ops \cup {NULL}]
        /\ wpc \in [Workers -> WorkerPCs] /\ wit \in [Workers -> Nat]
        /\ wop \in [Workers -> Ops \cup {NULL}]
    BY DEF Init, WorkerPCs
  <2>4. extraWorkList \in Seq(Ops \cup {QUIT}) /\ readyEvents \in Seq(EventType)
    BY DEF Init
  <2> QED BY <2>2, <2>3, <2>4 DEF Init, TypeOK
<1>2. ScanInv /\ PlaceInv
  BY ConstantsAssumption DEF Init, ScanInv, PlaceInv, InReady, ConstantsAssumption
<1>3. BlockInv /\ OpCountExact
  BY DEF Init, BlockInv, BlockOutlivesOps, OpCountExact, FreeBlock, Live, Objs
<1>4. MutexInv /\ KeyInv /\ DescriptorInv
  BY DEF Init, MutexInv, KeyInv, DescriptorInv, Live, Objs
<1> QED BY <1>1, <1>2, <1>3, <1>4 DEF IInv

LEMMA NextInv == ASSUME Careful, IInv, [Next]_vars PROVE IInv'
<1>1. TypeOK' /\ ScanInv'
  BY TypeStep, ScanStep DEF IInv
<1>2. BlockInv' /\ OpCountExact' /\ PlaceInv'
  BY BlockStep, PlaceStep
<1>3. MutexInv' /\ KeyInv' /\ DescriptorInv'
  BY <1>1, <1>2, MutexStep, KeyStep, DescriptorStep
<1> QED BY <1>1, <1>2, <1>3 DEF IInv

\* The inductive invariant holds in every behaviour of an engine whose
\* application is Careful, for any number of files, sockets, workers, operations
\* and descriptors: the steps of attach, the posts, the workers, libev,
\* driveEngine and uninit all keep it.
THEOREM InductiveInvariant == ASSUME Careful PROVE Spec => []IInv
<1>1. Init => IInv
  BY InitInv
<1>2. IInv /\ [Next]_vars => IInv'
  BY NextInv
<1> QED BY <1>1, <1>2, PTL DEF Spec

\* Every variable keeps its type; in particular no completion is ever pushed under
\* a key that is not a control block or null, and no iterator leaves the list.
THEOREM TypeCorrect == ASSUME Careful PROVE Spec => []TypeOK
<1>1. IInv => TypeOK
  BY DEF IInv
<1> QED BY <1>1, InductiveInvariant, PTL

\* opCount, which decides when detach and driveEngine delete a control block, is
\* always the number of operations outstanding on it.
THEOREM CounterIsExact == ASSUME Careful PROVE Spec => []OpCountExact
<1>1. IInv => OpCountExact
  BY DEF IInv
<1> QED BY <1>1, InductiveInvariant, PTL

\* Nobody follows data->aop of an operation that is out of the pool to a control
\* block that has been deleted.
THEOREM NoUseAfterFree == ASSUME Careful PROVE Spec => []BlockOutlivesOps
<1>1. IInv => BlockOutlivesOps
  BY DEF IInv, BlockInv
<1> QED BY <1>1, InductiveInvariant, PTL

LEMMA WorkersApart == IInv => OneWorkerPerHandle
<1> SUFFICES ASSUME IInv, NEW v \in Workers, NEW w \in Workers, v # w,
                    wpc[v] \in {"io", "unlock"}, wpc[w] \in {"io", "unlock"},
                    data[wop[v]].aop = data[wop[w]].aop
             PROVE  FALSE
  BY DEF OneWorkerPerHandle
<1>1. /\ wop[v] \in Ops /\ place[wop[v]] = "working"
      /\ wop[w] \in Ops /\ place[wop[w]] = "working"
  BY WorkFacts
<1>2. MutexOf(wop[v]) \in {v, "none"} /\ MutexOf(wop[w]) \in {w, "none"}
  BY DEF IInv, MutexInv
<1>3. MutexOf(wop[v]) = "none" /\ MutexOf(wop[w]) = "none"
  BY <1>2, ConstantsAssumption DEF MutexOf, ConstantsAssumption
<1>4. data[wop[v]].type = "open"
  BY <1>1, <1>3 DEF IInv, MutexInv, Live, BlockOf, MutexOf
<1>5. wop[v] = wop[w]
  BY <1>1, <1>4 DEF IInv, MutexInv, Live
<1> QED BY <1>1, <1>5, ConstantsAssumption DEF IInv, PlaceInv, ConstantsAssumption

\* Two workers are never on one handle at once, although an operation posted
\* before its file is open finds a control block that has no mutex yet.
THEOREM WorkersExclude == ASSUME Careful PROVE Spec => []OneWorkerPerHandle
BY WorkersApart, InductiveInvariant, PTL

\* The assertions of ExtraIOWorker::period and of uninit about the quit entry hold.
THEOREM QuitProtocol == ASSUME Careful PROVE Spec => []QuitIsLast
<1>1. IInv => QuitIsLast
  BY ConstantsAssumption DEF IInv, ScanInv, QuitIsLast, ConstantsAssumption
<1> QED BY <1>1, InductiveInvariant, PTL

\* driveEngine runs no callback of an object that has detached.
THEOREM DetachSilences == ASSUME Careful PROVE Spec => DetachedIsSilent
<1> DEFINE Silent == \A d \in Ops :
             LET a == data[d].aop
             IN place[d] = "ready" /\ place'[d] = "free" /\ ~ao[a].isCancel
                  => aopOf[ao[a].obj] = a
<1>1. IInv /\ [Next]_vars => [Silent]_vars
  BY DEF IInv, BlockInv, PostedBlock, Live
<1>2. Spec => [][Silent]_vars
  BY <1>1, InductiveInvariant, PTL DEF Spec
<1> QED BY <1>2 DEF DetachedIsSilent

(***************************************************************************)
(* That AsyncEngine implements AsyncIO, and what else a caller may rely on *)
(* who closes a file only when it is idle: completion keys, descriptors    *)
(* and a port that is empty in the end.                                    *)
(***************************************************************************)
(***************************************************************************)
(* A step as the sessions see it.                                          *)
(***************************************************************************)
SameBlock(a) ==
  IF ao[a].alloc
  THEN ao'[a].alloc /\ ao'[a].isCancel = ao[a].isCancel /\ ao'[a].obj = ao[a].obj
  ELSE ao'[a] = ao[a]

Stays == (\A a \in Aops : SameBlock(a)) /\ (aopOf' = aopOf \/ mode # "run")

Begins(a, o) ==
  /\ mode = "run" /\ ~ao[a].alloc /\ aopOf[o] = NULL
  /\ ao'[a].alloc /\ ~ao'[a].isCancel /\ ao'[a].obj = o
  /\ \A b \in Aops \ {a} : SameBlock(b)
  /\ aopOf' = [aopOf EXCEPT ![o] = a]

\* The block of an object that has given it up.
Goes(a) ==
  /\ IF Outstanding(a)' = {} THEN ao'[a] = FreeBlock
     ELSE ao'[a].alloc /\ ao'[a].isCancel /\ ao'[a].obj = ao[a].obj
  /\ \A b \in Aops \ {a} : SameBlock(b)

Attached(a) == a \in Aops /\ ao[a].alloc /\ ~ao[a].isCancel

Ends(a, o) == Attached(a) /\ aopOf[o] = a /\ Goes(a) /\ aopOf' = [aopOf EXCEPT ![o] = NULL]

Discards(a) == a \in Aops /\ ao[a].alloc /\ ao[a].isCancel /\ Goes(a) /\ aopOf' = aopOf

SessionStep ==
  \/ OpsKept /\ Stays
  \/ OpsKept /\ \E a \in Aops, o \in Objs : Begins(a, o) \/ Ends(a, o)
  \/ \E a \in Aops, d \in Ops, t \in OpTypes :
       OpsPosted(d, t, a) /\ ((Attached(a) /\ Stays) \/ \E o \in Objs : Begins(a, o))
  \/ \E d \in Ops :
       /\ OpsReleased(d)
       /\ \/ /\ Attached(data[d].aop)
             /\ Stays \/ \E a \in Aops, o \in Objs : Begins(a, o)
          \/ \E o \in Objs : Ends(data[d].aop, o)
          \/ Discards(data[d].aop)

\* With an exact counter, the block that is deleted is the one with nothing on it.
LEMMA GivenUp ==
  ASSUME BlockInv', OpCountExact', NEW a \in Aops, NEW b \in BlockType, b.alloc,
         ao'[a] = DetachedBlock(b) \/ (b.isCancel /\ ao'[a] = Spent(b))
  PROVE  IF Outstanding(a)' = {} THEN ao'[a] = FreeBlock
         ELSE ao'[a].alloc /\ ao'[a].isCancel /\ ao'[a].obj = b.obj
<1>1. CASE b.opCount = 0
  <2>1. ao'[a] = FreeBlock /\ ~ao'[a].alloc
    BY <1>1 DEF DetachedBlock, Spent, FreeBlock
  <2>2. Outstanding(a)' = {}
    BY <2>1 DEF BlockInv, BlockOutlivesOps, Outstanding
  <2> QED BY <2>1, <2>2
<1>2. CASE b.opCount # 0
  <2>1. /\ ao'[a].alloc /\ ao'[a].isCancel /\ ao'[a].obj = b.obj
        /\ ao'[a].opCount = b.opCount
    BY <1>2 DEF DetachedBlock, Spent, BlockType
  <2>2. Cardinality(Outstanding(a)') # 0
    BY <1>2, <2>1 DEF OpCountExact
  <2>3. Outstanding(a)' # {}
    BY <2>2, FS_EmptySet
  <2> QED BY <2>1, <2>3
<1> QED BY <1>1, <1>2

LEMMA QuietSessions ==
  ASSUME IInv, QuietNext PROVE OpsKept /\ Stays
<1>1. OpsKept /\ BlocksKept /\ UNCHANGED appVars
  BY QuietEffect
<1>2. TypeOK /\ BlockInv /\ ConstantsAssumption
  BY ConstantsAssumption DEF IInv
<1>3. ASSUME NEW a \in Aops, ~ao[a].alloc PROVE ao'[a] = ao[a]
  <2>1. CASE \E w \in Workers, d \in Ops : WorkerTake(w, d)
    <3>1. PICK w \in Workers, d \in Ops : WorkerTake(w, d)
      BY <2>1
    <3>2. place[d] = "queued"
      BY <1>2, <3>1 DEF WorkerTake, Scanned, IInv, ScanInv, PlaceInv, ConstantsAssumption
    <3>3. data[d].aop \in Aops /\ ao[data[d].aop].alloc
      BY <1>2, <3>2 DEF BlockInv, BlockOutlivesOps
    <3> QED BY <1>2, <1>3, <3>1, <3>3 DEF WorkerTake, TypeOK
  <2>2. CASE \E w \in Workers : WorkerUnlock(w)
    <3>1. PICK w \in Workers : WorkerUnlock(w)
      BY <2>2
    <3>2. data[wop[w]].aop \in Aops /\ ao[data[wop[w]].aop].alloc
      BY <3>1, WorkFacts DEF WorkerUnlock
    <3> QED BY <1>2, <1>3, <3>1, <3>2 DEF WorkerUnlock, TypeOK
  <2>3. CASE ao' = ao
    BY <2>3
  <2> QED
    BY <2>1, <2>2, <2>3
       DEF QuietNext, EvNext, CallbackEvIo, CallbackEvAccept, DriveKeyless, UninitNext,
           UninitBegin, UninitJoin, UninitClosePort, Terminated, vars, WorkerNext, WorkerWake,
           WorkerLock, WorkerQuit, WorkerSkip, WorkerReadWrite, WorkerClose, WorkerPost,
           WorkerOpen
<1> QED BY <1>1, <1>3 DEF Stays, SameBlock, BlocksKept, BlockKept, appVars

\* attach, by an open or a socket call.
LEMMA AttachSessions ==
  ASSUME IInv, NEW o \in Objs, NEW a \in Aops, NEW fd, NEW m, mode = "run",
         ~ao[a].alloc, aopOf[o] = NULL, ao' = [ao EXCEPT ![a] = NewBlock(o, fd, m)],
         aopOf' = [aopOf EXCEPT ![o] = a]
  PROVE  Begins(a, o)
BY DEF IInv, TypeOK, Begins, NewBlock, SameBlock

\* A post on an attached object.
LEMMA PostSessions ==
  ASSUME IInv, NEW a \in Aops, NEW o \in Objs, aopOf[o] = a, ao' = CountUp(ao, a),
         aopOf' = aopOf
  PROVE  Attached(a) /\ Stays
<1>1. ao \in [Aops -> BlockType] /\ a # NULL /\ ao[a].alloc /\ ~ao[a].isCancel
  BY ConstantsAssumption DEF IInv, TypeOK, BlockInv, AttachedBlock, ConstantsAssumption
<1>2. /\ ao'[a] = [ao[a] EXCEPT !.opCount = ao[a].opCount + 1]
      /\ \A b \in Aops \ {a} : ao'[b] = ao[b]
  BY <1>1 DEF CountUp
<1>3. \A b \in Aops : SameBlock(b)
  BY <1>1, <1>2 DEF SameBlock, BlockType
<1> QED BY <1>1, <1>3 DEF Attached, Stays

\* detach.
LEMMA DetachSessions ==
  ASSUME IInv, BlockInv', OpCountExact', NEW o \in Objs, aopOf[o] # NULL,
         Detach(aopOf[o], ao, readyEvents, place), data' = data,
         aopOf' = [aopOf EXCEPT ![o] = NULL]
  PROVE  OpsKept /\ \E a \in Aops : Ends(a, o)
<1>1. TypeOK /\ PlaceInv
  BY DEF IInv
<1>2. PICK a \in Aops : aopOf[o] = a
  BY <1>1 DEF TypeOK
<1>3. ao[a] \in BlockType /\ ao[a].alloc /\ ~ao[a].isCancel
  BY <1>1, <1>2 DEF IInv, BlockInv, AttachedBlock, TypeOK
<1>4. DetachOutcome(a, ao, readyEvents, place)
  BY <1>1, <1>2, DetachNow
<1>5. OpsKept
  BY <1>1, <1>4, DetachKeeps
<1>6. ao'[a] = DetachedBlock(ao[a]) /\ \A b \in Aops \ {a} : ao'[b] = ao[b]
  BY <1>1, <1>4 DEF DetachOutcome, TypeOK
<1>7. IF Outstanding(a)' = {} THEN ao'[a] = FreeBlock
      ELSE ao'[a].alloc /\ ao'[a].isCancel /\ ao'[a].obj = ao[a].obj
  BY <1>3, <1>6, GivenUp
<1> QED BY <1>2, <1>3, <1>5, <1>6, <1>7 DEF Ends, Attached, Goes, SameBlock

\* The object's own callback, which leaves the sessions as they are.
LEMMA CallbackSessions ==
  ASSUME IInv, DriveReadWrite \/ DriveClose \/ DriveOpen
  PROVE  OpsReleased(Done) /\ Attached(data[Done].aop) /\ Stays
<1>1. PICK t \in OpTypes : Delivers(t)
  BY DEF DriveReadWrite, DriveClose, DriveOpen, Delivers, OpTypes, FileTypes, SockTypes
<1>2. place' = Released /\ ReleaseData
  BY DEF DriveReadWrite, DriveClose, DriveOpen
<1>3. Delivered(t, ao[Key].obj) /\ Counted \in [Aops -> BlockType]
  BY <1>1, <1>2, DeliveredOp, DriveCounts DEF Delivers
<1>4. /\ \A b \in Aops : b # Key => Counted[b] = ao[b]
      /\ Counted[Key].alloc /\ Counted[Key].obj = ao[Key].obj
      /\ Counted[Key].isCancel = ao[Key].isCancel
      /\ Key \in Aops /\ Key = data[Done].aop /\ ao[Key].alloc /\ ~ao[Key].isCancel
  BY <1>3 DEF Delivered
<1>5. /\ \A b \in Aops : b # Key => ao'[b] = Counted[b]
      /\ ao'[Key].alloc = Counted[Key].alloc /\ ao'[Key].isCancel = Counted[Key].isCancel
      /\ ao'[Key].obj = Counted[Key].obj
  <2>1. \/ ao' = Counted
        \/ ao' = [Counted EXCEPT ![Key].handle = data[Done].handle, ![Key].fileOpMutex = "free"]
    BY DEF DriveReadWrite, DriveClose, DriveOpen
  <2>2. ASSUME NEW a \in Aops, a = Key
        PROVE  /\ \A b \in Aops : b # a => ao'[b] = Counted[b]
               /\ ao'[a].alloc = Counted[a].alloc /\ ao'[a].isCancel = Counted[a].isCancel
               /\ ao'[a].obj = Counted[a].obj
    <3>1. Counted \in [Aops -> BlockType]
      BY <1>3
    <3> QED BY <2>1, <2>2, <3>1 DEF BlockType
  <2> QED BY <1>4, <2>2
<1>6. \A a \in Aops : SameBlock(a)
  BY <1>4, <1>5 DEF SameBlock
<1>7. aopOf' = aopOf \/ mode # "run"
  BY DEF DriveReadWrite, DriveClose, DriveOpen, appVars, uninitFlag
<1> QED BY <1>3, <1>4, <1>6, <1>7 DEF Delivered, Attached, Stays

LEMMA AcceptSessions ==
  ASSUME IInv, DriveAccept
  PROVE  /\ OpsReleased(Done) /\ Attached(data[Done].aop)
         /\ Stays \/ \E a \in Aops, o \in Objs : Begins(a, o)
<1>1. "accept" \in OpTypes /\ Delivers("accept") /\ place' = Released /\ ReleaseData
  BY DEF DriveAccept, OpTypes, SockTypes
<1>2. Delivered("accept", ao[Key].obj) /\ Counted \in [Aops -> BlockType]
  BY <1>1, DeliveredOp, DriveCounts DEF Delivers
<1>3. /\ \A b \in Aops : b # Key => Counted[b] = ao[b]
      /\ Counted[Key].alloc /\ Counted[Key].obj = ao[Key].obj
      /\ Counted[Key].isCancel = ao[Key].isCancel
      /\ Key \in Aops /\ Key = data[Done].aop /\ ao[Key].alloc /\ ~ao[Key].isCancel
  BY <1>2 DEF Delivered
<1>4. CASE \E s \in Socks, n \in Aops :
             /\ ~uninitFlag /\ aopOf[s] = NULL /\ ~ao[n].alloc
             /\ ao' = [Counted EXCEPT ![n] = NewBlock(s, data[Done].user, "free")]
             /\ aopOf' = [aopOf EXCEPT ![s] = n]
  <2>1. PICK s \in Socks, n \in Aops :
             /\ ~uninitFlag /\ aopOf[s] = NULL /\ ~ao[n].alloc
             /\ ao' = [Counted EXCEPT ![n] = NewBlock(s, data[Done].user, "free")]
             /\ aopOf' = [aopOf EXCEPT ![s] = n]
    BY <1>4
  <2>2. \A b \in Aops \ {n} : ao'[b] = Counted[b]
    BY <1>2, <2>1
  <2>3. ao'[n].alloc /\ ~ao'[n].isCancel /\ ao'[n].obj = s
    BY <1>2, <2>1 DEF NewBlock
  <2>4. \A b \in Aops \ {n} : SameBlock(b)
    BY <1>3, <2>2 DEF SameBlock
  <2>5. Begins(n, s) /\ s \in Objs
    BY <2>1, <2>3, <2>4 DEF Begins, uninitFlag, Objs
  <2> QED BY <1>2, <1>3, <2>5 DEF Delivered, Attached
<1>5. CASE ao' = Counted /\ aopOf' = aopOf
  BY <1>2, <1>3, <1>5 DEF SameBlock, Stays, Delivered, Attached
<1> QED BY <1>4, <1>5 DEF DriveAccept

LEMMA DisconnectSessions ==
  ASSUME IInv, BlockInv', OpCountExact', DriveDisconnect
  PROVE  OpsReleased(Done) /\ \E o \in Objs : Ends(data[Done].aop, o)
<1>1. Delivers("disc") /\ Drives /\ Key # NULL /\ "disc" \in OpTypes
  BY DEF DriveDisconnect, Delivers, OpTypes, SockTypes
<1>2. /\ Key \in Aops /\ Key = data[Done].aop /\ ao[Key].alloc /\ ~ao[Key].isCancel
      /\ Counted \in [Aops -> BlockType]
      /\ Counted = [ao EXCEPT ![Key] = [ao[Key] EXCEPT !.opCount = ao[Key].opCount - 1]]
  BY <1>1, DriveCounts DEF Delivers
<1>3. ao[Key].obj \in Objs /\ aopOf[ao[Key].obj] = Key
  BY <1>1, DeliversFacts
<1>4. DetachOutcome(Key, Counted, Tail(readyEvents), Released) /\ ReleaseData
  BY DisconnectEffect DEF DriveDisconnect
<1>5. OpsReleased(Done)
  BY <1>1, <1>4, DriveReleases
<1>6. ao \in [Aops -> BlockType] /\ ao[Key] \in BlockType
  BY <1>2 DEF IInv, TypeOK
<1>7. ASSUME NEW a \in Aops, a = Key PROVE Goes(a)
  <2>1. Counted[a] \in BlockType /\ Counted[a].alloc /\ Counted[a].obj = ao[a].obj
    BY <1>2, <1>6, <1>7 DEF BlockType
  <2>2. ao'[a] = DetachedBlock(Counted[a]) /\ \A b \in Aops \ {a} : ao'[b] = ao[b]
    BY <1>2, <1>4, <1>6, <1>7 DEF DetachOutcome
  <2>3. IF Outstanding(a)' = {} THEN ao'[a] = FreeBlock
        ELSE ao'[a].alloc /\ ao'[a].isCancel /\ ao'[a].obj = ao[a].obj
    BY <2>1, <2>2, GivenUp
  <2> QED BY <2>2, <2>3 DEF Goes, SameBlock
<1>8. aopOf' = [aopOf EXCEPT ![ao[Key].obj] = NULL]
  BY DEF DriveDisconnect
<1>9. ASSUME NEW a \in Aops, a = Key, NEW o \in Objs, o = ao[Key].obj PROVE Ends(a, o)
  BY <1>2, <1>3, <1>7, <1>8, <1>9 DEF Ends, Attached
<1> QED BY <1>2, <1>3, <1>5, <1>9

LEMMA CancelledSessions ==
  ASSUME IInv, BlockInv', OpCountExact', DriveCancelled
  PROVE  OpsReleased(Done) /\ Discards(data[Done].aop)
<1>1. /\ Drives /\ Key # NULL /\ ReleaseData /\ place' = Released /\ ao[Key].isCancel
      /\ ao' = [Counted EXCEPT ![Key] = Spent(Counted[Key])] /\ aopOf' = aopOf
  BY DEF DriveCancelled, appVars
<1>2. /\ Key \in Aops /\ Key = data[Done].aop /\ ao[Key].alloc
      /\ Counted \in [Aops -> BlockType]
      /\ Counted = [ao EXCEPT ![Key] = [ao[Key] EXCEPT !.opCount = ao[Key].opCount - 1]]
  BY <1>1, DriveCounts
<1>3. OpsReleased(Done)
  BY <1>1, DriveReleases
<1>4. ao \in [Aops -> BlockType] /\ ao[Key] \in BlockType
  BY <1>2 DEF IInv, TypeOK
<1>5. ASSUME NEW a \in Aops, a = Key PROVE Goes(a)
  <2>1. /\ Counted[a] \in BlockType /\ Counted[a].alloc /\ Counted[a].isCancel
        /\ Counted[a].obj = ao[a].obj
    BY <1>1, <1>2, <1>4, <1>5 DEF BlockType
  <2>2. ao'[a] = Spent(Counted[a]) /\ \A b \in Aops \ {a} : ao'[b] = ao[b]
    BY <1>1, <1>2, <1>4, <1>5
  <2>3. IF Outstanding(a)' = {} THEN ao'[a] = FreeBlock
        ELSE ao'[a].alloc /\ ao'[a].isCancel /\ ao'[a].obj = ao[a].obj
    BY <2>1, <2>2, GivenUp
  <2> QED BY <2>2, <2>3 DEF Goes, SameBlock
<1> QED BY <1>1, <1>2, <1>3, <1>5 DEF Discards

\* Every step of the engine is one of these.
LEMMA SessionSteps ==
  ASSUME IInv, [Next]_vars PROVE SessionStep
<1>1. TypeOK /\ BlockInv /\ BlockInv' /\ OpCountExact'
  BY BlockStep DEF IInv
<1>2. CASE QuietNext
  BY <1>2, QuietSessions DEF SessionStep
<1>3. ASSUME NEW f \in Files, NEW a \in Aops, NEW fd \in Fds, FileOpenSync(f, a, fd)
      PROVE  SessionStep
  <2>1. f \in Objs /\ OpsKept
    BY <1>3 DEF Objs, FileOpenSync, OpsKept, OpKept
  <2>2. Begins(a, f)
    BY <1>3, <2>1, AttachSessions DEF FileOpenSync, Attach
  <2> QED BY <2>1, <2>2 DEF SessionStep
<1>4. ASSUME NEW s \in Socks, NEW a \in Aops, NEW fd \in Fds, SockOpen(s, a, fd)
      PROVE  SessionStep
  <2>1. s \in Objs /\ OpsKept
    BY <1>4 DEF Objs, SockOpen, OpsKept, OpKept
  <2>2. Begins(a, s)
    BY <1>4, <2>1, AttachSessions DEF SockOpen, Attach
  <2> QED BY <2>1, <2>2 DEF SessionStep
<1>5. ASSUME NEW f \in Files, NEW a \in Aops, NEW d \in Ops, FileOpenAsync(f, a, d)
      PROVE  SessionStep
  <2>1. f \in Objs /\ "open" \in OpTypes
    BY DEF Objs, OpTypes, FileTypes
  <2>2. OpsPosted(d, "open", a)
    BY <1>1, <1>5, PushWorkPosts DEF FileOpenAsync
  <2>3. /\ \A b \in Aops \ {a} : ao'[b] = ao[b]
        /\ ao'[a].alloc /\ ao'[a].obj = f /\ ~ao'[a].isCancel
    BY <1>1, <1>5 DEF FileOpenAsync, PushWork, CountUp, NewBlock, TypeOK
  <2>4. Begins(a, f)
    BY <1>5, <2>3 DEF FileOpenAsync, Begins, SameBlock
  <2> QED BY <2>1, <2>2, <2>4 DEF SessionStep
<1>6. ASSUME NEW f \in Files, NEW d \in Ops, FileReadWrite(f, d) \/ FileCloseAsync(f, d)
      PROVE  SessionStep
  <2>1. PICK t \in {"rw", "close"} : PushWork(d, t, aopOf[f], handleOf[f], ao)
    BY <1>6 DEF FileReadWrite, FileCloseAsync
  <2>2. f \in Objs /\ aopOf[f] \in Aops /\ t \in OpTypes /\ aopOf' = aopOf
    BY <1>1, <1>6, <2>1
       DEF FileReadWrite, FileCloseAsync, Objs, BlockInv, TypeOK, OpTypes, FileTypes, appVars
  <2>3. OpsPosted(d, t, aopOf[f]) /\ ao' = CountUp(ao, aopOf[f])
    BY <1>1, <2>1, PushWorkPosts DEF PushWork
  <2>4. Attached(aopOf[f]) /\ Stays
    BY <2>2, <2>3, PostSessions
  <2> QED BY <2>2, <2>3, <2>4 DEF SessionStep
<1>7. ASSUME NEW s \in Socks, NEW t \in SockTypes, NEW d \in Ops, SockPost(s, t, d)
      PROVE  SessionStep
  <2>1. s \in Objs /\ aopOf[s] \in Aops /\ t \in OpTypes /\ aopOf' = aopOf
    BY <1>1, <1>7 DEF SockPost, Objs, TypeOK, OpTypes, SockTypes, appVars
  <2>2. OpsPosted(d, t, aopOf[s]) /\ ao' = CountUp(ao, aopOf[s])
    BY <1>1, <1>7 DEF SockPost, OpsPosted, OpKept, NewData, TypeOK
  <2>3. Attached(aopOf[s]) /\ Stays
    BY <2>1, <2>2, PostSessions
  <2> QED BY <2>1, <2>2, <2>3 DEF SessionStep
<1>8. ASSUME NEW o \in Objs, aopOf[o] # NULL, Detach(aopOf[o], ao, readyEvents, place),
             data' = data, aopOf' = [aopOf EXCEPT ![o] = NULL]
      PROVE  SessionStep
  BY <1>1, <1>8, DetachSessions DEF SessionStep
<1>9. CASE \/ \E f \in Files : FileCloseSync(f) \/ FileDestroyUnopened(f)
           \/ \E s \in Socks : SockClose(s)
  BY <1>1, <1>8, <1>9 DEF FileCloseSync, FileDestroyUnopened, SockClose, BlockInv, Objs
<1>10. CASE FinishClose
  BY <1>1, <1>8, <1>10 DEF FinishClose, BlockInv, TypeOK, Objs
<1>11. CASE DriveReadWrite \/ DriveClose \/ DriveOpen \/ DriveAccept \/ DriveDisconnect
               \/ DriveCancelled
  <2>1. Done \in Ops
    BY <1>11, DriveFacts DEF DriveReadWrite, DriveClose, DriveOpen, DriveAccept,
                             DriveDisconnect, DriveCancelled, Delivers
  <2> QED BY <1>1, <1>11, <2>1, CallbackSessions, AcceptSessions, DisconnectSessions,
             CancelledSessions DEF SessionStep
<1> QED
  BY <1>2, <1>3, <1>4, <1>5, <1>6, <1>7, <1>9, <1>10, <1>11
     DEF Next, AppNext, DriveNext, QuietNext

-----------------------------------------------------------------------------
(* SessionInv, and the refinement.                                         *)

\* uninit is not undone.
LEMMA RunsOn == ASSUME [Next]_vars, mode' = "run" PROVE mode = "run"
BY DEF Next, AppNext, FileOpenSync, FileOpenAsync, FileReadWrite, FileCloseAsync, FileCloseSync,
       FileDestroyUnopened, SockOpen, SockPost, SockClose, EvNext, CallbackEvIo,
       CallbackEvAccept, DriveNext, DriveKeyless, DriveCancelled, DriveReadWrite, DriveOpen,
       DriveClose, FinishClose, DriveDisconnect, DriveAccept, CallbackRan, UninitNext,
       UninitBegin, UninitJoin, UninitClosePort, Terminated, WorkerNext, WorkerWake, WorkerLock,
       WorkerQuit, WorkerTake, WorkerSkip, WorkerReadWrite, WorkerClose, WorkerUnlock,
       WorkerPost, WorkerOpen, mainVars, vars

LEMMA SessionInvStep ==
  ASSUME IInv, SessionInv, [Next]_vars PROVE SessionInv'
<1>1. TypeOK /\ BlockInv /\ ConstantsAssumption /\ SessionStep
  BY ConstantsAssumption, SessionSteps DEF IInv
<1>2. PICK a : \/ Stays \/ Discards(a)
               \/ \E o \in Objs : (a \in Aops /\ Begins(a, o)) \/ Ends(a, o)
  BY <1>1 DEF SessionStep
<1>3. \A b \in Aops : b # a \/ Stays => SameBlock(b)
  BY <1>2 DEF Stays, Discards, Begins, Ends, Goes
<1>4. ASSUME NEW b \in Aops, SameBlock(b)
      PROVE  IF ao'[b].alloc THEN ao'[b].obj # NULL ELSE ao'[b] = FreeBlock
  BY <1>4 DEF SessionInv, SameBlock
<1>5. ASSUME a \in Aops, ~Stays
      PROVE  IF ao'[a].alloc THEN ao'[a].obj # NULL ELSE ao'[a] = FreeBlock
  <2>1. CASE \E o \in Objs : Begins(a, o)
    BY <1>1, <2>1 DEF Begins, ConstantsAssumption, Objs
  <2>2. CASE Goes(a) /\ ao[a].alloc
    BY <1>5, <2>2 DEF Goes, SessionInv, FreeBlock
  <2> QED BY <1>2, <1>5, <2>1, <2>2 DEF Ends, Discards, Attached
<1>6. \A b \in Aops : IF ao'[b].alloc THEN ao'[b].obj # NULL ELSE ao'[b] = FreeBlock
  BY <1>3, <1>4, <1>5
<1>7. ASSUME mode' = "run", NEW b \in Aops, ao'[b].alloc, ~ao'[b].isCancel
      PROVE  aopOf'[ao'[b].obj] = b
  <2>1. mode = "run" /\ b # NULL
    BY <1>1, <1>7, RunsOn DEF ConstantsAssumption
  <2>2. ASSUME SameBlock(b)
        PROVE  aopOf[ao[b].obj] = b /\ ao'[b].obj = ao[b].obj /\ ao[b].obj \in Objs
    <3>1. ao[b].alloc /\ ~ao[b].isCancel /\ ao'[b].obj = ao[b].obj /\ ao[b].obj # NULL
      BY <1>7, <2>2 DEF SameBlock, SessionInv
    <3>2. ao[b].obj \in Objs
      BY <1>1, <3>1 DEF TypeOK, BlockType
    <3> QED BY <2>1, <3>1, <3>2 DEF SessionInv
  <2>3. CASE Stays
    BY <1>3, <2>1, <2>2, <2>3 DEF Stays
  <2>4. CASE Discards(a)
    <3>1. b # a
      BY <1>7, <2>4 DEF Discards, Goes, FreeBlock
    <3> QED BY <1>3, <2>2, <2>4, <3>1 DEF Discards
  <2>5. ASSUME NEW o \in Objs, a \in Aops, Begins(a, o) PROVE aopOf'[ao'[b].obj] = b
    <3>1. aopOf' = [aopOf EXCEPT ![o] = a] /\ ao'[a].obj = o /\ aopOf[o] = NULL
      BY <2>5 DEF Begins
    <3> QED BY <1>1, <1>3, <2>1, <2>2, <3>1 DEF TypeOK
  <2>6. ASSUME NEW o \in Objs, Ends(a, o) PROVE aopOf'[ao'[b].obj] = b
    <3>1. aopOf' = [aopOf EXCEPT ![o] = NULL] /\ aopOf[o] = a /\ b # a
      BY <1>7, <2>6 DEF Ends, Goes, FreeBlock
    <3> QED BY <1>1, <1>3, <2>2, <3>1 DEF TypeOK
  <2> QED BY <1>2, <2>3, <2>4, <2>5, <2>6
<1> QED BY <1>6, <1>7 DEF SessionInv

\* What the mapping makes of each kind of step.
LEMMA PostedOnKept == ASSUME OpsKept PROVE postedOn' = postedOn
BY DEF OpsKept, OpKept, postedOn

LEMMA PostedOnMore ==
  ASSUME NEW d \in Ops, NEW t, NEW a \in Aops, OpsPosted(d, t, a)
  PROVE  postedOn[d] = NULL /\ postedOn' = [postedOn EXCEPT ![d] = a]
BY DEF OpsPosted, OpKept, postedOn

LEMMA PostedOnLess ==
  ASSUME IInv, NEW d \in Ops, OpsReleased(d)
  PROVE  /\ postedOn[d] = data[d].aop /\ data[d].aop # NULL /\ data[d].aop \in Aops
         /\ postedOn' = [postedOn EXCEPT ![d] = NULL]
<1>1. postedOn' = [postedOn EXCEPT ![d] = NULL]
  BY DEF OpsReleased, OpKept, postedOn
<1>2. data[d].aop \in Aops
  BY DEF OpsReleased, IInv, BlockInv, BlockOutlivesOps
<1>3. data[d].aop # NULL
  BY <1>2, ConstantsAssumption DEF ConstantsAssumption
<1>4. postedOn[d] = data[d].aop
  BY DEF OpsReleased, postedOn
<1> QED BY <1>1, <1>2, <1>3, <1>4

LEMMA StaysMaps == ASSUME Stays PROVE sessionOf' = sessionOf /\ holderOf' = holderOf
<1>1. \A a \in Aops : SameBlock(a)
  BY DEF Stays
<1>2. \A a \in Aops : sessionOf'[a] = sessionOf[a] /\ ao'[a].obj = ao[a].obj
  BY <1>1 DEF SameBlock, sessionOf
<1> QED BY <1>2 DEF sessionOf, holderOf

LEMMA BeginsMaps ==
  ASSUME IInv, SessionInv, NEW a \in Aops, NEW o \in Objs, Begins(a, o)
  PROVE  AsyncIOView!AbsAttachTo(a, o)
<1>1. TypeOK /\ ConstantsAssumption
  BY ConstantsAssumption DEF IInv
<1>2. sessionOf[a] = "none"
  BY DEF Begins, sessionOf
<1>3. ASSUME NEW t \in Aops, sessionOf[t] = "attached" PROVE holderOf[t] # o
  <2>1. ao[t].alloc /\ ~ao[t].isCancel /\ mode = "run"
    BY <1>3 DEF sessionOf, Begins
  <2>2. aopOf[ao[t].obj] = t /\ t # NULL
    BY <1>1, <2>1 DEF SessionInv, ConstantsAssumption
  <2> QED BY <2>2 DEF Begins, holderOf
<1>4. \A b \in Aops \ {a} : sessionOf'[b] = sessionOf[b] /\ ao'[b].obj = ao[b].obj
  BY DEF Begins, SameBlock, sessionOf
<1>5. sessionOf'[a] = "attached" /\ ao'[a].obj = o
  BY DEF Begins, sessionOf
<1>6. sessionOf' = [sessionOf EXCEPT ![a] = "attached"]
  BY <1>4, <1>5 DEF sessionOf
<1>7. holderOf' = [holderOf EXCEPT ![a] = o]
  BY <1>4, <1>5 DEF holderOf
<1> QED BY <1>2, <1>3, <1>6, <1>7 DEF AsyncIOView!AbsAttachTo

LEMMA GoesMaps ==
  ASSUME IInv, NULL \notin Aops, NEW a \in Aops, ao[a].alloc, Goes(a)
  PROVE  AsyncIOView!AbsRelease(a, postedOn')
<1>1. Outstanding(a)' # {} <=> \E d \in Ops : postedOn'[d] = a
  BY DEF Outstanding, postedOn
<1>2. \A b \in Aops \ {a} : sessionOf'[b] = sessionOf[b] /\ ao'[b].obj = ao[b].obj
  BY DEF Goes, SameBlock, sessionOf
<1>3. CASE Outstanding(a)' = {}
  <2>1. sessionOf'[a] = "none" /\ ao'[a].obj = NULL
    BY <1>3 DEF Goes, FreeBlock, sessionOf
  <2>2. sessionOf' = [sessionOf EXCEPT ![a] = "none"]
    BY <1>2, <2>1 DEF sessionOf
  <2>3. holderOf' = [holderOf EXCEPT ![a] = NULL]
    BY <1>2, <2>1 DEF holderOf
  <2> QED BY <1>1, <1>3, <2>2, <2>3 DEF AsyncIOView!AbsRelease, AsyncIOView!Busy
<1>4. CASE Outstanding(a)' # {}
  <2>1. sessionOf'[a] = "detached" /\ ao'[a].obj = ao[a].obj
    BY <1>4 DEF Goes, sessionOf
  <2>2. sessionOf' = [sessionOf EXCEPT ![a] = "detached"]
    BY <1>2, <2>1 DEF sessionOf
  <2>3. holderOf' = [holderOf EXCEPT ![a] = holderOf[a]]
    BY <1>2, <2>1 DEF holderOf
  <2> QED BY <1>1, <1>4, <2>2, <2>3 DEF AsyncIOView!AbsRelease, AsyncIOView!Busy
<1> QED BY <1>3, <1>4

\* Every step of the engine is a step of AsyncIO, or changes nothing of it.
LEMMA StepMaps ==
  ASSUME IInv, SessionInv, [Next]_vars
  PROVE  AsyncIOView!AbsNext \/ UNCHANGED <<sessionOf, holderOf, postedOn>>
<1>1. SessionStep /\ NULL \notin Aops
  BY SessionSteps, ConstantsAssumption DEF ConstantsAssumption
<1>2. ASSUME NEW a \in Aops, Attached(a) PROVE sessionOf[a] = "attached" /\ ao[a].alloc
  BY <1>2 DEF Attached, sessionOf
<1>3. CASE OpsKept /\ Stays
  BY <1>3, PostedOnKept, StaysMaps
<1>4. ASSUME NEW a \in Aops, NEW o \in Objs, OpsKept, Begins(a, o) PROVE AsyncIOView!AbsNext
  <2>1. AsyncIOView!AbsAttach(a, o)
    BY <1>4, BeginsMaps, PostedOnKept DEF AsyncIOView!AbsAttach
  <2> QED BY <2>1 DEF AsyncIOView!AbsNext
<1>5. ASSUME NEW a \in Aops, NEW o \in Objs, OpsKept, Ends(a, o) PROVE AsyncIOView!AbsNext
  <2>1. AsyncIOView!AbsRelease(a, postedOn) /\ postedOn' = postedOn
    BY <1>1, <1>2, <1>5, GoesMaps, PostedOnKept DEF Ends
  <2>2. AsyncIOView!AbsDetach(a)
    BY <1>2, <1>5, <2>1 DEF Ends, AsyncIOView!AbsDetach
  <2> QED BY <2>2 DEF AsyncIOView!AbsNext
<1>6. ASSUME NEW a \in Aops, NEW d \in Ops, NEW t \in OpTypes, OpsPosted(d, t, a),
             \/ Attached(a) /\ Stays
             \/ \E o \in Objs : Begins(a, o)
      PROVE  AsyncIOView!AbsNext
  <2>1. postedOn[d] = NULL /\ postedOn' = [postedOn EXCEPT ![d] = a]
    BY <1>6, PostedOnMore
  <2>2. CASE Attached(a) /\ Stays
    <3>1. AsyncIOView!AbsPost(a, d)
      BY <1>2, <2>1, <2>2, StaysMaps DEF AsyncIOView!AbsPost
    <3> QED BY <3>1 DEF AsyncIOView!AbsNext
  <2>3. ASSUME NEW o \in Objs, Begins(a, o) PROVE AsyncIOView!AbsNext
    <3>1. AsyncIOView!AbsAttachAndPost(a, o, d)
      BY <2>1, <2>3, BeginsMaps DEF AsyncIOView!AbsAttachAndPost
    <3> QED BY <3>1 DEF AsyncIOView!AbsNext
  <2> QED BY <1>6, <2>2, <2>3
<1>7. ASSUME NEW d \in Ops, OpsReleased(d),
             \/ /\ Attached(data[d].aop)
                /\ Stays \/ \E a \in Aops, o \in Objs : Begins(a, o)
             \/ \E o \in Objs : Ends(data[d].aop, o)
             \/ Discards(data[d].aop)
      PROVE  AsyncIOView!AbsNext
  <2> DEFINE k == data[d].aop
  <2>1. /\ k \in Aops /\ postedOn[d] = k /\ k # NULL
        /\ postedOn' = AsyncIOView!Without(d)
    BY <1>7, PostedOnLess DEF AsyncIOView!Without
  <2> HIDE DEF k
  <2>2. CASE Attached(k) /\ (Stays \/ \E a \in Aops, o \in Objs : Begins(a, o))
    <3>1. \/ UNCHANGED <<sessionOf, holderOf>>
          \/ \E a \in Aops, o \in Objs : AsyncIOView!AbsAttachTo(a, o)
      BY <2>2, StaysMaps, BeginsMaps
    <3>2. AsyncIOView!AbsCallback(d)
      BY <1>2, <2>1, <2>2, <3>1 DEF AsyncIOView!AbsCallback
    <3> QED BY <3>2 DEF AsyncIOView!AbsNext
  <2>3. CASE \E o \in Objs : Ends(k, o)
    <3>1. sessionOf[k] = "attached" /\ AsyncIOView!AbsRelease(k, postedOn')
      BY <1>1, <1>2, <2>1, <2>3, GoesMaps DEF Ends
    <3>2. AsyncIOView!AbsCallbackDetach(d)
      BY <2>1, <3>1 DEF AsyncIOView!AbsCallbackDetach
    <3> QED BY <3>2 DEF AsyncIOView!AbsNext
  <2>4. CASE Discards(k)
    <3>1. sessionOf[k] = "detached" /\ AsyncIOView!AbsRelease(k, postedOn')
      BY <1>1, <2>1, <2>4, GoesMaps DEF Discards, sessionOf
    <3>2. AsyncIOView!AbsDiscard(d)
      BY <2>1, <3>1 DEF AsyncIOView!AbsDiscard
    <3> QED BY <3>2 DEF AsyncIOView!AbsNext
  <2> QED BY <1>7, <2>2, <2>3, <2>4 DEF k
<1> QED BY <1>1, <1>3, <1>4, <1>5, <1>6, <1>7 DEF SessionStep

LEMMA InitMaps == Init => SessionInv /\ AsyncIOView!AbsInit
BY DEF Init, SessionInv, FreeBlock, AsyncIOView!AbsInit, sessionOf, holderOf, postedOn

\* The engine implements the contract of its callers: one callback for each
\* operation of an object that stays attached, none once it has detached, and the
\* control block deleted exactly when it is detached and has no operation left,
\* although attach, detach and driveEngine only keep a counter and a flag.
THEOREM Refinement == ASSUME Careful PROVE Spec => ImplementsAsyncIO
<1>1. Spec => []SessionInv
  <2>1. Init => SessionInv
    BY InitMaps
  <2>2. IInv /\ SessionInv /\ [Next]_vars => SessionInv'
    BY SessionInvStep
  <2> QED BY <2>1, <2>2, InductiveInvariant, PTL DEF Spec
<1>2. Init => AsyncIOView!AbsInit
  BY InitMaps
<1>3. IInv /\ SessionInv /\ [Next]_vars => [AsyncIOView!AbsNext]_(AsyncIOView!absVars)
  BY StepMaps DEF AsyncIOView!absVars
<1>4. Spec => AsyncIOView!AbsSpec
  BY <1>1, <1>2, <1>3, InductiveInvariant, PTL DEF Spec, AsyncIOView!AbsSpec
<1> QED BY <1>4 DEF ImplementsAsyncIO

-----------------------------------------------------------------------------
(* FoundInv.                                                               *)

ReadyFound(events, places) ==
  \A d \in Ops : places[d] = "ready" => \E i \in DOMAIN events : events[i].op = d

LEMMA ReadyFoundStep ==
  ASSUME IInv, ReadyFound(readyEvents, place), [Next]_vars
  PROVE  ReadyFound(readyEvents', place')
<1>1. TypeOK /\ PlaceInv /\ BlockInv /\ ConstantsAssumption
  BY ConstantsAssumption DEF IInv
<1>2. ASSUME readyEvents' = readyEvents,
             \A d \in Ops : place'[d] = "ready" => place[d] = "ready"
      PROVE  ReadyFound(readyEvents', place')
  BY <1>2 DEF ReadyFound
<1>3. ASSUME NEW d \in Ops, NEW ck, PushComplete(d, ck), place' = [place EXCEPT ![d] = "ready"]
      PROVE  ReadyFound(readyEvents', place')
  <2> DEFINE e == Event(d, ck)
  <2>1. readyEvents' = Append(readyEvents, e) /\ e.op = d /\ readyEvents \in Seq(EventType)
    BY <1>1, <1>3 DEF PushComplete, Event, TypeOK
  <2> HIDE DEF e
  <2>2. /\ \A i \in DOMAIN readyEvents :
             i \in DOMAIN readyEvents' /\ readyEvents'[i] = readyEvents[i]
        /\ Len(readyEvents) + 1 \in DOMAIN readyEvents'
        /\ readyEvents'[Len(readyEvents) + 1] = e
    BY <2>1
  <2>3. \A c \in Ops : c # d => place'[c] = place[c]
    BY <1>1, <1>3 DEF TypeOK
  <2> QED BY <2>1, <2>2, <2>3 DEF ReadyFound
<1>4. ASSUME NEW a, NEW blocks, NEW ready, NEW places, ReadyFound(ready, places),
             DetachOutcome(a, blocks, ready, places), DetachFinds(a, blocks, ready)
      PROVE  ReadyFound(readyEvents', place')
  BY <1>4 DEF DetachOutcome, DetachFinds, ReadyFound
<1>5. ASSUME NEW a \in Aops, Detach(a, ao, readyEvents, place)
      PROVE  ReadyFound(readyEvents', place')
  BY <1>1, <1>4, <1>5, DetachNow
<1>6. CASE AppNext
  <2>1. CASE \/ \E f \in Files : FileCloseSync(f) \/ FileDestroyUnopened(f)
             \/ \E s \in Socks : SockClose(s)
    BY <1>1, <1>5, <2>1
       DEF FileCloseSync, FileDestroyUnopened, SockClose, BlockInv, TypeOK, Objs
  <2>2. CASE \/ \E f \in Files, a \in Aops, d \in Ops : FileOpenAsync(f, a, d)
             \/ \E f \in Files, d \in Ops : FileReadWrite(f, d) \/ FileCloseAsync(f, d)
             \/ \E s \in Socks, t \in SockTypes, d \in Ops : SockPost(s, t, d)
    <3>1. /\ readyEvents' = readyEvents
          /\ \E d \in Ops, p \in {"queued", "pend"} : place' = [place EXCEPT ![d] = p]
      BY <2>2 DEF FileOpenAsync, FileReadWrite, FileCloseAsync, SockPost, PushWork
    <3> QED BY <1>1, <1>2, <3>1 DEF TypeOK
  <2> QED BY <1>2, <1>6, <2>1, <2>2 DEF AppNext, FileOpenSync, SockOpen
<1>7. CASE EvNext
  BY <1>3, <1>7 DEF EvNext, CallbackEvIo, CallbackEvAccept
<1>8. ASSUME NEW w \in Workers, WorkerNext(w) PROVE ReadyFound(readyEvents', place')
  <2>1. CASE WorkerQuit(w)
    BY <2>1, QuitEffect DEF QuitFinds, ReadyFound
  <2>2. CASE WorkerPost(w)
    <3>1. wop[w] \in Ops
      BY <2>2, WorkFacts DEF WorkerPost
    <3> QED BY <1>3, <2>2, <3>1 DEF WorkerPost
  <2>3. CASE \E d \in Ops : WorkerTake(w, d)
    BY <1>1, <1>2, <2>3 DEF WorkerTake, TypeOK
  <2> QED
    BY <1>2, <1>8, <2>1, <2>2, <2>3
       DEF WorkerNext, WorkerWake, WorkerLock, WorkerSkip, WorkerReadWrite, WorkerOpen,
           WorkerClose, WorkerUnlock
<1>9. CASE DriveNext
  <2>1. ASSUME Drives, NEW p \in Places
        PROVE  ReadyFound(Tail(readyEvents), [place EXCEPT ![Done] = p]) \/ p = "ready"
    <3>1. /\ readyEvents \in Seq(EventType) /\ readyEvents # <<>> /\ Done = readyEvents[1].op
          /\ Len(readyEvents) \in Nat
      BY <1>1, <2>1 DEF TypeOK, Drives, Done
    <3>2. \A i \in DOMAIN readyEvents : i # 1 =>
            i - 1 \in DOMAIN Tail(readyEvents) /\ Tail(readyEvents)[i - 1] = readyEvents[i]
      BY <3>1
    <3>3. ASSUME NEW d \in Ops, p # "ready", [place EXCEPT ![Done] = p][d] = "ready"
          PROVE  \E i \in DOMAIN Tail(readyEvents) : Tail(readyEvents)[i].op = d
      <4>1. d # Done /\ place[d] = "ready"
        BY <1>1, <3>3 DEF TypeOK
      <4>2. PICK i \in DOMAIN readyEvents : readyEvents[i].op = d
        BY <4>1 DEF ReadyFound
      <4> QED BY <3>1, <3>2, <4>1, <4>2
    <3> QED BY <3>3 DEF ReadyFound
  <2>2. CASE DriveKeyless
    BY <2>1, <2>2 DEF DriveKeyless, Places
  <2>3. CASE DriveCancelled \/ DriveReadWrite \/ DriveOpen \/ DriveClose \/ DriveAccept
    <3>1. Drives /\ readyEvents' = Tail(readyEvents) /\ place' = Released
      BY <2>3 DEF DriveCancelled, DriveReadWrite, DriveOpen, DriveClose, DriveAccept, Delivers
    <3> QED BY <2>1, <3>1 DEF Released, Places
  <2>4. CASE FinishClose
    <3>1. aopOf[closing] \in Aops /\ Detach(aopOf[closing], ao, readyEvents, place)
      BY <1>1, <2>4 DEF FinishClose, BlockInv, TypeOK, Objs
    <3> QED BY <1>5, <3>1
  <2>5. CASE DriveDisconnect
    <3>1. ReadyFound(Tail(readyEvents), Released)
      BY <2>1, <2>5 DEF DriveDisconnect, Delivers, Released, Places
    <3> QED BY <1>4, <2>5, <3>1, DisconnectEffect
  <2> QED BY <1>9, <2>2, <2>3, <2>4, <2>5 DEF DriveNext
<1>10. CASE UninitNext \/ Terminated \/ UNCHANGED vars
  BY <1>2, <1>10 DEF UninitNext, UninitBegin, UninitJoin, UninitClosePort, Terminated, vars
<1> QED BY <1>6, <1>7, <1>8, <1>9, <1>10 DEF Next

\* How an operation block moves.
LEMMA PlaceSteps ==
  ASSUME IInv, [Next]_vars, NEW d \in Ops, place'[d] # place[d],
         place'[d] \notin {"free", "ready"}
  PROVE  \/ PostedNow(d) /\ place'[d] \in {"queued", "pend"}
         \/ \E w \in Workers : WorkerTake(w, d)
         \/ DriveKeyless
<1>1. TypeOK /\ PlaceInv /\ BlockInv /\ ConstantsAssumption
  BY ConstantsAssumption DEF IInv
<1>2. ASSUME NEW a \in Aops, Detach(a, ao, readyEvents, place) PROVE FALSE
  BY <1>1, <1>2, DetachNow DEF DetachOutcome
<1>3. ASSUME NEW e, NEW p, place' = [place EXCEPT ![e] = p] PROVE d = e /\ place'[d] = p
  BY <1>1, <1>3 DEF TypeOK
<1>4. CASE AppNext
  <2>1. CASE \/ \E f \in Files : FileCloseSync(f) \/ FileDestroyUnopened(f)
             \/ \E s \in Socks : SockClose(s)
    BY <1>1, <1>2, <2>1
       DEF FileCloseSync, FileDestroyUnopened, SockClose, BlockInv, TypeOK, Objs
  <2>2. CASE \E f \in Files, a \in Aops, e \in Ops : FileOpenAsync(f, a, e)
    <3>1. PICK f \in Files, a \in Aops, e \in Ops : FileOpenAsync(f, a, e)
      BY <2>2
    <3>2. place' = [place EXCEPT ![e] = "queued"]
      BY <3>1 DEF FileOpenAsync, PushWork
    <3> QED BY <1>3, <3>1, <3>2 DEF PostedNow
  <2>3. CASE \E f \in Files, e \in Ops : FileReadWrite(f, e) \/ FileCloseAsync(f, e)
    <3>1. PICK f \in Files, e \in Ops : FileReadWrite(f, e) \/ FileCloseAsync(f, e)
      BY <2>3
    <3>2. place' = [place EXCEPT ![e] = "queued"]
      BY <3>1 DEF FileReadWrite, FileCloseAsync, PushWork
    <3> QED BY <1>3, <3>1, <3>2 DEF PostedNow
  <2>4. CASE \E s \in Socks, t \in SockTypes, e \in Ops : SockPost(s, t, e)
    <3>1. PICK s \in Socks, t \in SockTypes, e \in Ops : SockPost(s, t, e)
      BY <2>4
    <3>2. place' = [place EXCEPT ![e] = "pend"]
      BY <3>1 DEF SockPost
    <3> QED BY <1>3, <3>1, <3>2 DEF PostedNow
  <2> QED BY <1>4, <2>1, <2>2, <2>3, <2>4 DEF AppNext, FileOpenSync, SockOpen
<1>5. CASE EvNext
  <2>1. PICK e \in Ops : place' = [place EXCEPT ![e] = "ready"]
    BY <1>5 DEF EvNext, CallbackEvIo, CallbackEvAccept
  <2> QED BY <1>3, <2>1
<1>6. ASSUME NEW w \in Workers, WorkerNext(w) PROVE WorkerTake(w, d)
  <2>1. CASE WorkerQuit(w)
    BY <2>1, QuitEffect DEF QuitOutcome
  <2>2. CASE \E e \in Ops : WorkerTake(w, e)
    <3>1. PICK e \in Ops : WorkerTake(w, e)
      BY <2>2
    <3> QED BY <1>3, <3>1 DEF WorkerTake
  <2> QED
    BY <1>3, <1>6, <2>1, <2>2
       DEF WorkerNext, WorkerWake, WorkerLock, WorkerSkip, WorkerReadWrite, WorkerOpen,
           WorkerClose, WorkerUnlock, WorkerPost
<1>7. CASE DriveNext
  <2>1. CASE FinishClose
    BY <1>1, <1>2, <2>1 DEF FinishClose, BlockInv, TypeOK, Objs
  <2>2. CASE DriveDisconnect
    <3>1. \A e \in Ops : Released[e] \in {place[e], "free"}
      BY <1>1, <2>2 DEF Released, TypeOK
    <3> QED BY <2>2, <3>1, DisconnectEffect DEF DetachOutcome
  <2> QED
    BY <1>3, <1>7, <2>1, <2>2
       DEF DriveNext, DriveCancelled, DriveReadWrite, DriveOpen, DriveClose, DriveAccept,
           Released
<1>8. CASE UninitNext \/ Terminated \/ UNCHANGED vars
  BY <1>8 DEF UninitNext, UninitBegin, UninitJoin, UninitClosePort, Terminated, vars
<1> QED BY <1>4, <1>5, <1>6, <1>7, <1>8 DEF Next

\* How the list changes.
LEMMA ListSteps ==
  ASSUME [Next]_vars
  PROVE  \/ extraWorkList' = extraWorkList
         \/ \E x \in Ops \cup {QUIT} : extraWorkList' = Append(extraWorkList, x)
         \/ \E w \in Workers, d \in Ops : WorkerTake(w, d)
         \/ \E w \in Workers : WorkerQuit(w)
         \/ UninitJoin
BY DEF Next, AppNext, FileOpenSync, FileOpenAsync, FileReadWrite, FileCloseAsync, FileCloseSync,
       FileDestroyUnopened, SockOpen, SockPost, SockClose, PushWork, EvNext, CallbackEvIo,
       CallbackEvAccept, DriveNext, DriveKeyless, DriveCancelled, DriveReadWrite, DriveOpen,
       DriveClose, FinishClose, DriveDisconnect, DriveAccept, UninitNext, UninitBegin,
       UninitClosePort, Terminated, WorkerNext, WorkerWake, WorkerLock, WorkerSkip,
       WorkerReadWrite, WorkerClose, WorkerUnlock, WorkerPost, WorkerOpen, listVars, vars

LEMMA QueuedFoundStep ==
  ASSUME IInv, FoundInv, [Next]_vars, NEW d \in Ops, place'[d] = "queued"
  PROVE  \E i \in DOMAIN extraWorkList' : extraWorkList'[i] = d
<1>1. TypeOK /\ PlaceInv /\ ScanInv /\ extraWorkList \in Seq(Ops \cup {QUIT})
  BY DEF IInv, TypeOK
<1>2. CASE PostedNow(d)
  <2>1. extraWorkList' = Append(extraWorkList, d) \/ place' = [place EXCEPT ![d] = "pend"]
    BY <1>2 DEF PostedNow, FileOpenAsync, FileReadWrite, FileCloseAsync, PushWork, SockPost
  <2>2. extraWorkList' = Append(extraWorkList, d)
    BY <1>1, <2>1 DEF TypeOK
  <2>3. Len(extraWorkList) + 1 \in DOMAIN extraWorkList'
        /\ extraWorkList'[Len(extraWorkList) + 1] = d
    BY <1>1, <2>2
  <2> QED BY <2>3
<1>3. CASE place[d] = "queued"
  <2>1. PICK i \in 1..Len(extraWorkList) : extraWorkList[i] = d
    BY <1>1, <1>3 DEF FoundInv
  <2>2. ASSUME NEW x \in Ops \cup {QUIT}, extraWorkList' = Append(extraWorkList, x)
        PROVE  i \in DOMAIN extraWorkList' /\ extraWorkList'[i] = d
    BY <1>1, <2>1, <2>2
  <2>3. ASSUME NEW w \in Workers, NEW e \in Ops, WorkerTake(w, e)
        PROVE  \E j \in DOMAIN extraWorkList' : extraWorkList'[j] = d
    <3>1. /\ wit[w] \in 1..Len(extraWorkList) /\ extraWorkList[wit[w]] = e
          /\ extraWorkList' = RemoveAt(extraWorkList, wit[w])
          /\ place' = [place EXCEPT ![e] = "working"]
      BY <1>1, <2>3 DEF WorkerTake, Scanned, ScanInv
    <3>2. e # d
      BY <1>1, <3>1 DEF TypeOK
    <3>3. i # wit[w]
      BY <2>1, <3>1, <3>2
    <3>4. /\ Len(extraWorkList') = Len(extraWorkList) - 1
          /\ extraWorkList' \in Seq(Ops \cup {QUIT})
          /\ \A j \in 1..Len(extraWorkList) - 1 :
               extraWorkList'[j] = IF j < wit[w] THEN extraWorkList[j] ELSE extraWorkList[j + 1]
      BY <1>1, <3>1, RemoveAtFacts
    <3>5. DOMAIN extraWorkList' = 1..Len(extraWorkList) - 1
      BY <3>4
    <3>6. CASE i < wit[w]
      <4>1. i \in 1..Len(extraWorkList) - 1
        BY <2>1, <3>1, <3>6
      <4> QED BY <2>1, <3>4, <3>5, <3>6, <4>1
    <3>7. CASE ~(i < wit[w])
      <4>1. i - 1 \in 1..Len(extraWorkList) - 1 /\ ~(i - 1 < wit[w]) /\ (i - 1) + 1 = i
        BY <2>1, <3>1, <3>3, <3>7
      <4> QED BY <2>1, <3>4, <3>5, <4>1
    <3> QED BY <3>6, <3>7
  <2>4. ASSUME NEW w \in Workers, WorkerQuit(w) PROVE FALSE
    <3>1. extraWorkList[i] # QUIT
      BY <2>1, ConstantsAssumption DEF ConstantsAssumption
    <3> QED BY <1>1, <2>1, <2>4, <3>1, QuitEffect DEF QuitFinds
  <2>5. CASE UninitJoin
    <3>1. Workers # {} /\ d # QUIT
      BY ConstantsAssumption DEF ConstantsAssumption
    <3>2. mode = "join" /\ Len(extraWorkList) = 1 /\ Last(extraWorkList) = QUIT
      BY <1>1, <2>5, <3>1 DEF UninitJoin, ScanInv
    <3> QED BY <1>1, <2>1, <3>1, <3>2 DEF Last
  <2> QED BY <1>1, <2>1, <2>2, <2>3, <2>4, <2>5, ListSteps
<1>4. CASE place[d] # "queued" /\ ~PostedNow(d)
  <2>1. \/ \E w \in Workers : WorkerTake(w, d)
        \/ DriveKeyless
    BY <1>4, PlaceSteps
  <2>2. ~DriveKeyless
    BY <1>1, <1>4 DEF DriveKeyless, TypeOK
  <2>3. ~\E w \in Workers : WorkerTake(w, d)
    BY <1>1 DEF WorkerTake, TypeOK
  <2> QED BY <2>1, <2>2, <2>3
<1> QED BY <1>2, <1>3, <1>4

LEMMA WorkingFoundStep ==
  ASSUME IInv, FoundInv, [Next]_vars, NEW d \in Ops, place'[d] = "working"
  PROVE  \E w \in Workers : wop'[w] = d
<1>1. TypeOK /\ PlaceInv
  BY DEF IInv
<1>2. CASE \E w \in Workers : WorkerTake(w, d)
  BY <1>1, <1>2 DEF WorkerTake, TypeOK
<1>3. CASE place[d] = "working"
  <2>1. PICK w \in Workers : wop[w] = d
    BY <1>3 DEF FoundInv
  <2>2. d # NULL
    BY ConstantsAssumption DEF ConstantsAssumption
  <2>3. ASSUME NEW v \in Workers, NEW e \in Ops, WorkerTake(v, e) PROVE wop'[w] = d
    <3>1. v # w /\ wop' = [wop EXCEPT ![v] = e]
      BY <1>1, <2>1, <2>2, <2>3 DEF WorkerTake, PlaceInv
    <3> QED BY <1>1, <2>1, <3>1 DEF TypeOK
  <2>4. ASSUME NEW v \in Workers, WorkerPost(v) PROVE wop'[w] = d
    <3>1. place' = [place EXCEPT ![wop[v]] = "ready"] /\ wop' = [wop EXCEPT ![v] = NULL]
      BY <2>4 DEF WorkerPost
    <3>2. v # w
      BY <1>1, <2>1, <3>1 DEF TypeOK
    <3> QED BY <1>1, <2>1, <3>1, <3>2 DEF TypeOK
  <2>5. \/ wop' = wop
        \/ \E v \in Workers, e \in Ops : WorkerTake(v, e)
        \/ \E v \in Workers : WorkerPost(v)
    BY DEF Next, AppNext, FileOpenSync, FileOpenAsync, FileReadWrite, FileCloseAsync,
           FileCloseSync, FileDestroyUnopened, SockOpen, SockPost, SockClose, EvNext,
           CallbackEvIo, CallbackEvAccept, DriveNext, DriveKeyless, DriveCancelled,
           DriveReadWrite, DriveOpen, DriveClose, FinishClose, DriveDisconnect, DriveAccept,
           UninitNext, UninitBegin, UninitJoin, UninitClosePort, Terminated, WorkerNext,
           WorkerWake, WorkerLock, WorkerQuit, WorkerSkip, WorkerReadWrite, WorkerClose,
           WorkerUnlock, WorkerOpen, workerVars, vars
  <2> QED BY <2>1, <2>3, <2>4, <2>5
<1>4. CASE place[d] # "working"
  <2>1. ~DriveKeyless
    BY <1>1, <1>4 DEF DriveKeyless, TypeOK
  <2> QED BY <1>2, <1>4, <2>1, PlaceSteps
<1> QED BY <1>3, <1>4

\* The phases of uninit follow each other.
LEMMA ModeSteps ==
  ASSUME [Next]_vars
  PROVE  \/ mode' = mode
         \/ UninitBegin \/ UninitJoin \/ UninitClosePort
BY DEF Next, AppNext, FileOpenSync, FileOpenAsync, FileReadWrite, FileCloseAsync, FileCloseSync,
       FileDestroyUnopened, SockOpen, SockPost, SockClose, EvNext, CallbackEvIo,
       CallbackEvAccept, DriveNext, DriveKeyless, DriveCancelled, DriveReadWrite, DriveOpen,
       DriveClose, FinishClose, DriveDisconnect, DriveAccept, CallbackRan, UninitNext,
       Terminated, WorkerNext, WorkerWake, WorkerLock, WorkerQuit, WorkerTake, WorkerSkip,
       WorkerReadWrite, WorkerClose, WorkerUnlock, WorkerPost, WorkerOpen, mainVars, vars

\* Once uninit has begun no socket comes back.
LEMMA SocketsGone ==
  ASSUME IInv, FoundInv, [Next]_vars, mode' # "run", NEW s \in Socks
  PROVE  aopOf'[s] = NULL
<1>1. s \in Objs /\ s \notin Files
  BY ConstantsAssumption DEF Objs, ConstantsAssumption
<1>2. CASE mode = "run"
  <2>1. UninitBegin
    BY <1>2, ModeSteps DEF UninitJoin, UninitClosePort
  <2> QED BY <2>1 DEF UninitBegin, ReadyToUninit, appVars
<1>3. CASE mode # "run"
  <2>1. aopOf[s] = NULL
    BY <1>3 DEF FoundInv
  <2>2. ~(DriveAccept /\ aopOf'[s] # aopOf[s])
    BY <1>3 DEF DriveAccept, uninitFlag
  <2>3. \A a \in Aops, fd \in Fds : ~SockOpen(s, a, fd)
    BY <1>3 DEF SockOpen
  <2>4. ObjCarried(s)
    BY <1>1, ObjSteps
  <2> QED BY <1>1, <2>1, <2>2, <2>3, <2>4 DEF ObjCarried
<1> QED BY <1>2, <1>3

\* Nothing is posted to the workers once they have left, and they stay away.
LEMMA WorkersGone ==
  ASSUME IInv, FoundInv, [Next]_vars, mode' \in {"drain", "closed"}
  PROVE  extraWorkList' = <<>> /\ \A w \in Workers : wpc'[w] = "out"
<1>1. CASE UninitJoin
  BY <1>1 DEF UninitJoin, workerVars
<1>2. CASE mode \in {"drain", "closed"}
  <2>1. extraWorkList = <<>> /\ \A w \in Workers : wpc[w] = "out"
    BY <1>2 DEF FoundInv
  <2>2. \A w \in Workers : ~WorkerNext(w)
    BY <2>1 DEF WorkerNext, WorkerWake, WorkerLock, WorkerQuit, WorkerTake, WorkerSkip,
                WorkerReadWrite, WorkerClose, WorkerUnlock, WorkerPost, WorkerOpen
  <2>3. UNCHANGED <<extraWorkList, wpc>>
    BY <1>2, <2>2
       DEF Next, AppNext, FileOpenSync, FileOpenAsync, FileReadWrite, FileCloseAsync,
           FileCloseSync, FileDestroyUnopened, SockOpen, SockPost, SockClose, EvNext,
           CallbackEvIo, CallbackEvAccept, DriveNext, DriveKeyless, DriveCancelled,
           DriveReadWrite, DriveOpen, DriveClose, FinishClose, DriveDisconnect, DriveAccept,
           UninitNext, UninitBegin, UninitJoin, UninitClosePort, Terminated, listVars,
           workerVars, vars
  <2> QED BY <2>1, <2>3
<1> QED BY <1>1, <1>2, ModeSteps DEF UninitBegin, UninitClosePort

\* With the sockets gone a detach finds nothing in the port, so nothing becomes
\* ready any more once the last drive has emptied the queue.
LEMMA PortGone ==
  ASSUME IInv, FoundInv, [Next]_vars, mode' = "closed" PROVE readyEvents' = <<>>
<1>1. TypeOK /\ PlaceInv /\ BlockInv
  BY DEF IInv
<1>2. CASE UninitClosePort
  BY <1>2 DEF UninitClosePort, Drained
<1>3. CASE mode = "closed"
  <2>1. /\ readyEvents = <<>> /\ \A s \in Socks : aopOf[s] = NULL
        /\ \A w \in Workers : wpc[w] = "out"
    BY <1>3 DEF FoundInv
  <2>2. \A d \in Ops : place[d] # "pend"
    <3> SUFFICES ASSUME NEW d \in Ops, place[d] = "pend" PROVE FALSE
      OBVIOUS
    <3>1. PICK s \in Socks : data[d].aop \in Aops /\ aopOf[s] = data[d].aop
      BY PendFacts
    <3> QED BY <2>1, <3>1, ConstantsAssumption DEF ConstantsAssumption
  <2>3. ASSUME NEW a \in Aops, Detach(a, ao, readyEvents, place) PROVE readyEvents' = <<>>
    <3>1. DetachOutcome(a, ao, readyEvents, place)
      BY <1>1, <2>3, DetachNow
    <3>2. \A i \in DOMAIN readyEvents' : i \in DOMAIN readyEvents
      BY <2>2, <3>1 DEF DetachOutcome, Dropped
    <3>3. readyEvents' \in Seq(EventType)
      BY <3>1 DEF DetachOutcome
    <3>4. DOMAIN readyEvents = {}
      BY <2>1
    <3> QED BY <3>2, <3>3, <3>4
  <2>4. CASE \/ \E f \in Files : FileCloseSync(f) \/ FileDestroyUnopened(f)
             \/ \E s \in Socks : SockClose(s)
    BY <1>1, <2>3, <2>4
       DEF FileCloseSync, FileDestroyUnopened, SockClose, BlockInv, TypeOK, Objs
  <2>5. CASE FinishClose
    BY <1>1, <2>3, <2>5 DEF FinishClose, BlockInv, TypeOK, Objs
  <2>6. CASE readyEvents' = readyEvents
    BY <2>1, <2>6
  <2>7. ~EvDrives
    BY <1>3 DEF EvDrives
  <2>8. \A w \in Workers : ~WorkerNext(w)
    BY <2>1 DEF WorkerNext, WorkerWake, WorkerLock, WorkerQuit, WorkerTake, WorkerSkip,
                WorkerReadWrite, WorkerClose, WorkerUnlock, WorkerPost, WorkerOpen
  <2> QED
    BY <1>3, <2>4, <2>5, <2>6, <2>7, <2>8
       DEF Next, AppNext, FileOpenSync, FileOpenAsync, FileReadWrite, FileCloseAsync,
           SockOpen, SockPost, EvNext, CallbackEvIo, CallbackEvAccept, DriveNext, DriveKeyless,
           DriveCancelled, DriveReadWrite, DriveOpen, DriveClose, DriveDisconnect, DriveAccept,
           Delivers, Drives, UninitNext, UninitBegin, UninitJoin, UninitClosePort, Terminated,
           vars
<1> QED BY <1>2, <1>3, ModeSteps DEF UninitBegin, UninitJoin

LEMMA FoundInvStep == ASSUME IInv, FoundInv, [Next]_vars PROVE FoundInv'
<1>1. ReadyFound(readyEvents', place')
  BY ReadyFoundStep DEF FoundInv, ReadyFound
<1>2. \A d \in Ops : place'[d] = "queued" =>
        \E i \in DOMAIN extraWorkList' : extraWorkList'[i] = d
  BY QueuedFoundStep
<1>3. \A d \in Ops : place'[d] = "working" => \E w \in Workers : wop'[w] = d
  BY WorkingFoundStep
<1>4. mode' # "run" => \A s \in Socks : aopOf'[s] = NULL
  BY SocketsGone
<1>5. mode' \in {"drain", "closed"} =>
        extraWorkList' = <<>> /\ \A w \in Workers : wpc'[w] = "out"
  BY WorkersGone
<1>6. mode' = "closed" => readyEvents' = <<>>
  BY PortGone
<1> QED BY <1>1, <1>2, <1>3, <1>4, <1>5, <1>6 DEF FoundInv, ReadyFound

-----------------------------------------------------------------------------
(* KeptInv.                                                                *)

LEMMA NoCloses ==
  ASSUME IInv, ~AllowAsyncClose, NEW d \in Ops, place[d] # "free" PROVE data[d].type # "close"
BY DEF IInv, DescriptorInv, ClosedInTurn, OpDescriptor, Live

\* What an object that holds a descriptor holds.
LEMMA HolderFacts ==
  ASSUME IInv, KeptInv, ~AllowAsyncClose, NEW o \in Objs, Holds(o)
  PROVE  /\ aopOf[o] \in Aops /\ ao[aopOf[o]].alloc /\ ~ao[aopOf[o]].isCancel
         /\ ao[aopOf[o]].obj = o
         /\ handleOf[o] \in Fds /\ handleOf[o] = ao[aopOf[o]].handle
         /\ fdOwner[handleOf[o]] = aopOf[o]
<1>1. TypeOK /\ BlockInv /\ closing = NULL /\ ConstantsAssumption
  BY ConstantsAssumption DEF IInv, KeptInv
<1>2. /\ aopOf[o] \in Aops /\ ao[aopOf[o]].alloc /\ ~ao[aopOf[o]].isCancel
      /\ ao[aopOf[o]].obj = o
  BY <1>1 DEF Holds, TypeOK, BlockInv, AttachedBlock
<1>3. CASE o \in Socks
  <2>1. SocketRight(o)
    BY <1>3 DEF IInv, KeyInv, Holds
  <2> QED BY <1>2, <2>1 DEF SocketRight
<1>4. CASE o \in Files
  <2>1. FileDescriptor(o) /\ closing # o
    BY <1>1, <1>4 DEF IInv, DescriptorInv, ClosedInTurn, Holds, ConstantsAssumption, Objs
  <2>2. \A d \in Outstanding(aopOf[o]) : data[d].type # "close"
    BY NoCloses DEF Outstanding
  <2> QED BY <1>2, <2>1, <2>2 DEF FileDescriptor
<1> QED BY <1>3, <1>4 DEF Objs

SameHolder(o) ==
  /\ Holds(o)' <=> Holds(o)
  /\ Holds(o) => aopOf'[o] = aopOf[o] /\ handleOf'[o] = handleOf[o]

\* A step leaves the holders and the keys alone, gives a descriptor that no object
\* has to one that holds none, or takes one away, always with its key.
Gains(o, fd) ==
  /\ ~Holds(o) /\ fdOwner[fd] \notin Aops
  /\ Holds(o)' /\ handleOf'[o] = fd
  /\ completeKey' = [completeKey EXCEPT ![fd] = aopOf'[o]]
  /\ \A x \in Objs \ {o} : SameHolder(x)

Loses(o) ==
  /\ Holds(o) /\ ~Holds(o)'
  /\ completeKey' = [completeKey EXCEPT ![handleOf[o]] = NULL]
  /\ \A x \in Objs \ {o} : SameHolder(x)

KeyMove ==
  \/ completeKey' = completeKey /\ \A o \in Objs : SameHolder(o)
  \/ \E o \in Objs, fd \in Fds : Gains(o, fd)
  \/ \E o \in Objs : Loses(o)

\* attach on an object that has a descriptor.
LEMMA AttachGains ==
  ASSUME IInv, NEW o \in Objs, NEW a \in Aops, NEW fd \in Fds, ~Holds(o),
         fdOwner[fd] \notin Aops, SetKey(fd, a),
         aopOf' = [aopOf EXCEPT ![o] = a],
         handleOf' = [handleOf EXCEPT ![o] = fd],
         isOpen' = isOpen \/ isOpen' = [isOpen EXCEPT ![o] = TRUE],
         o \in Files => isOpen'[o]
  PROVE  Gains(o, fd)
<1>1. TypeOK /\ a # NULL
  BY ConstantsAssumption DEF IInv, ConstantsAssumption
<1>2. aopOf'[o] = a /\ handleOf'[o] = fd /\ Holds(o)'
  BY <1>1 DEF TypeOK, Holds
<1>3. \A x \in Objs \ {o} : SameHolder(x)
  BY <1>1 DEF TypeOK, SameHolder, Holds
<1> QED BY <1>2, <1>3 DEF Gains, SetKey

\* detach of an object that holds one.
LEMMA DetachLoses ==
  ASSUME IInv, KeptInv, ~AllowAsyncClose, NEW o \in Objs, Holds(o),
         NEW blocks, blocks[aopOf[o]].handle = ao[aopOf[o]].handle,
         NEW ready, DetachFinds(aopOf[o], blocks, ready),
         aopOf' = [aopOf EXCEPT ![o] = NULL],
         handleOf' = handleOf \/ handleOf' = [handleOf EXCEPT ![o] = NULL],
         isOpen' = isOpen \/ isOpen' = [isOpen EXCEPT ![o] = FALSE]
  PROVE  Loses(o)
<1>1. TypeOK
  BY DEF IInv
<1>2. handleOf[o] \in Fds /\ handleOf[o] = ao[aopOf[o]].handle
  BY HolderFacts
<1>3. completeKey' = [completeKey EXCEPT ![handleOf[o]] = NULL]
  BY <1>1, <1>2 DEF DetachFinds, TypeOK
<1>4. ~Holds(o)'
  BY <1>1 DEF TypeOK, Holds
<1>5. \A x \in Objs \ {o} : SameHolder(x)
  BY <1>1 DEF TypeOK, SameHolder, Holds
<1> QED BY <1>3, <1>4, <1>5 DEF Loses

LEMMA KeyMoves ==
  ASSUME IInv, KeptInv, ~AllowAsyncClose, [Next]_vars PROVE KeyMove
<1>1. TypeOK /\ PlaceInv /\ BlockInv /\ ConstantsAssumption /\ closing = NULL
  BY ConstantsAssumption DEF IInv, KeptInv
<1>2. /\ NULL \notin Aops /\ NULL \notin Fds /\ \A d \in Ops : d \notin Aops
      /\ \A s \in Socks : s \notin Files
  BY <1>1 DEF ConstantsAssumption
<1>3. CASE UNCHANGED <<appVars, completeKey>>
  <2>1. UNCHANGED <<aopOf, handleOf, isOpen, completeKey>>
    BY <1>3 DEF appVars
  <2> QED BY <2>1 DEF KeyMove, SameHolder, Holds
<1>4. CASE QuietNext
  <2>1. completeKey' = completeKey
    BY <1>4 DEF QuietNext, EvNext, CallbackEvIo, CallbackEvAccept, DriveKeyless, UninitNext,
                UninitBegin, UninitJoin, UninitClosePort, Terminated, vars, WorkerNext,
                WorkerWake, WorkerLock, WorkerTake, WorkerQuit, WorkerSkip, WorkerReadWrite,
                WorkerClose, WorkerUnlock, WorkerPost, WorkerOpen
  <2> QED BY <1>3, <1>4, <2>1, QuietEffect
<1>5. ASSUME NEW f \in Files, NEW a \in Aops, NEW fd \in Fds, FileOpenSync(f, a, fd)
      PROVE  KeyMove
  <2>1. f \in Objs /\ ~Holds(f) /\ fdOwner[fd] \notin Aops
    BY <1>2, <1>5 DEF FileOpenSync, LowestFd, FreeFds, Holds, Objs
  <2>2. Gains(f, fd)
    BY <1>1, <1>5, <2>1, AttachGains DEF FileOpenSync, Attach, TypeOK
  <2> QED BY <2>1, <2>2 DEF KeyMove
<1>6. ASSUME NEW s \in Socks, NEW a \in Aops, NEW fd \in Fds, SockOpen(s, a, fd)
      PROVE  KeyMove
  <2>1. s \in Objs /\ ~Holds(s) /\ fdOwner[fd] \notin Aops
    BY <1>2, <1>6 DEF SockOpen, LowestFd, FreeFds, Holds, Objs
  <2>2. Gains(s, fd)
    BY <1>1, <1>2, <1>6, <2>1, AttachGains DEF SockOpen, Attach
  <2> QED BY <2>1, <2>2 DEF KeyMove
<1>7. ASSUME NEW f \in Files, NEW a \in Aops, NEW d \in Ops, FileOpenAsync(f, a, d)
      PROVE  KeyMove
  <2>1. ~isOpen[f] /\ f \in Objs
    BY <1>1, <1>7 DEF FileOpenAsync, BlockInv, Objs
  <2>2. /\ UNCHANGED <<isOpen, completeKey>>
        /\ \A x \in Objs \ {f} : aopOf'[x] = aopOf[x] /\ handleOf'[x] = handleOf[x]
    BY <1>1, <1>7 DEF FileOpenAsync, TypeOK
  <2>3. \A x \in Objs : SameHolder(x)
    BY <2>1, <2>2 DEF SameHolder, Holds
  <2> QED BY <2>2, <2>3 DEF KeyMove
<1>8. CASE \/ \E f \in Files, d \in Ops : FileReadWrite(f, d) \/ FileCloseAsync(f, d)
           \/ \E s \in Socks, t \in SockTypes, d \in Ops : SockPost(s, t, d)
  BY <1>3, <1>8 DEF FileReadWrite, FileCloseAsync, SockPost
<1>9. ASSUME NEW o \in Objs, aopOf[o] # NULL, Detach(aopOf[o], ao, readyEvents, place)
      PROVE  DetachFinds(aopOf[o], ao, readyEvents)
  BY <1>1, <1>9, DetachNow DEF TypeOK
<1>10. ASSUME NEW f \in Files, FileCloseSync(f) PROVE KeyMove
  <2>1. f \in Objs /\ Holds(f)
    BY <1>1, <1>10 DEF FileCloseSync, Holds, BlockInv, Objs
  <2>2. DetachFinds(aopOf[f], ao, readyEvents)
    BY <1>9, <1>10, <2>1 DEF FileCloseSync, Holds
  <2>3. Loses(f)
    BY <1>10, <2>1, <2>2, DetachLoses DEF FileCloseSync
  <2> QED BY <2>1, <2>3 DEF KeyMove
<1>11. ASSUME NEW f \in Files, FileDestroyUnopened(f) PROVE KeyMove
  <2>1. f \in Objs /\ ~isOpen[f] /\ aopOf[f] # NULL /\ ao[aopOf[f]].handle = NULL
    BY <1>11 DEF FileDestroyUnopened, Objs, KeptInv, KeysExact
  <2>2. DetachFinds(aopOf[f], ao, readyEvents)
    BY <1>9, <1>11, <2>1 DEF FileDestroyUnopened
  <2>3. completeKey' = completeKey
    BY <1>1, <1>2, <2>1, <2>2 DEF DetachFinds, TypeOK
  <2>4. \A x \in Objs : SameHolder(x)
    BY <1>1, <1>11, <2>1 DEF FileDestroyUnopened, SameHolder, Holds, TypeOK
  <2> QED BY <2>3, <2>4 DEF KeyMove
<1>12. ASSUME NEW s \in Socks, SockClose(s) PROVE KeyMove
  <2>1. s \in Objs /\ Holds(s)
    BY <1>2, <1>12 DEF SockClose, Holds, Objs
  <2>2. DetachFinds(aopOf[s], ao, readyEvents)
    BY <1>9, <1>12, <2>1 DEF SockClose
  <2>3. Loses(s)
    BY <1>12, <2>1, <2>2, DetachLoses DEF SockClose
  <2> QED BY <2>1, <2>3 DEF KeyMove
<1>13. CASE DriveReadWrite \/ DriveClose \/ DriveCancelled
  BY <1>3, <1>13 DEF DriveReadWrite, DriveClose, DriveCancelled
<1>14. CASE DriveDisconnect
  <2> DEFINE s == ao[Key].obj
  <2>1. Delivers("disc") /\ "disc" \in OpTypes /\ "disc" \notin FileTypes
    BY <1>14 DEF DriveDisconnect, OpTypes, SockTypes, FileTypes
  <2>2. s \in Objs /\ s \notin Files /\ aopOf[s] = Key /\ Key # NULL
    BY <2>1, DeliversFacts
  <2>3. /\ DetachFinds(Key, Counted, Tail(readyEvents))
        /\ Counted[Key].handle = ao[Key].handle
    BY <1>14, DisconnectEffect
  <2>4. /\ aopOf' = [aopOf EXCEPT ![s] = NULL] /\ isOpen' = isOpen
        /\ handleOf' = [handleOf EXCEPT ![s] = NULL]
    BY <1>14 DEF DriveDisconnect
  <2> HIDE DEF s
  <2>5. Holds(s)
    BY <2>2 DEF Holds
  <2>6. Loses(s)
    BY <2>2, <2>3, <2>4, <2>5, DetachLoses
  <2> QED BY <2>2, <2>6 DEF KeyMove
<1>15. CASE DriveAccept
  <2>1. Delivers("accept") /\ Drives /\ "accept" \in OpTypes
    BY <1>15 DEF DriveAccept, Delivers, OpTypes, SockTypes
  <2>2. Done \in Ops /\ place[Done] = "ready" /\ data[Done].type = "accept"
    BY <2>1, DriveFacts DEF Delivers
  <2>3. data[Done].user # NULL => data[Done].user \in Fds /\ fdOwner[data[Done].user] \notin Aops
    <3>1. data[Done] \in DataType
      BY <1>1, <2>2 DEF TypeOK
    <3>2. OpDescriptor(Done)
      BY <2>2 DEF IInv, DescriptorInv, ClosedInTurn, Live
    <3> QED BY <1>2, <2>2, <3>1, <3>2 DEF DataType, OpDescriptor
  <2>4. ASSUME NEW s \in Socks, NEW a \in Aops, data[Done].user # NULL, aopOf[s] = NULL,
               SetKey(data[Done].user, a), aopOf' = [aopOf EXCEPT ![s] = a],
               handleOf' = [handleOf EXCEPT ![s] = data[Done].user]
        PROVE  KeyMove
    <3>1. s \in Objs /\ s \notin Files /\ ~Holds(s) /\ isOpen' = isOpen
      BY <1>2, <1>15, <2>4 DEF Objs, Holds, DriveAccept
    <3>2. Gains(s, data[Done].user)
      BY <2>3, <2>4, <3>1, AttachGains
    <3> QED BY <2>3, <2>4, <3>1, <3>2 DEF KeyMove
  <2>5. CASE UNCHANGED <<completeKey, aopOf, handleOf>>
    BY <1>3, <1>15, <2>5 DEF DriveAccept, appVars
  <2> QED BY <1>15, <2>4, <2>5 DEF DriveAccept
<1>16. CASE DriveOpen
  <2> DEFINE f == ao[Key].obj
             fd == data[Done].handle
  <2>1. Delivers("open") /\ Drives /\ "open" \in OpTypes /\ "open" \in FileTypes
    BY <1>16 DEF DriveOpen, Delivers, OpTypes, FileTypes
  <2>2. Done \in Ops /\ place[Done] = "ready" /\ data[Done].type = "open" /\ Key = data[Done].aop
    BY <2>1, DriveFacts DEF Delivers
  <2>3. f \in Objs /\ f \in Files /\ aopOf[f] = Key /\ Key \in Aops
    BY <2>1, <2>2, DeliversFacts, DriveFacts
  <2>4. ~isOpen[f]
    BY <2>2, <2>3 DEF IInv, MutexInv, Live, BlockOf
  <2>5. data[Done].ok => fd \in Fds /\ fdOwner[fd] \notin Aops
    <3>1. OpDescriptor(Done)
      BY <2>2 DEF IInv, DescriptorInv, ClosedInTurn, Live
    <3> QED BY <1>2, <2>2, <3>1 DEF OpDescriptor
  <2>6. CASE /\ data[Done].ok /\ SetKey(fd, Key)
             /\ handleOf' = [handleOf EXCEPT ![f] = fd]
             /\ isOpen' = [isOpen EXCEPT ![f] = TRUE]
             /\ UNCHANGED aopOf
    <3> HIDE DEF f, fd
    <3>1. aopOf' = [aopOf EXCEPT ![f] = Key]
      BY <1>1, <2>3, <2>6 DEF TypeOK
    <3>2. ~Holds(f) /\ isOpen'[f]
      BY <1>1, <2>3, <2>4, <2>6 DEF Holds, TypeOK
    <3>3. Gains(f, fd)
      BY <2>3, <2>5, <2>6, <3>1, <3>2, AttachGains
    <3> QED BY <2>3, <2>5, <2>6, <3>3 DEF KeyMove
  <2>7. CASE /\ completeKey' = completeKey
             /\ isOpen' = [isOpen EXCEPT ![f] = FALSE]
             /\ \/ /\ handleOf' = [handleOf EXCEPT ![f] = fd]
                   /\ aopOf' = [aopOf EXCEPT ![f] = NULL]
                \/ UNCHANGED <<aopOf, handleOf>>
    <3> HIDE DEF f, fd
    <3>1. \A x \in Objs : SameHolder(x)
      BY <1>1, <2>3, <2>4, <2>7 DEF SameHolder, Holds, TypeOK
    <3> QED BY <2>7, <3>1 DEF KeyMove
  <2> QED BY <1>16, <2>6, <2>7 DEF DriveOpen
<1>17. ~FinishClose
  BY <1>1 DEF FinishClose
<1> QED
  BY <1>4, <1>5, <1>6, <1>7, <1>8, <1>10, <1>11, <1>12, <1>13, <1>14, <1>15, <1>16, <1>17
     DEF Next, AppNext, DriveNext, QuietNext

LEMMA HoldersExact ==
  ASSUME IInv, IInv', KeptInv, ~AllowAsyncClose, [Next]_vars
  PROVE  /\ \A o \in Objs : Holds(o)' => completeKey'[handleOf'[o]] = aopOf'[o]
         /\ \A fd \in Fds : completeKey'[fd] # NULL =>
              \E o \in Objs : Holds(o)' /\ handleOf'[o] = fd
<1>1. TypeOK /\ KeysExact /\ KeyMove
  BY KeyMoves DEF IInv, KeptInv
<1>2. \A o \in Objs : Holds(o) => handleOf[o] \in Fds /\ fdOwner[handleOf[o]] = aopOf[o]
                                  /\ aopOf[o] \in Aops
  BY HolderFacts
<1>3. \A o, x \in Objs : Holds(o) /\ Holds(x) /\ aopOf[o] = aopOf[x] => o = x
  <2> SUFFICES ASSUME NEW o \in Objs, NEW x \in Objs, Holds(o), Holds(x), aopOf[o] = aopOf[x]
               PROVE  o = x
    OBVIOUS
  <2>1. ao[aopOf[o]].obj = o /\ ao[aopOf[x]].obj = x
    BY HolderFacts
  <2> QED BY <2>1
<1>4. CASE completeKey' = completeKey /\ \A o \in Objs : SameHolder(o)
  BY <1>1, <1>4 DEF SameHolder, KeysExact
<1>5. ASSUME NEW o \in Objs, NEW fd \in Fds, Gains(o, fd)
      PROVE  /\ \A x \in Objs : Holds(x)' => completeKey'[handleOf'[x]] = aopOf'[x]
             /\ \A g \in Fds : completeKey'[g] # NULL =>
                  \E x \in Objs : Holds(x)' /\ handleOf'[x] = g
  <2>1. /\ completeKey'[fd] = aopOf'[o]
        /\ \A g \in Fds : g # fd => completeKey'[g] = completeKey[g]
    BY <1>1, <1>5 DEF Gains, TypeOK
  <2>2. ASSUME NEW x \in Objs, Holds(x)' PROVE completeKey'[handleOf'[x]] = aopOf'[x]
    <3>1. CASE x = o
      BY <1>5, <2>1, <3>1 DEF Gains
    <3>2. CASE x # o
      <4>1. Holds(x) /\ aopOf'[x] = aopOf[x] /\ handleOf'[x] = handleOf[x]
        BY <1>5, <2>2, <3>2 DEF Gains, SameHolder
      <4>2. handleOf[x] # fd /\ handleOf[x] \in Fds
        BY <1>2, <1>5, <4>1 DEF Gains
      <4> QED BY <1>1, <2>1, <4>1, <4>2 DEF KeysExact
    <3> QED BY <3>1, <3>2
  <2>3. ASSUME NEW g \in Fds, completeKey'[g] # NULL
        PROVE  \E x \in Objs : Holds(x)' /\ handleOf'[x] = g
    <3>1. CASE g = fd
      BY <1>5, <3>1 DEF Gains
    <3>2. CASE g # fd
      <4>1. PICK x \in Objs : Holds(x) /\ handleOf[x] = g
        BY <1>1, <2>1, <2>3, <3>2 DEF KeysExact
      <4>2. Holds(x)' /\ handleOf'[x] = handleOf[x]
        BY <1>5, <4>1 DEF Gains, SameHolder
      <4> QED BY <4>1, <4>2
    <3> QED BY <3>1, <3>2
  <2> QED BY <2>2, <2>3
<1>6. ASSUME NEW o \in Objs, Loses(o)
      PROVE  /\ \A x \in Objs : Holds(x)' => completeKey'[handleOf'[x]] = aopOf'[x]
             /\ \A g \in Fds : completeKey'[g] # NULL =>
                  \E x \in Objs : Holds(x)' /\ handleOf'[x] = g
  <2>1. /\ completeKey'[handleOf[o]] = NULL
        /\ \A g \in Fds : g # handleOf[o] => completeKey'[g] = completeKey[g]
    BY <1>1, <1>2, <1>6 DEF Loses, TypeOK
  <2>2. ASSUME NEW x \in Objs, Holds(x)' PROVE completeKey'[handleOf'[x]] = aopOf'[x]
    <3>1. x # o
      BY <1>6, <2>2 DEF Loses
    <3>2. Holds(x) /\ aopOf'[x] = aopOf[x] /\ handleOf'[x] = handleOf[x]
      BY <1>6, <2>2, <3>1 DEF Loses, SameHolder
    <3>3. handleOf[x] # handleOf[o] /\ handleOf[x] \in Fds
      BY <1>2, <1>3, <1>6, <3>1, <3>2 DEF Loses
    <3> QED BY <1>1, <2>1, <3>2, <3>3 DEF KeysExact
  <2>3. ASSUME NEW g \in Fds, completeKey'[g] # NULL
        PROVE  \E x \in Objs : Holds(x)' /\ handleOf'[x] = g
    <3>1. g # handleOf[o]
      BY <2>1, <2>3
    <3>2. PICK x \in Objs : Holds(x) /\ handleOf[x] = g
      BY <1>1, <2>1, <2>3, <3>1 DEF KeysExact
    <3>3. Holds(x)' /\ handleOf'[x] = handleOf[x]
      BY <1>6, <3>1, <3>2 DEF Loses, SameHolder
    <3> QED BY <3>2, <3>3
  <2> QED BY <2>2, <2>3
<1> QED BY <1>1, <1>4, <1>5, <1>6 DEF KeyMove

\* A file becomes attached before it is open only by open(.., async = true).
LEMMA UnopenedSteps ==
  ASSUME IInv, [Next]_vars, NEW f \in Files, aopOf'[f] # NULL, ~isOpen'[f]
  PROVE  \/ aopOf'[f] = aopOf[f] /\ ~isOpen[f]
         \/ \E a \in Aops, d \in Ops : FileOpenAsync(f, a, d)
<1>1. TypeOK /\ BlockInv /\ ConstantsAssumption /\ f \in Objs
  BY ConstantsAssumption DEF IInv, Objs
<1>2. CASE UNCHANGED <<aopOf, isOpen>>
  BY <1>2
<1>3. CASE QuietNext
  BY <1>2, <1>3, QuietEffect DEF appVars
\* Another object changes.
<1>4. ASSUME NEW x, x # f, NEW a, NEW b, aopOf' = [aopOf EXCEPT ![x] = a],
             isOpen' = isOpen \/ isOpen' = [isOpen EXCEPT ![x] = b]
      PROVE  aopOf'[f] = aopOf[f] /\ ~isOpen[f]
  BY <1>1, <1>4 DEF TypeOK
<1>5. CASE AppNext
  <2>1. ASSUME NEW x \in Files, NEW a \in Aops, NEW fd \in Fds, FileOpenSync(x, a, fd)
        PROVE  aopOf'[f] = aopOf[f] /\ ~isOpen[f]
    <3>1. x # f
      BY <1>1, <2>1 DEF FileOpenSync, TypeOK
    <3> QED BY <1>4, <2>1, <3>1 DEF FileOpenSync, Attach
  <2>2. ASSUME NEW x \in Files, NEW a \in Aops, NEW d \in Ops, FileOpenAsync(x, a, d), x # f
        PROVE  aopOf'[f] = aopOf[f] /\ ~isOpen[f]
    BY <1>4, <2>2 DEF FileOpenAsync
  <2>3. ASSUME NEW x \in Files, FileCloseSync(x) \/ FileDestroyUnopened(x)
        PROVE  aopOf'[f] = aopOf[f] /\ ~isOpen[f]
    <3>1. x # f
      BY <1>1, <2>3 DEF FileCloseSync, FileDestroyUnopened, TypeOK
    <3> QED BY <1>4, <2>3, <3>1 DEF FileCloseSync, FileDestroyUnopened
  <2>4. ASSUME NEW s \in Socks, \/ \E a \in Aops, fd \in Fds : SockOpen(s, a, fd)
                                \/ SockClose(s)
        PROVE  aopOf'[f] = aopOf[f] /\ ~isOpen[f]
    <3>1. s # f
      BY <1>1 DEF ConstantsAssumption
    <3> QED BY <1>4, <2>4, <3>1 DEF SockOpen, SockClose, Attach
  <2> QED BY <1>2, <1>5, <2>1, <2>2, <2>3, <2>4
          DEF AppNext, FileReadWrite, FileCloseAsync, SockPost, appVars
<1>6. CASE FinishClose
  <2>1. closing \in Files /\ closing # f
    BY <1>1, <1>6 DEF FinishClose, TypeOK, Objs
  <2> QED BY <1>4, <1>6, <2>1 DEF FinishClose
<1>7. CASE DriveReadWrite \/ DriveClose \/ DriveCancelled
  BY <1>2, <1>7 DEF DriveReadWrite, DriveClose, DriveCancelled, appVars
<1>8. CASE DriveDisconnect
  <2>1. Delivers("disc") /\ "disc" \in OpTypes /\ "disc" \notin FileTypes
    BY <1>8 DEF DriveDisconnect, OpTypes, SockTypes, FileTypes
  <2>2. ao[Key].obj # f
    BY <2>1, DeliversFacts
  <2> QED BY <1>4, <1>8, <2>2 DEF DriveDisconnect
<1>9. CASE DriveAccept
  <2>1. \A s \in Socks : s # f
    BY <1>1 DEF ConstantsAssumption
  <2> QED BY <1>2, <1>4, <1>9, <2>1 DEF DriveAccept
<1>10. CASE DriveOpen
  <2>1. Delivers("open") /\ Drives /\ "open" \in OpTypes
    BY <1>10 DEF DriveOpen, Delivers, OpTypes, FileTypes
  <2>2. /\ Done \in Ops /\ place[Done] = "ready" /\ data[Done].type = "open"
        /\ Key = data[Done].aop /\ aopOf[ao[Key].obj] = Key
    BY <2>1, DriveFacts, DeliversFacts DEF Delivers
  <2>3. ~isOpen[f] \/ ao[Key].obj # f
    BY <2>2 DEF IInv, MutexInv, Live, BlockOf
  <2>4. /\ aopOf' \in {aopOf, [aopOf EXCEPT ![ao[Key].obj] = NULL]}
        /\ \E b : isOpen' = [isOpen EXCEPT ![ao[Key].obj] = b]
    BY <1>10 DEF DriveOpen
  <2> QED BY <1>1, <2>3, <2>4 DEF TypeOK
<1> QED
  BY <1>3, <1>5, <1>6, <1>7, <1>8, <1>9, <1>10 DEF Next, DriveNext, QuietNext

LEMMA UnopenedHandles ==
  ASSUME IInv, IInv', KeptInv, ~AllowAsyncClose, [Next]_vars,
         NEW f \in Files, aopOf'[f] # NULL, ~isOpen'[f]
  PROVE  ao'[aopOf'[f]].handle = NULL
<1>1. TypeOK /\ BlockInv /\ BlockInv' /\ f \in Objs /\ TypeOK'
  BY DEF IInv, Objs
<1>2. ASSUME NEW a \in Aops, NEW d \in Ops, FileOpenAsync(f, a, d)
      PROVE  ao'[aopOf'[f]].handle = NULL
  <2>1. aopOf'[f] = a /\ ao' = CountUp([ao EXCEPT ![a] = NewBlock(f, NULL, "none")], a)
    BY <1>1, <1>2 DEF FileOpenAsync, PushWork, TypeOK
  <2>2. ao'[a] = [NewBlock(f, NULL, "none") EXCEPT !.opCount = @ + 1]
    BY <1>1, <2>1 DEF CountUp, TypeOK
  <2> QED BY <2>1, <2>2 DEF NewBlock
<1>3. CASE aopOf'[f] = aopOf[f] /\ ~isOpen[f]
  <2>1. PICK a \in Aops : aopOf[f] = a
    BY <1>1, <1>3 DEF TypeOK
  <2>2. /\ ao[a].alloc /\ ao[a].obj = f /\ ao[a].handle = NULL
        /\ ao'[a].alloc /\ ~ao'[a].isCancel
    BY <1>1, <1>3, <2>1 DEF BlockInv, AttachedBlock, KeptInv, KeysExact
  <2>3. BlockCarried(a)
    BY <1>1, <2>2, BlockSteps
  <2>4. CASE ao'[a].handle = ao[a].handle
    BY <1>3, <2>1, <2>2, <2>4
  <2>5. CASE DriveOpen /\ a = Key
    <3>1. ~(isOpen' = [isOpen EXCEPT ![f] = TRUE])
      BY <1>1 DEF TypeOK
    <3>2. ao' = Counted
      BY <2>2, <2>5, <3>1 DEF DriveOpen
    <3>3. Counted[a].handle = ao[a].handle
      BY <1>1, <2>5 DEF Counted, TypeOK, BlockType
    <3> QED BY <2>4, <3>2, <3>3
  <2> QED BY <2>2, <2>3, <2>4, <2>5 DEF BlockCarried
<1> QED BY <1>2, <1>3, UnopenedSteps

LEMMA KeptInvStep ==
  ASSUME IInv, IInv', KeptInv, [Next]_vars PROVE KeptInv'
<1> SUFFICES ASSUME ~AllowAsyncClose
             PROVE  /\ KeysExact'
                    /\ closing' = NULL
                    /\ \A i \in DOMAIN readyEvents' : readyEvents'[i].ck # NULL
                    /\ \A d \in Ops : place'[d] # "lost"
                    /\ mode' # "run" => \A f \in Files : ~isOpen'[f]
  BY DEF KeptInv
<1>1. TypeOK /\ TypeOK' /\ PlaceInv /\ PlaceInv' /\ BlockInv /\ BlockInv' /\ ConstantsAssumption
  BY ConstantsAssumption DEF IInv
<1>2. KeysExact'
  BY HoldersExact, UnopenedHandles DEF KeysExact
<1>3. closing' = NULL
  <2>1. closing = NULL
    BY DEF KeptInv
  <2>2. ~DriveClose
    <3>1. Drives => Done \in Ops /\ place[Done] = "ready"
      BY DriveFacts
    <3>2. Drives => data[Done].type # "close"
      BY <3>1, NoCloses
    <3> QED BY <3>2 DEF DriveClose, Delivers
  <2>3. closing' = closing \/ closing' = NULL
    BY <2>2
       DEF Next, AppNext, FileOpenSync, FileOpenAsync, FileReadWrite, FileCloseAsync,
           FileCloseSync, FileDestroyUnopened, SockOpen, SockPost, SockClose, EvNext,
           CallbackEvIo, CallbackEvAccept, DriveNext, DriveKeyless, DriveCancelled,
           DriveReadWrite, DriveOpen, FinishClose, DriveDisconnect, DriveAccept, CallbackRan,
           UninitNext, UninitBegin, UninitJoin, UninitClosePort, Terminated, WorkerNext,
           WorkerWake, WorkerLock, WorkerQuit, WorkerTake, WorkerSkip, WorkerReadWrite,
           WorkerClose, WorkerUnlock, WorkerPost, WorkerOpen, mainVars, vars
  <2> QED BY <2>1, <2>3
<1>4. ASSUME NEW i \in DOMAIN readyEvents' PROVE readyEvents'[i].ck # NULL
  <2> DEFINE d == readyEvents'[i].op
  <2>1. d \in Ops /\ place'[d] = "ready"
    <3>1. readyEvents'[i] \in EventType
      BY <1>1 DEF TypeOK
    <3> QED BY <3>1, <1>1 DEF EventType, PlaceInv, InReady
  <2>2. place[d] # "free"
    <3>1. PostedNow(d) => place'[d] # "ready"
      BY ZenonT(60), <1>1, <2>1 DEF PostedNow, FileOpenAsync, FileReadWrite, FileCloseAsync,
                                    SockPost, PushWork, TypeOK
    <3> QED BY <2>1, <3>1, OpSteps
  <2>3. data[d].aop \in Aops
    BY <1>1, <2>1, <2>2 DEF BlockInv, BlockOutlivesOps
  <2>4. ASSUME place[d] = "pend" PROVE completeKey[data[d].handle] = data[d].aop
    <3>1. PICK s \in Socks : aopOf[s] = data[d].aop /\ data[d].handle = handleOf[s]
      BY <2>1, <2>4, PendFacts
    <3>2. s \in Objs /\ Holds(s)
      BY <1>1, <2>3, <3>1 DEF Holds, Objs, ConstantsAssumption
    <3> QED BY <3>1, <3>2 DEF KeptInv, KeysExact
  <2>5. EventFrom(i)
    BY EventsFrom
  <2>6. ASSUME NEW j \in DOMAIN readyEvents PROVE readyEvents[j].ck # NULL
    BY DEF KeptInv
  <2> QED BY <1>1, <2>3, <2>4, <2>5, <2>6 DEF EventFrom, ConstantsAssumption
<1>5. ASSUME NEW d \in Ops, place'[d] = "lost" PROVE FALSE
  <2>1. place[d] # "lost"
    BY DEF KeptInv
  <2>2. ~DriveKeyless
    <3>1. ASSUME Drives PROVE Key # NULL
      <4>1. readyEvents \in Seq(EventType) /\ readyEvents # <<>>
        BY <1>1, <3>1 DEF TypeOK, Drives
      <4>2. 1 \in DOMAIN readyEvents /\ Key = readyEvents[1].ck
        BY <4>1 DEF Key
      <4> QED BY <4>2 DEF KeptInv
    <3> QED BY <3>1 DEF DriveKeyless
  <2>3. \A w \in Workers : ~WorkerTake(w, d)
    BY <1>1, <1>5 DEF WorkerTake, TypeOK
  <2> QED BY <1>5, <2>1, <2>2, <2>3, PlaceSteps
<1>6. ASSUME mode' # "run", NEW f \in Files PROVE ~isOpen'[f]
  <2>1. f \in Objs /\ f \notin Socks
    BY <1>1 DEF Objs, ConstantsAssumption
  <2>2. CASE mode = "run"
    <3>1. UninitBegin
      BY <1>6, <2>2, ModeSteps DEF UninitJoin, UninitClosePort
    <3>2. isOpen[f] => \E d \in Ops : place[d] # "free" /\ data[d].type = "close"
      BY <3>1 DEF UninitBegin, ReadyToUninit
    <3>3. ~isOpen[f]
      BY <3>2, NoCloses
    <3> QED BY <3>1, <3>3 DEF UninitBegin, appVars
  <2>3. CASE mode # "run"
    <3>1. ~isOpen[f]
      BY <2>3 DEF KeptInv
    <3>2. ObjCarried(f)
      BY <2>1, ObjSteps
    <3>3. aopOf'[f] = NULL => ~isOpen'[f]
      BY <1>1 DEF BlockInv
    <3>4. /\ \A a \in Aops, fd \in Fds : ~FileOpenSync(f, a, fd)
          /\ uninitFlag
      BY <2>3 DEF FileOpenSync, uninitFlag
    <3> QED BY <2>1, <3>1, <3>2, <3>3, <3>4 DEF ObjCarried
  <2> QED BY <2>2, <2>3
<1> QED BY <1>2, <1>3, <1>4, <1>5, <1>6


-----------------------------------------------------------------------------
(* OrderlyInv.                                                             *)

\* A file with a read or a write on its way is neither closed nor deleted.
LEMMA BusyStays ==
  ASSUME IInv, KeptInv, Orderly, [Next]_vars, NEW d \in Ops, place[d] # "free",
         data[d].type = "rw", ~BlockOf(d).isCancel
  PROVE  aopOf'[BlockOf(d).obj] = data[d].aop
<1> DEFINE a == data[d].aop
           f == ao[a].obj
<1> SUFFICES aopOf'[f] = a
  BY DEF BlockOf
<1>1. /\ TypeOK /\ BlockInv /\ MutexInv /\ ConstantsAssumption
      /\ ~AllowBusyClose /\ closing = NULL
  BY ConstantsAssumption DEF IInv, KeptInv, Orderly
<1>2. PostedBlock(d) /\ a \in Aops /\ ao[a].alloc /\ ~ao[a].isCancel
  BY <1>1 DEF Live, BlockInv, BlockOutlivesOps, BlockOf
<1>3. f \in Files /\ f \in Objs /\ f \notin Socks /\ aopOf[f] = a /\ isOpen[f] /\ a # NULL
  BY <1>1, <1>2 DEF PostedBlock, FileTypes, Objs, ConstantsAssumption
<1>4. ao[a].opCount # 0
  BY <1>2, CountFacts
<1> HIDE DEF a, f
\* Another object changes.
<1>5. ASSUME NEW x, x # f, NEW b, aopOf' = [aopOf EXCEPT ![x] = b] PROVE aopOf'[f] = a
  BY <1>1, <1>3, <1>5 DEF TypeOK
<1>6. CASE aopOf' = aopOf
  BY <1>3, <1>6
<1>7. CASE QuietNext
  BY <1>6, <1>7, QuietEffect DEF appVars
<1>8. CASE AppNext
  <2>1. ASSUME NEW g \in Files, FileCloseSync(g) \/ FileDestroyUnopened(g)
        PROVE  aopOf'[f] = a
    <3>1. g # f
      BY <1>1, <1>3, <1>4, <2>1 DEF FileCloseSync, FileDestroyUnopened
    <3> QED BY <1>5, <2>1, <3>1 DEF FileCloseSync, FileDestroyUnopened
  <2>2. ASSUME NEW g \in Files, NEW n \in Aops,
               \/ \E fd \in Fds : FileOpenSync(g, n, fd)
               \/ \E e \in Ops : FileOpenAsync(g, n, e)
        PROVE  aopOf'[f] = a
    <3>1. g # f /\ aopOf' = [aopOf EXCEPT ![g] = n]
      BY <1>3, <2>2 DEF FileOpenSync, FileOpenAsync, Attach
    <3> QED BY <1>5, <3>1
  <2>3. ASSUME NEW s \in Socks, \/ \E n \in Aops, fd \in Fds : SockOpen(s, n, fd)
                                \/ SockClose(s)
        PROVE  aopOf'[f] = a
    <3>1. s # f /\ \E b : aopOf' = [aopOf EXCEPT ![s] = b]
      BY <1>3, <2>3 DEF SockOpen, Attach, SockClose
    <3> QED BY <1>5, <3>1
  <2> QED BY <1>6, <1>8, <2>1, <2>2, <2>3
          DEF AppNext, FileReadWrite, FileCloseAsync, SockPost, appVars
<1>9. CASE DriveNext
  <2>1. CASE DriveKeyless \/ DriveCancelled \/ DriveReadWrite \/ DriveClose
    BY <1>6, <2>1 DEF DriveKeyless, DriveCancelled, DriveReadWrite, DriveClose, appVars
  <2>2. CASE FinishClose
    BY <1>1, <2>2 DEF FinishClose
  <2>3. CASE DriveOpen
    <3>1. Delivers("open") /\ "open" \in OpTypes
      BY <2>3 DEF DriveOpen, OpTypes, FileTypes
    <3>2. /\ Done \in Ops /\ place[Done] = "ready" /\ data[Done].aop = Key
          /\ data[Done].type = "open" /\ aopOf[ao[Key].obj] = Key
      BY <3>1, DriveFacts, DeliversFacts DEF Delivers
    <3>3. ao[Key].obj # f
      <4>1. ao[Key].fileOpMutex = "none"
        BY <1>1, <3>2 DEF MutexInv, Live, BlockOf
      <4> QED BY <1>1, <1>3, <3>2, <4>1 DEF MutexInv
    <3>4. aopOf' \in {aopOf, [aopOf EXCEPT ![ao[Key].obj] = NULL]}
      BY <2>3 DEF DriveOpen
    <3> QED BY <1>5, <1>6, <3>3, <3>4
  <2>4. CASE DriveDisconnect
    <3>1. Delivers("disc") /\ "disc" \in OpTypes /\ "disc" \notin FileTypes
      BY <2>4 DEF DriveDisconnect, OpTypes, SockTypes, FileTypes
    <3>2. ao[Key].obj # f
      BY <1>3, <3>1, DeliversFacts
    <3> QED BY <1>5, <2>4, <3>2 DEF DriveDisconnect
  <2>5. CASE DriveAccept
    <3>1. \/ aopOf' = aopOf
          \/ \E s \in Socks, n \in Aops : aopOf' = [aopOf EXCEPT ![s] = n]
      BY <2>5 DEF DriveAccept
    <3> QED BY <1>3, <1>5, <1>6, <3>1
  <2> QED BY <1>9, <2>1, <2>2, <2>3, <2>4, <2>5 DEF DriveNext
<1> QED BY <1>6, <1>7, <1>8, <1>9 DEF Next, QuietNext

LEMMA OrderlyInvStep ==
  ASSUME IInv, IInv', KeptInv, OrderlyInv, [Next]_vars PROVE OrderlyInv'
<1> SUFFICES ASSUME Orderly, NEW d \in Ops, place'[d] # "free", data'[d].type = "rw"
             PROVE  /\ ~ao'[data'[d].aop].isCancel
                    /\ data'[d].handle = ao'[data'[d].aop].handle
  BY DEF OrderlyInv, Live, BlockOf
<1>1. /\ TypeOK /\ TypeOK' /\ BlockInv /\ BlockInv' /\ MutexInv /\ DescriptorInv
      /\ ClosedInTurn /\ ConstantsAssumption
  BY ConstantsAssumption DEF IInv, ClosedInTurn, Orderly
<1>2. CASE place[d] # "free" /\ Carried(d)
  <2> DEFINE a == data[d].aop
             f == ao[a].obj
  <2>1. data'[d].aop = a /\ data'[d].handle = data[d].handle /\ data[d].type = "rw"
    <3>1. data[d] \in DataType
      BY <1>1 DEF TypeOK
    <3>2. data'[d] = data[d] \/ data'[d] = [data[d] EXCEPT !.ok = TRUE]
            \/ (data[d].type \in {"accept", "open"} /\ data'[d].type = data[d].type)
      BY <1>2, <3>1 DEF Carried, DataType
    <3> QED BY <3>1, <3>2 DEF DataType
  <2>2. ~ao[a].isCancel /\ data[d].handle = ao[a].handle
    BY <1>2, <2>1 DEF OrderlyInv, Live, BlockOf
  <2>3. a \in Aops /\ ao[a].alloc /\ ao'[a].alloc /\ f \in Objs /\ a # NULL
    <3>1. PostedBlock(d) /\ ao[a].obj \in Objs \cup {NULL}
      BY <1>1, <1>2 DEF BlockInv, Live, BlockOutlivesOps, TypeOK, BlockType
    <3> QED BY <1>1, <1>2, <2>1, <3>1
            DEF BlockInv, BlockOutlivesOps, PostedBlock, ConstantsAssumption
  <2>4. aopOf'[f] = a
    BY <1>2, <2>1, <2>2, BusyStays DEF BlockOf
  <2>5. ~ao'[a].isCancel
    BY <1>1, <2>3, <2>4 DEF BlockInv, AttachedBlock
  <2>6. BlockCarried(a)
    BY <1>1, <2>3, BlockSteps
  <2>7. ASSUME DriveOpen, a = Key PROVE FALSE
    <3>1. Drives /\ data[Done].type = "open"
      BY <2>7 DEF DriveOpen, Delivers
    <3>2. Done \in Ops /\ place[Done] = "ready" /\ data[Done].aop = Key
      BY <2>3, <2>7, <3>1, DriveFacts
    <3>3. Done = d
      BY <1>1, <1>2, <2>7, <3>1, <3>2 DEF MutexInv, Live
    <3> QED BY <2>1, <3>1, <3>3
  <2> QED BY <2>1, <2>2, <2>5, <2>6, <2>7 DEF BlockCarried
<1>3. CASE place[d] = "free" /\ PostedNow(d)
  <2>1. PICK f \in Files : FileReadWrite(f, d)
    <3>1. ASSUME NEW t, NEW a, NEW fd, NEW blocks, PushWork(d, t, a, fd, blocks) PROVE t = "rw"
      BY <1>1, <3>1 DEF PushWork, NewData, TypeOK
    <3>2. \A f \in Files, a \in Aops : ~FileOpenAsync(f, a, d)
      BY <3>1 DEF FileOpenAsync
    <3>3. \A f \in Files : ~FileCloseAsync(f, d)
      BY <3>1 DEF FileCloseAsync
    <3>4. \A s \in Socks, t \in SockTypes : ~SockPost(s, t, d)
      BY <1>1 DEF SockPost, NewData, TypeOK, SockTypes
    <3> QED BY <1>3, <3>2, <3>3, <3>4 DEF PostedNow
  <2> DEFINE a == aopOf[f]
  <2>2. PushWork(d, "rw", a, handleOf[f], ao) /\ isOpen[f] /\ f \in Objs
    BY <2>1 DEF FileReadWrite, Objs
  <2>3. a \in Aops /\ ~ao[a].isCancel /\ handleOf[f] = ao[a].handle
    BY <1>1, <2>2 DEF BlockInv, TypeOK, AttachedBlock, DescriptorInv, FileDescriptor
  <2> HIDE DEF a
  <2>4. data'[d].aop = a /\ data'[d].handle = handleOf[f]
    BY <1>1, <2>2 DEF PushWork, NewData, TypeOK
  <2>5. ao'[a].isCancel = ao[a].isCancel /\ ao'[a].handle = ao[a].handle
    BY <1>1, <2>2, <2>3 DEF PushWork, CountUp, TypeOK, BlockType
  <2> QED BY <2>3, <2>4, <2>5
<1> QED BY <1>2, <1>3, OpSteps

-----------------------------------------------------------------------------
(* The whole invariant, and what a caller may rely on because of it.       *)

LEMMA InitEngineInv == Init => EngineInv
<1> SUFFICES ASSUME Init PROVE EngineInv
  OBVIOUS
<1>1. IInv /\ SessionInv
  BY InitInv, InitMaps
<1>2. FoundInv
  BY DEF Init, FoundInv, Objs
<1>3. KeptInv
  BY DEF Init, KeptInv, KeysExact, Holds, Objs
<1>4. OrderlyInv
  BY DEF Init, OrderlyInv, Live
<1> QED BY <1>1, <1>2, <1>3, <1>4 DEF EngineInv

\* The conjuncts of the inductive invariant that the engine keeps besides IInv: a
\* free block holds nothing, an operation can be found where its place says it
\* is, the phases of uninit leave nothing behind, the completion keys are exactly
\* those of the objects that hold a descriptor (where close(true) is not used),
\* and a read or a write names its file's descriptor (where no busy file is
\* closed either).
THEOREM EngineInvariant == ASSUME Careful PROVE Spec => []EngineInv
<1>1. Init => EngineInv
  BY InitEngineInv
<1>2. EngineInv /\ [Next]_vars => EngineInv'
  <2> SUFFICES ASSUME EngineInv, [Next]_vars PROVE EngineInv'
    OBVIOUS
  <2>1. IInv /\ SessionInv /\ FoundInv /\ KeptInv /\ OrderlyInv
    BY DEF EngineInv
  <2>2. IInv'
    BY <2>1, NextInv
  <2>3. SessionInv' /\ FoundInv'
    BY <2>1, SessionInvStep, FoundInvStep
  <2>4. KeptInv' /\ OrderlyInv'
    BY <2>1, <2>2, KeptInvStep, OrderlyInvStep
  <2> QED BY <2>2, <2>3, <2>4 DEF EngineInv
<1> QED BY <1>1, <1>2, PTL DEF Spec

LEMMA OrderlyIsCareful == (Orderly => Careful) /\ (~AllowAsyncClose => Careful)
BY DEF Orderly, Careful, ClosedInTurn

\* Where the application closes a file only when it is idle, a worker reads and
\* writes the file its operation was posted for: no descriptor is closed, and its
\* number given to somebody else, between the post and the I/O.
THEOREM DescriptorIsRight == ASSUME Orderly PROVE Spec => []RightDescriptor
<1>1. EngineInv => RightDescriptor
  <2> SUFFICES ASSUME EngineInv, NEW w \in Workers, wpc[w] = "io",
                      data[wop[w]].type \in {"rw", "close"}
               PROVE  fdOwner[data[wop[w]].handle] = data[wop[w]].aop
    BY DEF RightDescriptor
  <2> DEFINE d == wop[w]
             a == data[d].aop
             f == ao[a].obj
  <2>1. IInv /\ KeptInv /\ OrderlyInv /\ ~AllowAsyncClose
    BY DEF EngineInv, Orderly
  <2>2. d \in Ops /\ place[d] # "free"
    BY <2>1, WorkFacts
  <2>3. data[d].type = "rw"
    BY <2>1, <2>2, NoCloses
  <2>4. ~ao[a].isCancel /\ data[d].handle = ao[a].handle
    BY <2>1, <2>2, <2>3 DEF OrderlyInv, Live, BlockOf
  <2>5. f \in Files /\ f \in Objs /\ aopOf[f] = a /\ isOpen[f] /\ a \in Aops
    <3>1. BlockInv /\ PostedBlock(d)
      BY <2>1, <2>2 DEF IInv, BlockInv, Live
    <3>2. ao[a].obj \in Objs \cup {NULL} /\ a \in Aops
      BY <2>1, <2>2, <3>1 DEF IInv, TypeOK, BlockType, BlockInv, BlockOutlivesOps
    <3> QED BY <2>3, <2>4, <3>1, <3>2 DEF PostedBlock, FileTypes
  <2>6. Holds(f)
    BY <2>5, ConstantsAssumption DEF Holds, ConstantsAssumption
  <2>7. handleOf[f] = ao[a].handle /\ fdOwner[handleOf[f]] = a
    BY <2>1, <2>5, <2>6, HolderFacts
  <2> QED BY <2>4, <2>7
<1> QED BY <1>1, EngineInvariant, OrderlyIsCareful, PTL

\* Without close(true), an operation that waits in the port waits under the key of
\* its own control block: the completion is counted, and called back on the very
\* object it was posted on.
THEOREM WaiterHasKey == ASSUME ~AllowAsyncClose PROVE Spec => []PendingHasKey
<1>1. EngineInv => PendingHasKey
  <2> SUFFICES ASSUME EngineInv, NEW d \in Ops, place[d] = "pend"
               PROVE  completeKey[data[d].handle] = data[d].aop
    BY DEF PendingHasKey
  <2>1. IInv /\ KeysExact
    BY DEF EngineInv, KeptInv
  <2>2. PICK s \in Socks : /\ data[d].aop \in Aops /\ aopOf[s] = data[d].aop
                           /\ data[d].handle = handleOf[s]
    BY <2>1, PendFacts
  <2>3. s \in Objs /\ Holds(s)
    BY <2>2, ConstantsAssumption DEF Holds, Objs, ConstantsAssumption
  <2> QED BY <2>1, <2>2, <2>3 DEF KeysExact
<1> QED BY <1>1, EngineInvariant, OrderlyIsCareful, PTL

\* The assertions of CloseIoPort hold: when uninit closes the port, every operation
\* block is back in the pool and no descriptor has a completion key.
THEOREM ShutdownIsClean == ASSUME ~AllowAsyncClose PROVE Spec => []CleanShutdown
<1>1. EngineInv => CleanShutdown
  <2> SUFFICES ASSUME EngineInv, mode = "closed"
               PROVE  /\ \A d \in Ops : place[d] = "free"
                      /\ \A fd \in Fds : completeKey[fd] = NULL
    BY DEF CleanShutdown
  <2>1. IInv /\ FoundInv /\ KeptInv /\ KeysExact
    BY DEF EngineInv, KeptInv
  <2>2. \A o \in Objs : ~Holds(o)
    BY <2>1 DEF FoundInv, KeptInv, Holds, Objs
  <2>3. \A fd \in Fds : completeKey[fd] = NULL
    BY <2>1, <2>2 DEF KeysExact
  <2>4. ASSUME NEW d \in Ops PROVE place[d] = "free"
    <3>1. place[d] \notin {"queued", "ready"}
      BY <2>1 DEF FoundInv
    <3>2. place[d] # "working"
      <4>1. \A w \in Workers : wop[w] = NULL
        BY <2>1 DEF FoundInv, IInv, PlaceInv
      <4> QED BY <2>1, <4>1, ConstantsAssumption DEF FoundInv, ConstantsAssumption
    <3>3. place[d] # "pend"
      <4>1. ASSUME place[d] = "pend" PROVE FALSE
        <5>1. PICK s \in Socks : data[d].aop \in Aops /\ aopOf[s] = data[d].aop
          BY <2>1, <4>1, PendFacts
        <5> QED BY <2>1, <5>1, ConstantsAssumption DEF FoundInv, ConstantsAssumption
      <4> QED BY <4>1
    <3>4. place[d] # "lost"
      BY <2>1 DEF KeptInv
    <3> QED BY <2>1, <3>1, <3>2, <3>3, <3>4 DEF IInv, TypeOK, Places
  <2> QED BY <2>3, <2>4
<1> QED BY <1>1, EngineInvariant, OrderlyIsCareful, PTL
=============================================================================
