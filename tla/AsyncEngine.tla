---------------------------- MODULE AsyncEngine ----------------------------
(***************************************************************************)
(* The asynchronous I/O engine of module/jinasyncengine.cpp as it runs on  *)
(* POSIX (AE_USING_IOCP undefined), with the completion port of            *)
(* module/jinioport.cpp and the objects that use it: JinFileAsync and      *)
(* JinTcpSocket.                                                           *)
(*                                                                         *)
(* One main thread runs the application, posts operations, and calls       *)
(* driveEngine.  File operations go through extraWorkList_ to a few        *)
(* ExtraIOWorker threads; socket operations wait in the port (ioPend)      *)
(* until libev reports the descriptor ready.  Both kinds finish as an      *)
(* entry of readyEvents, which driveEngine turns into one OnMainPull.      *)
(*                                                                         *)
(* What is abstracted: byte counts are success or failure; reads and       *)
(* writes are one kind of operation ("rw"), and so are connect, send and   *)
(* recv ("io"), because the engine treats the members of a kind alike;     *)
(* the buffers, their reference counts and the paths are left out.         *)
(***************************************************************************)
EXTENDS Integers, Sequences, FiniteSets, SequencesExt

CONSTANTS
  Files,            \* JinFileAsync objects
  Socks,            \* JinTcpSocket objects
  Aops,             \* addresses of JinAsynHandleDetail blocks
  Ops,              \* JinAsynData blocks of dataPool_
  Fds,              \* descriptors the kernel may hand out (0 is standard input)
  Workers,          \* ExtraIOWorker threads (WORKERCOUNT of them)
  NULL,             \* a null pointer, HDNULL or SOCKINV
  QUIT,             \* the kOpQuitIoWorker entry of extraWorkList_
  AllowAsyncClose,  \* the application uses JinFileAsync::close(true)
  AllowBusyClose    \* it closes or deletes a file that has operations
                    \* outstanding, or closes it twice

Objs == Files \cup Socks

ASSUME ConstantsAssumption ==
  /\ IsFiniteSet(Ops)
  /\ Fds \subseteq Nat \ {0}
  /\ Files \cap Socks = {}
  /\ Aops \cap Ops = {}
  /\ Workers # {}
  /\ NULL \notin Aops \cup Ops \cup Fds \cup Workers \cup Objs
  /\ QUIT \notin Ops
  /\ {"none", "free"} \cap Workers = {}
  /\ AllowAsyncClose \in BOOLEAN
  /\ AllowBusyClose \in BOOLEAN

VARIABLES
  \* the application's objects (IAsynObj)
  aopOf,            \* obj->aop_
  handleOf,         \* obj->handle_
  isOpen,           \* JinFileAsync::isOpen_
  \* the engine
  ao,               \* the control blocks, JinAsynHandleDetail
  data,             \* the operation blocks, JinAsynData
  place,            \* where each operation block is; "free" is in dataPool_
  extraWorkList,    \* work for the workers, oldest first
  extraWorkMutex,   \* the worker that holds it, or NULL
  extraWorkSignal,  \* auto-reset event
  completeKey,      \* port->SetOfCompleteKey
  readyEvents,      \* port->readyEvents
  \* the threads
  wpc, wit, wop,    \* per worker: program counter, list iterator, data
  mode,             \* the main thread's progress through uninit
  closing,          \* the file whose OnClose is running, or NULL
  inCallback,       \* uninit's last drive has just run a callback
  \* the kernel
  fdOwner           \* what each open descriptor was opened for: a control
                    \* block, or the open or accept that has yet to deliver it

appVars    == <<aopOf, handleOf, isOpen>>
listVars   == <<extraWorkList, extraWorkMutex, extraWorkSignal>>
workerVars == <<wpc, wit, wop>>
mainVars   == <<mode, closing, inCallback>>
vars == <<appVars, ao, data, place, listVars, completeKey, readyEvents,
          workerVars, mainVars, fdOwner>>

Places    == {"free", "queued", "working", "pend", "ready", "lost"}
FileTypes == {"open", "rw", "close"}
SockTypes == {"io", "accept", "disc"}
OpTypes   == FileTypes \cup SockTypes
WorkerPCs == {"wait", "lock", "scan", "io", "unlock", "post", "out"}

FreeBlock == [alloc |-> FALSE, obj |-> NULL, handle |-> NULL, opCount |-> 0,
              isCancel |-> FALSE, fileOpMutex |-> "none"]
NoData == [type |-> "rw", aop |-> NULL, handle |-> NULL, user |-> NULL, ok |-> FALSE]

BlockType == [alloc : BOOLEAN, obj : Objs \cup {NULL}, handle : Fds \cup {NULL},
              opCount : Int, isCancel : BOOLEAN,
              fileOpMutex : {"none", "free"} \cup Workers]
DataType == [type : OpTypes, aop : Aops \cup {NULL}, handle : Fds \cup {NULL},
             user : Fds \cup {NULL}, ok : BOOLEAN]

EventType == [op : Ops, ck : Aops \cup {NULL}]

TypeOK ==
  /\ aopOf \in [Objs -> Aops \cup {NULL}]
  /\ handleOf \in [Objs -> Fds \cup {NULL}]
  /\ isOpen \in [Files -> BOOLEAN]
  /\ ao \in [Aops -> BlockType]
  /\ data \in [Ops -> DataType]
  /\ place \in [Ops -> Places]
  /\ extraWorkList \in Seq(Ops \cup {QUIT})
  /\ extraWorkMutex \in Workers \cup {NULL}
  /\ extraWorkSignal \in BOOLEAN
  /\ completeKey \in [Fds -> Aops \cup {NULL}]
  /\ readyEvents \in Seq(EventType)
  /\ wpc \in [Workers -> WorkerPCs]
  /\ wit \in [Workers -> Nat]
  /\ wop \in [Workers -> Ops \cup {NULL}]
  /\ mode \in {"run", "join", "drain", "closed"}
  /\ closing \in Files \cup {NULL}
  /\ inCallback \in BOOLEAN
  /\ fdOwner \in [Fds -> Aops \cup Ops \cup {NULL}]

Init ==
  /\ aopOf = [o \in Objs |-> NULL]
  /\ handleOf = [o \in Objs |-> NULL]
  /\ isOpen = [f \in Files |-> FALSE]
  /\ ao = [a \in Aops |-> FreeBlock]
  /\ data = [d \in Ops |-> NoData]
  /\ place = [d \in Ops |-> "free"]
  /\ extraWorkList = <<>>
  /\ extraWorkMutex = NULL
  /\ extraWorkSignal = FALSE
  /\ completeKey = [fd \in Fds |-> NULL]
  /\ readyEvents = <<>>
  /\ wpc = [w \in Workers |-> "wait"]
  /\ wit = [w \in Workers |-> 1]
  /\ wop = [w \in Workers |-> NULL]
  /\ mode = "run"
  /\ closing = NULL
  /\ inCallback = FALSE
  /\ fdOwner = [fd \in Fds |-> NULL]

-----------------------------------------------------------------------------
(* Helpers shared by the operations.                                       *)

uninitFlag == mode # "run"

Outstanding(a) == {d \in Ops : place[d] # "free" /\ data[d].aop = a}

FreeFds == {fd \in Fds : fdOwner[fd] = NULL}
\* open, socket and accept return the lowest descriptor that is not open.
LowestFd(fd) == fd \in FreeFds /\ \A g \in FreeFds : fd <= g

Event(d, ck) == [op |-> d, ck |-> ck]

\* The application's own code runs between two calls of driveEngine, inside a
\* callback, and, once uninit drives the engine, only inside a callback.
AppRuns == mode = "run" \/ inCallback

NewBlock(o, fd, m) == [alloc |-> TRUE, obj |-> o, handle |-> fd, opCount |-> 0,
                       isCancel |-> FALSE, fileOpMutex |-> m]

NewData(t, a, fd) == [type |-> t, aop |-> a, handle |-> fd, user |-> NULL, ok |-> FALSE]

\* The port learns the completion key of a descriptor.
SetKey_Skipped(fd, a) == UNCHANGED completeKey   \* mutant
SetKey(fd, a) == completeKey' = [completeKey EXCEPT ![fd] = a]

\* attach for an object that already has a handle: the new control block is the
\* port's completion key of the descriptor, whatever key was there before.
Attach(o, a, fd) ==
  /\ ~ao[a].alloc
  /\ ao' = [ao EXCEPT ![a] = NewBlock(o, fd, "free")]
  /\ SetKey(fd, a)
  /\ aopOf' = [aopOf EXCEPT ![o] = a]
  /\ handleOf' = [handleOf EXCEPT ![o] = fd]

\* The operations of descriptor fd that still wait in the port.
PendingOn(fd) == {d \in Ops : place[d] = "pend" /\ data[d].handle = fd}

\* What detach makes of the control block: deleted if idle, else marked.
DetachedBlock_Freed(b) == FreeBlock   \* mutant
DetachedBlock_Unmarked(b) == IF b.opCount = 0 THEN FreeBlock ELSE b   \* mutant
DetachedBlock(b) ==
  IF b.opCount = 0 THEN FreeBlock ELSE [b EXCEPT !.isCancel = TRUE]

\* detach, with DropFromPort: nothing of the descriptor stays in the port, its
\* waiting operations complete empty under the key found there, and the block
\* goes once no operation is left.  The arguments are the control blocks, the
\* ready queue and the places as the caller has left them.
Detach(a, blocks, ready, places) ==
  LET fd  == blocks[a].handle
      cut == IF fd = NULL THEN {} ELSE PendingOn(fd)
      ck  == IF fd = NULL THEN NULL ELSE completeKey[fd]
  IN /\ ao' = [blocks EXCEPT ![a] = DetachedBlock(@)]
     /\ completeKey' = [g \in Fds |-> IF g = fd THEN NULL ELSE completeKey[g]]
     /\ \E order \in SetToSeqs(cut) :
          readyEvents' = ready \o [i \in DOMAIN order |-> Event(order[i], ck)]
     /\ place' = [d \in Ops |-> IF d \in cut THEN "ready" ELSE places[d]]

\* ++aop->opCount
CountUp_Missed(blocks, a) == blocks   \* mutant
CountUp(blocks, a) == [blocks EXCEPT ![a].opCount = @ + 1]

\* Queue operation d of control block a for the workers and wake one.
PushWork(d, t, a, fd, blocks) ==
  /\ place[d] = "free"
  /\ extraWorkMutex = NULL
  /\ place' = [place EXCEPT ![d] = "queued"]
  /\ data' = [data EXCEPT ![d] = NewData(t, a, fd)]
  /\ extraWorkList' = Append(extraWorkList, d)
  /\ extraWorkSignal' = TRUE
  /\ ao' = CountUp(blocks, a)
  /\ UNCHANGED extraWorkMutex

-----------------------------------------------------------------------------
(* The application: files.                                                 *)

FileOpenSync(f, a, fd) ==
  /\ mode = "run" /\ closing # f
  /\ aopOf[f] = NULL
  /\ LowestFd(fd)
  /\ Attach(f, a, fd)
  /\ isOpen' = [isOpen EXCEPT ![f] = TRUE]
  /\ fdOwner' = [fdOwner EXCEPT ![fd] = a]
  /\ UNCHANGED <<data, place, listVars, readyEvents, workerVars, mainVars>>

\* open(.., async = true): the control block exists before the descriptor does.
FileOpenAsync(f, a, d) ==
  /\ mode = "run" /\ closing # f
  /\ aopOf[f] = NULL
  /\ ~ao[a].alloc
  /\ PushWork(d, "open", a, NULL,
              [ao EXCEPT ![a] = NewBlock(f, NULL, "none")])
  /\ aopOf' = [aopOf EXCEPT ![f] = a]
  /\ handleOf' = [handleOf EXCEPT ![f] = NULL]
  /\ UNCHANGED <<isOpen, completeKey, readyEvents, workerVars, mainVars, fdOwner>>

FileReadWrite(f, d) ==
  /\ mode = "run" /\ closing # f
  /\ isOpen[f]
  /\ PushWork(d, "rw", aopOf[f], handleOf[f], ao)
  /\ UNCHANGED <<appVars, completeKey, readyEvents, workerVars, mainVars, fdOwner>>

FileCloseAsync(f, d) ==
  /\ AllowAsyncClose
  /\ mode = "run" /\ closing # f
  /\ isOpen[f]
  /\ AllowBusyClose \/ \A c \in Outstanding(aopOf[f]) : data[c].type # "close"
  /\ PushWork(d, "close", aopOf[f], handleOf[f], ao)
  /\ UNCHANGED <<appVars, completeKey, readyEvents, workerVars, mainVars, fdOwner>>

\* close(false), and close(true) once the engine refuses work: the descriptor is
\* closed under the operations that may still use it.
FileCloseSync(f) ==
  /\ AppRuns /\ closing # f
  /\ isOpen[f]
  /\ AllowBusyClose \/ ao[aopOf[f]].opCount = 0
  /\ Detach(aopOf[f], ao, readyEvents, place)
  /\ fdOwner' = [fdOwner EXCEPT ![handleOf[f]] = NULL]
  /\ isOpen' = [isOpen EXCEPT ![f] = FALSE]
  /\ aopOf' = [aopOf EXCEPT ![f] = NULL]
  /\ UNCHANGED <<handleOf, data, listVars, workerVars, mainVars>>

\* ~JinFileAsync of a file whose asynchronous open is pending or has failed.
FileDestroyUnopened(f) ==
  /\ AppRuns /\ closing # f
  /\ ~isOpen[f] /\ aopOf[f] # NULL
  /\ AllowBusyClose \/ ao[aopOf[f]].opCount = 0
  /\ Detach(aopOf[f], ao, readyEvents, place)
  /\ aopOf' = [aopOf EXCEPT ![f] = NULL]
  /\ UNCHANGED <<handleOf, isOpen, data, listVars, workerVars, mainVars, fdOwner>>

-----------------------------------------------------------------------------
(* The application: sockets.                                               *)

SockOpen(s, a, fd) ==
  /\ mode = "run"
  /\ aopOf[s] = NULL
  /\ LowestFd(fd)
  /\ Attach(s, a, fd)
  /\ fdOwner' = [fdOwner EXCEPT ![fd] = a]
  /\ UNCHANGED <<isOpen, data, place, listVars, readyEvents, workerVars, mainVars>>

\* postAccept, postConnect, postSend, postRecv, postDisconnect through evMixIO.
SockPost(s, t, d) ==
  /\ mode = "run"
  /\ aopOf[s] # NULL
  /\ place[d] = "free"
  /\ place' = [place EXCEPT ![d] = "pend"]
  /\ data' = [data EXCEPT ![d] = NewData(t, aopOf[s], handleOf[s])]
  /\ ao' = CountUp(ao, aopOf[s])
  /\ UNCHANGED <<appVars, listVars, completeKey, readyEvents, workerVars,
                 mainVars, fdOwner>>

\* Mutant: the handle is not forgotten, and the destructor closes it once more.
SockClose_Twice(s) ==
  /\ AppRuns
  /\ \/ /\ aopOf[s] # NULL
        /\ Detach(aopOf[s], ao, readyEvents, place)
        /\ UNCHANGED handleOf
     \/ /\ aopOf[s] = NULL
        /\ \E f \in Files : isOpen[f] /\ handleOf[f] = handleOf[s]
        /\ handleOf' = [handleOf EXCEPT ![s] = NULL]
        /\ UNCHANGED <<ao, completeKey, readyEvents, place>>
  /\ fdOwner' = [fdOwner EXCEPT ![handleOf[s]] = NULL]
  /\ aopOf' = [aopOf EXCEPT ![s] = NULL]
  /\ UNCHANGED <<isOpen, data, listVars, workerVars, mainVars>>

SockClose(s) ==
  /\ AppRuns
  /\ aopOf[s] # NULL
  /\ Detach(aopOf[s], ao, readyEvents, place)
  /\ fdOwner' = [fdOwner EXCEPT ![handleOf[s]] = NULL]
  /\ aopOf' = [aopOf EXCEPT ![s] = NULL]
  /\ handleOf' = [handleOf EXCEPT ![s] = NULL]
  /\ UNCHANGED <<isOpen, data, listVars, workerVars, mainVars>>

-----------------------------------------------------------------------------
(* CallbackEvIo: libev, on the main thread inside driveEngine, finds the   *)
(* descriptor of a waiting operation ready.                                *)

EvDrives == mode \in {"run", "drain"} /\ closing = NULL

PushComplete(d, ck) == readyEvents' = Append(readyEvents, Event(d, ck))

CallbackEvIo(d) ==
  /\ EvDrives
  /\ place[d] = "pend" /\ fdOwner[data[d].handle] # NULL
  /\ data[d].type \in {"io", "disc"}
  /\ place' = [place EXCEPT ![d] = "ready"]
  /\ PushComplete(d, completeKey[data[d].handle])
  /\ UNCHANGED <<appVars, ao, data, listVars, completeKey, workerVars, mainVars, fdOwner>>

\* accept() takes a new descriptor, or fails (fd = NULL) and leaves data->user 0.
CallbackEvAccept(d, fd) ==
  /\ EvDrives
  /\ place[d] = "pend" /\ fdOwner[data[d].handle] # NULL
  /\ data[d].type = "accept"
  /\ fd # NULL => LowestFd(fd) /\ fdOwner[data[d].handle] = data[d].aop
  /\ place' = [place EXCEPT ![d] = "ready"]
  /\ data' = [data EXCEPT ![d].user = fd]
  /\ fdOwner' = [g \in Fds |-> IF g = fd THEN d ELSE fdOwner[g]]
  /\ PushComplete(d, completeKey[data[d].handle])
  /\ UNCHANGED <<appVars, ao, listVars, completeKey, workerVars, mainVars>>

-----------------------------------------------------------------------------
(* The workers: ExtraIOWorker::period.                                     *)

Goto(w, pc) == wpc' = [wpc EXCEPT ![w] = pc]

\* signal_->wait
WorkerWake(w) ==
  /\ wpc[w] = "wait" /\ extraWorkSignal
  /\ extraWorkSignal' = FALSE
  /\ Goto(w, "lock")
  /\ UNCHANGED <<appVars, ao, data, place, extraWorkList, extraWorkMutex, completeKey,
                 readyEvents, wit, wop, mainVars, fdOwner>>

WorkerLock(w) ==
  /\ wpc[w] = "lock" /\ extraWorkMutex = NULL
  /\ IF extraWorkList = <<>>
     THEN Goto(w, "wait") /\ UNCHANGED extraWorkMutex
     ELSE Goto(w, "scan") /\ extraWorkMutex' = w
  /\ UNCHANGED <<appVars, ao, data, place, extraWorkList, extraWorkSignal, completeKey,
                 readyEvents, wit, wop, mainVars, fdOwner>>

\* The list is scanned from its front; the iterator is back there when a scan ends.
Scanned(w) == extraWorkList[wit[w]]
Rewind(w) == wit' = [wit EXCEPT ![w] = 1]

MutexOf_Ignored(d) == "none"   \* mutant
MutexOf(d) == ao[data[d].aop].fileOpMutex

\* The entry's handle is free (or has no mutex yet): take the entry.
WorkerTake(w, d) ==
  /\ wpc[w] = "scan" /\ Scanned(w) = d
  /\ MutexOf(d) \in {"none", "free"}
  /\ ao' = IF MutexOf(d) = "none" THEN ao
           ELSE [ao EXCEPT ![data[d].aop].fileOpMutex = w]
  /\ extraWorkList' = RemoveAt(extraWorkList, wit[w])
  /\ extraWorkSignal' = (extraWorkSignal \/ wit[w] < Len(extraWorkList))
  /\ extraWorkMutex' = NULL
  /\ place' = [place EXCEPT ![d] = "working"]
  /\ wop' = [wop EXCEPT ![w] = d]
  /\ Goto(w, "io")
  /\ Rewind(w)
  /\ UNCHANGED <<appVars, data, completeKey, readyEvents, mainVars, fdOwner>>

\* Another worker is on the same handle: leave the entry where it is.
WorkerSkip(w, d) ==
  /\ wpc[w] = "scan" /\ Scanned(w) = d
  /\ MutexOf(d) \in Workers
  /\ IF wit[w] < Len(extraWorkList)
     THEN /\ wit' = [wit EXCEPT ![w] = @ + 1]
          /\ UNCHANGED <<wpc, extraWorkMutex>>
     ELSE /\ Goto(w, "wait")
          /\ extraWorkMutex' = NULL
          /\ Rewind(w)
  /\ UNCHANGED <<appVars, ao, data, place, extraWorkList, extraWorkSignal, completeKey,
                 readyEvents, wop, mainVars, fdOwner>>

\* The quit entry stays in the list for the other workers, and wakes them.
QuitLeft_Taken == <<>>   \* mutant
QuitLeft == <<Last(extraWorkList)>>
WakeOthers_Missed == UNCHANGED extraWorkSignal   \* mutant
WakeOthers == extraWorkSignal' = TRUE

\* kOpQuitIoWorker: everything in front of it is cancelled, and it stays for the
\* other workers.
WorkerQuit(w) ==
  LET cancelled == Front(extraWorkList)
  IN /\ wpc[w] = "scan" /\ Scanned(w) = QUIT
     /\ extraWorkList' = QuitLeft
     /\ readyEvents' = readyEvents \o
          [i \in DOMAIN cancelled |-> Event(cancelled[i], data[cancelled[i]].aop)]
     /\ place' = [d \in Ops |-> IF \E i \in DOMAIN cancelled : cancelled[i] = d
                                THEN "ready" ELSE place[d]]
     /\ extraWorkMutex' = NULL
     /\ WakeOthers
     /\ Goto(w, "out")
     /\ Rewind(w)
     /\ UNCHANGED <<appVars, ao, data, completeKey, wop, mainVars, fdOwner>>

WorkerReadWrite(w) ==
  LET d == wop[w]
  IN /\ wpc[w] = "io" /\ data[d].type = "rw"
     /\ data' = [data EXCEPT ![d].ok = TRUE]
     /\ Goto(w, "unlock")
     /\ UNCHANGED <<appVars, ao, place, listVars, completeKey, readyEvents, wit, wop,
                    mainVars, fdOwner>>

\* fd = NULL: the open fails.
WorkerOpen(w, fd) ==
  LET d == wop[w]
  IN /\ wpc[w] = "io" /\ data[d].type = "open"
     /\ fd # NULL => LowestFd(fd)
     /\ data' = [data EXCEPT ![d].ok = (fd # NULL), ![d].handle = fd]
     /\ fdOwner' = [g \in Fds |-> IF g = fd THEN d ELSE fdOwner[g]]
     /\ Goto(w, "unlock")
     /\ UNCHANGED <<appVars, ao, place, listVars, completeKey, readyEvents, wit, wop,
                    mainVars>>

\* close(data->handle): whatever file has that number by now is closed.
WorkerClose(w) ==
  LET d == wop[w]
  IN /\ wpc[w] = "io" /\ data[d].type = "close"
     /\ data' = [data EXCEPT ![d].ok = TRUE]
     /\ fdOwner' = [fdOwner EXCEPT ![data[d].handle] = NULL]
     /\ Goto(w, "unlock")
     /\ UNCHANGED <<appVars, ao, place, listVars, completeKey, readyEvents, wit, wop,
                    mainVars>>

WorkerUnlock(w) ==
  LET a == data[wop[w]].aop
  IN /\ wpc[w] = "unlock"
     /\ ao' = IF ao[a].fileOpMutex = "none" THEN ao
              ELSE [ao EXCEPT ![a].fileOpMutex = "free"]
     /\ Goto(w, "post")
     /\ UNCHANGED <<appVars, data, place, listVars, completeKey, readyEvents, wit, wop,
                    mainVars, fdOwner>>

WorkerPost(w) ==
  LET d == wop[w]
  IN /\ wpc[w] = "post"
     /\ place' = [place EXCEPT ![d] = "ready"]
     /\ PushComplete(d, data[d].aop)
     /\ wop' = [wop EXCEPT ![w] = NULL]
     /\ Goto(w, "lock")
     /\ UNCHANGED <<appVars, ao, data, listVars, completeKey, wit, mainVars, fdOwner>>

-----------------------------------------------------------------------------
(* driveEngine: one completion.                                            *)

Drives == EvDrives /\ readyEvents # <<>>

Done == Head(readyEvents).op
Key  == Head(readyEvents).ck

\* --aop->opCount
Counted == [ao EXCEPT ![Key].opCount = @ - 1]

\* dataPool_.Release(data)
Released == [place EXCEPT ![Done] = "free"]
ReleaseData == data' = [data EXCEPT ![Done] = NoData]

\* The callbacks of a live object; OnMainPull gets the object of the key.
Delivers(t) == Drives /\ Key # NULL /\ ~ao[Key].isCancel /\ data[Done].type = t

CallbackRan == inCallback' = (mode = "drain") /\ UNCHANGED <<mode, closing>>

\* No completion key: driveEngine returns before it counts or releases anything.
DriveKeyless ==
  /\ Drives /\ Key = NULL
  /\ readyEvents' = Tail(readyEvents)
  /\ place' = [place EXCEPT ![Done] = "lost"]
  /\ inCallback' = FALSE
  /\ UNCHANGED <<appVars, ao, data, listVars, completeKey, workerVars, mode, closing, fdOwner>>

\* A detached block that has no operation left is deleted.
Spent_Leaked(b) == b   \* mutant
Spent(b) == IF b.opCount = 0 THEN FreeBlock ELSE b

\* The object has detached: no callback, and the last operation frees the block.
DriveCancelled ==
  /\ Drives /\ Key # NULL /\ ao[Key].isCancel
  /\ ao' = [Counted EXCEPT ![Key] = Spent(@)]
  /\ readyEvents' = Tail(readyEvents)
  /\ place' = Released
  /\ ReleaseData
  /\ inCallback' = FALSE
  /\ UNCHANGED <<appVars, listVars, completeKey, workerVars, mode, closing, fdOwner>>

DriveReadWrite ==
  /\ \E t \in {"rw", "io"} : Delivers(t)
  /\ ao' = Counted
  /\ readyEvents' = Tail(readyEvents)
  /\ place' = Released
  /\ ReleaseData
  /\ CallbackRan
  /\ UNCHANGED <<appVars, listVars, completeKey, workerVars, fdOwner>>

\* OnMainPull(kFileOpen): the second attach gives the block its handle and its
\* mutex; an engine in uninit refuses it and the descriptor is closed again.
DriveOpen ==
  LET f == ao[Key].obj
      fd == data[Done].handle
  IN /\ Delivers("open")
     /\ \/ /\ data[Done].ok /\ ~uninitFlag
           /\ ao' = [Counted EXCEPT ![Key].handle = fd, ![Key].fileOpMutex = "free"]
           /\ SetKey(fd, Key)
           /\ handleOf' = [handleOf EXCEPT ![f] = fd]
           /\ isOpen' = [isOpen EXCEPT ![f] = TRUE]
           /\ fdOwner' = [fdOwner EXCEPT ![fd] = Key]
           /\ UNCHANGED aopOf
        \/ /\ data[Done].ok /\ uninitFlag
           /\ ao' = Counted
           /\ handleOf' = [handleOf EXCEPT ![f] = fd]
           /\ aopOf' = [aopOf EXCEPT ![f] = NULL]
           /\ isOpen' = [isOpen EXCEPT ![f] = FALSE]
           /\ fdOwner' = [fdOwner EXCEPT ![fd] = NULL]
           /\ UNCHANGED completeKey
        \/ /\ ~data[Done].ok
           /\ ao' = Counted
           /\ isOpen' = [isOpen EXCEPT ![f] = FALSE]
           /\ UNCHANGED <<aopOf, handleOf, completeKey, fdOwner>>
     /\ readyEvents' = Tail(readyEvents)
     /\ place' = Released
     /\ ReleaseData
     /\ CallbackRan
     /\ UNCHANGED <<listVars, workerVars>>

\* OnMainPull(kFileClose) calls OnClose first; what follows is FinishClose.
DriveClose ==
  /\ Delivers("close")
  /\ ao' = Counted
  /\ readyEvents' = Tail(readyEvents)
  /\ place' = Released
  /\ ReleaseData
  /\ closing' = ao[Key].obj
  /\ inCallback' = (mode = "drain")
  /\ UNCHANGED <<appVars, listVars, completeKey, workerVars, mode, fdOwner>>

FinishClose ==
  /\ closing # NULL
  /\ Detach(aopOf[closing], ao, readyEvents, place)
  /\ isOpen' = [isOpen EXCEPT ![closing] = FALSE]
  /\ aopOf' = [aopOf EXCEPT ![closing] = NULL]
  /\ closing' = NULL
  /\ inCallback' = FALSE
  /\ UNCHANGED <<handleOf, data, listVars, workerVars, mode, fdOwner>>

\* OnMainPull(kSockDisconnect) closes the socket before OnDisconnect.
DriveDisconnect ==
  LET s == ao[Key].obj
  IN /\ Delivers("disc")
     /\ Detach(Key, Counted, Tail(readyEvents), Released)
     /\ ReleaseData
     /\ fdOwner' = [fdOwner EXCEPT ![handleOf[s]] = NULL]
     /\ aopOf' = [aopOf EXCEPT ![s] = NULL]
     /\ handleOf' = [handleOf EXCEPT ![s] = NULL]
     /\ CallbackRan
     /\ UNCHANGED <<isOpen, listVars, workerVars>>

\* OnAccept: the application makes a socket of the descriptor, or closes it.  A
\* failed accept, and an engine in uninit, leave it nothing to attach.
DriveAccept ==
  LET fd == data[Done].user
  IN /\ Delivers("accept")
     /\ \/ /\ fd # NULL /\ ~uninitFlag
           /\ \E s \in Socks, a \in Aops :
                /\ aopOf[s] = NULL /\ ~ao[a].alloc
                /\ ao' = [Counted EXCEPT ![a] = NewBlock(s, fd, "free")]
                /\ SetKey(fd, a)
                /\ aopOf' = [aopOf EXCEPT ![s] = a]
                /\ handleOf' = [handleOf EXCEPT ![s] = fd]
                /\ fdOwner' = [fdOwner EXCEPT ![fd] = a]
        \/ /\ ao' = Counted
           /\ fdOwner' = [g \in Fds |-> IF g = fd THEN NULL ELSE fdOwner[g]]
           /\ UNCHANGED <<completeKey, aopOf, handleOf>>
     /\ readyEvents' = Tail(readyEvents)
     /\ place' = Released
     /\ ReleaseData
     /\ CallbackRan
     /\ UNCHANGED <<isOpen, listVars, workerVars>>

-----------------------------------------------------------------------------
(* uninit.                                                                 *)

\* Before it shuts the engine down the application has closed every socket, and
\* closed every file or posted its close; an open may still be on its way.
ReadyToUninit ==
  /\ \A s \in Socks : aopOf[s] = NULL
  /\ \A f \in Files : isOpen[f] =>
       \E d \in Ops : place[d] # "free" /\ data[d].type = "close" /\ data[d].aop = aopOf[f]

UninitBegin ==
  /\ mode = "run" /\ closing = NULL
  /\ ReadyToUninit
  /\ extraWorkMutex = NULL
  /\ extraWorkList' = Append(extraWorkList, QUIT)
  /\ extraWorkSignal' = TRUE
  /\ mode' = "join"
  /\ UNCHANGED <<appVars, ao, data, place, extraWorkMutex, completeKey, readyEvents,
                 workerVars, closing, inCallback, fdOwner>>

UninitJoin ==
  /\ mode = "join"
  /\ \A w \in Workers : wpc[w] = "out"
  /\ extraWorkList' = <<>>
  /\ mode' = "drain"
  /\ UNCHANGED <<appVars, ao, data, place, extraWorkMutex, extraWorkSignal, completeKey,
                 readyEvents, workerVars, closing, inCallback, fdOwner>>

\* uninit drives the engine until nothing is left.
Drained_Ignored == TRUE   \* mutant
Drained == readyEvents = <<>>

\* driveEngine has returned false: CloseIoPort.
UninitClosePort ==
  /\ mode = "drain" /\ closing = NULL
  /\ Drained
  /\ mode' = "closed"
  /\ inCallback' = FALSE
  /\ UNCHANGED <<appVars, ao, data, place, listVars, completeKey, readyEvents, workerVars,
                 closing, fdOwner>>

Terminated == mode = "closed" /\ UNCHANGED vars

-----------------------------------------------------------------------------
AppNext ==
  \/ \E f \in Files, a \in Aops, fd \in Fds : FileOpenSync(f, a, fd)
  \/ \E f \in Files, a \in Aops, d \in Ops : FileOpenAsync(f, a, d)
  \/ \E f \in Files, d \in Ops : FileReadWrite(f, d) \/ FileCloseAsync(f, d)
  \/ \E f \in Files : FileCloseSync(f) \/ FileDestroyUnopened(f)
  \/ \E s \in Socks, a \in Aops, fd \in Fds : SockOpen(s, a, fd)
  \/ \E s \in Socks, t \in SockTypes, d \in Ops : SockPost(s, t, d)
  \/ \E s \in Socks : SockClose(s)

EvNext ==
  \/ \E d \in Ops : CallbackEvIo(d)
  \/ \E d \in Ops, fd \in Fds \cup {NULL} : CallbackEvAccept(d, fd)

WorkerNext(w) ==
  \/ WorkerWake(w) \/ WorkerLock(w) \/ WorkerQuit(w)
  \/ \E d \in Ops : WorkerTake(w, d) \/ WorkerSkip(w, d)
  \/ WorkerReadWrite(w) \/ WorkerClose(w) \/ WorkerUnlock(w) \/ WorkerPost(w)
  \/ \E fd \in Fds \cup {NULL} : WorkerOpen(w, fd)

DriveNext ==
  \/ DriveKeyless \/ DriveCancelled \/ DriveReadWrite \/ DriveOpen
  \/ DriveClose \/ FinishClose \/ DriveDisconnect \/ DriveAccept

UninitNext == UninitBegin \/ UninitJoin \/ UninitClosePort

Next ==
  \/ AppNext \/ EvNext \/ DriveNext \/ UninitNext \/ Terminated
  \/ \E w \in Workers : WorkerNext(w)

Spec == Init /\ [][Next]_vars

\* The worker threads are scheduled, and the main thread keeps calling
\* driveEngine and leaves the callback it is in; the application's calls and
\* the peers' packets may never come.
FairSpec ==
  /\ Spec
  /\ \A w \in Workers : WF_vars(WorkerNext(w))
  /\ WF_vars(DriveNext)
  /\ WF_vars(UninitJoin \/ UninitClosePort)
-----------------------------------------------------------------------------
(* Properties.                                                             *)

\* The reference count of a control block (opCount, read by detach and by
\* driveEngine to decide when to delete it) is the number of its operations that
\* have not completed, wherever they are: queued, with a worker, in the port,
\* ready, or lost.
OpCountExact ==
  \A a \in Aops : ao[a].alloc => ao[a].opCount = Cardinality(Outstanding(a))

\* No operation outlives its control block: a worker, the port and driveEngine
\* may follow data->aop of any block that is out of the pool.
BlockOutlivesOps ==
  \A d \in Ops : place[d] # "free" => data[d].aop \in Aops /\ ao[data[d].aop].alloc

\* fileOpMutex does its work: two workers never do I/O for one handle at once,
\* although a block gets its mutex only after its open has completed.
OneWorkerPerHandle ==
  \A v, w \in Workers :
    v # w /\ wpc[v] \in {"io", "unlock"} /\ wpc[w] \in {"io", "unlock"}
      => data[wop[v]].aop # data[wop[w]].aop

\* The assertions of ExtraIOWorker::period and uninit about the quit entry: while the
\* workers are waited for it stays in the list, for each of them to find; it is
\* the last of the list, and the only one left when both workers are gone.
QuitIsLast ==
  /\ \A i \in DOMAIN extraWorkList :
       extraWorkList[i] = QUIT => i = Len(extraWorkList) /\ mode = "join"
  /\ mode = "join" => extraWorkList # <<>> /\ Last(extraWorkList) = QUIT
  /\ mode = "join" /\ (\A w \in Workers : wpc[w] = "out") => Len(extraWorkList) = 1

\* detach's promise (jinasyncengine.h: the engine calls back no more, the caller
\* may delete itself): a completion that runs a callback finds the object still
\* attached through the very block the operation was posted on.
DetachedIsSilent ==
  [][\A d \in Ops :
       LET a == data[d].aop
       IN place[d] = "ready" /\ place'[d] = "free" /\ ~ao[a].isCancel
            => aopOf[ao[a].obj] = a]_vars
\* What a caller may rely on (module AsyncIO): one callback per operation while
\* attached, none after detach, and the block deleted exactly when it is detached
\* and idle, although the engine only keeps a counter.
sessionOf == [a \in Aops |-> IF ~ao[a].alloc THEN "none"
                              ELSE IF ao[a].isCancel THEN "detached" ELSE "attached"]
holderOf  == [a \in Aops |-> ao[a].obj]
postedOn  == [d \in Ops |-> IF place[d] = "free" THEN NULL ELSE data[d].aop]

AsyncIOView == INSTANCE AsyncIO WITH Sessions <- Aops, sess <- sessionOf,
                                     holder <- holderOf, on <- postedOn

ImplementsAsyncIO == AsyncIOView!AbsSpec

\* What the assertion of CallbackEvIo says: when an operation's descriptor becomes
\* ready, the port has a completion key for it.
PortKnowsHandle ==
  \A d \in Ops : place[d] = "pend" /\ fdOwner[data[d].handle] # NULL
    => completeKey[data[d].handle] # NULL

\* And what it is there for: the key is the control block of the very operation
\* that waits, so the completion is counted and called back on its own object.
PendingHasKey ==
  \A d \in Ops : place[d] = "pend" => completeKey[data[d].handle] = data[d].aop

\* A worker reads, writes and closes the file its operation was posted for, never
\* one that has been given the same descriptor since.
RightDescriptor ==
  \A w \in Workers :
    wpc[w] = "io" /\ data[wop[w]].type \in {"rw", "close"}
      => fdOwner[data[wop[w]].handle] = data[wop[w]].aop

\* The assertions of CloseIoPort: an application that closed what it had opened
\* leaves nothing in the port, and no operation block is missing from the pool.
CleanShutdown ==
  mode = "closed" =>
    /\ \A d \in Ops : place[d] = "free"
    /\ \A fd \in Fds : completeKey[fd] = NULL

\* uninit returns: both workers see the one quit entry and leave, whoever of them
\* wakes first and whatever is still queued, and the last drive ends.
ShutdownCompletes == mode = "join" ~> mode = "closed"
-----------------------------------------------------------------------------
(* The inductive invariant (module AsyncEngineProofs): why the counter,    *)
(* the mutexes and the completion keys can be trusted.                     *)

Live(d) == place[d] # "free"
BlockOf(d) == ao[data[d].aop]

\* Only the worker that holds extraWorkMutex is inside the list, and its iterator
\* is on an entry; the quit entry is where QuitIsLast wants it.
ScanInv ==
  /\ \A w \in Workers : wpc[w] = "scan" <=> extraWorkMutex = w
  /\ \A w \in Workers : IF wpc[w] = "scan" THEN wit[w] \in DOMAIN extraWorkList
                                           ELSE wit[w] = 1
  /\ \A i \in DOMAIN extraWorkList :
       extraWorkList[i] = QUIT => i = Len(extraWorkList) /\ mode = "join"
  /\ mode = "join" => extraWorkList # <<>> /\ Last(extraWorkList) = QUIT
  /\ \A w \in Workers : wpc[w] = "out" =>
       mode # "run" /\ (mode = "join" => Len(extraWorkList) = 1)

\* An operation block is in one place at a time: each entry of the list, each
\* worker's data and each ready completion is an operation of its own.
InReady(events, places) ==
  /\ \A i \in DOMAIN events : places[events[i].op] = "ready"
  /\ \A i, j \in DOMAIN events : events[i].op = events[j].op => i = j

PlaceInv ==
  /\ \A i \in DOMAIN extraWorkList :
       extraWorkList[i] # QUIT => place[extraWorkList[i]] = "queued"
  /\ \A i, j \in DOMAIN extraWorkList : extraWorkList[i] = extraWorkList[j] => i = j
  /\ \A w \in Workers : wop[w] # NULL <=> wpc[w] \in {"io", "unlock", "post"}
  /\ \A w \in Workers : wop[w] # NULL => place[wop[w]] = "working"
  /\ \A v, w \in Workers : wop[v] # NULL /\ wop[v] = wop[w] => v = w
  /\ InReady(readyEvents, place)

\* Every attached object has a block that names it, and every operation a block,
\* whose object is attached through it unless it has been cancelled.
AttachedBlock(o) ==
  LET b == ao[aopOf[o]] IN b.alloc /\ ~b.isCancel /\ b.obj = o

PostedBlock(d) ==
  LET b == ao[data[d].aop]
  IN /\ b.obj # NULL
     /\ data[d].type \in FileTypes <=> b.obj \in Files
     /\ ~b.isCancel => aopOf[b.obj] = data[d].aop
     /\ ~b.isCancel /\ data[d].type \in {"rw", "close"} => isOpen[b.obj]

BlockInv ==
  /\ BlockOutlivesOps
  /\ \A o \in Objs : aopOf[o] # NULL => AttachedBlock(o)
  /\ \A d \in Ops : Live(d) => PostedBlock(d)
  /\ \A f \in Files : isOpen[f] => aopOf[f] # NULL
  /\ closing # NULL => isOpen[closing]

\* A block without a mutex has one operation, its open, so no lock is needed; a
\* block with a mutex has it held by the worker that is on the handle.
MutexInv ==
  /\ \A d \in Ops : Live(d) => (data[d].type = "open" <=> BlockOf(d).fileOpMutex = "none")
  /\ \A d, e \in Ops : Live(d) /\ Live(e) /\ data[d].type = "open"
                         /\ data[d].aop = data[e].aop => d = e
  /\ \A f \in Files : isOpen[f] => ao[aopOf[f]].fileOpMutex # "none"
  /\ \A s \in Socks : aopOf[s] # NULL => ao[aopOf[s]].fileOpMutex # "none"
  /\ \A w \in Workers : wpc[w] \in {"io", "unlock"} => MutexOf(wop[w]) \in {w, "none"}

\* A completion comes under its own key or under none, because an operation only
\* waits on the descriptor of its own attached socket, which nobody else owns.
PendingRight(d) ==
  /\ data[d].type \in SockTypes /\ ~BlockOf(d).isCancel
  /\ data[d].handle = BlockOf(d).handle
  /\ data[d].user = NULL

SocketRight(s) ==
  /\ handleOf[s] \in Fds /\ handleOf[s] = ao[aopOf[s]].handle
  /\ fdOwner[handleOf[s]] = aopOf[s]
  /\ completeKey[handleOf[s]] \in {NULL, aopOf[s]}

KeyInv ==
  /\ \A i \in DOMAIN readyEvents :
       readyEvents[i].ck \in {NULL, data[readyEvents[i].op].aop}
  /\ \A d \in Ops : place[d] = "pend" => PendingRight(d)
  /\ \A s \in Socks : aopOf[s] # NULL => SocketRight(s)

\* Nobody closes a descriptor that is not his, if the application lets them: an
\* open or an accept keeps what it got, a close is alone on an open file, and the
\* file owns its descriptor until that close has been carried out.
OpDescriptor(d) ==
  /\ data[d].type = "open" /\ data[d].ok =>
       data[d].handle \in Fds /\ fdOwner[data[d].handle] = d
  /\ data[d].type = "accept" /\ data[d].user # NULL => fdOwner[data[d].user] = d
  /\ data[d].type = "close" =>
       /\ AllowAsyncClose
       /\ ~BlockOf(d).isCancel /\ data[d].handle = BlockOf(d).handle
       /\ isOpen[BlockOf(d).obj] /\ closing # BlockOf(d).obj
       /\ \A e \in Outstanding(data[d].aop) : data[e].type = "close" => e = d

FileDescriptor(f) ==
  /\ handleOf[f] \in Fds /\ handleOf[f] = ao[aopOf[f]].handle
  /\ closing # f =>
       \/ fdOwner[handleOf[f]] = aopOf[f]
       \/ \E d \in Outstanding(aopOf[f]) : data[d].type = "close" /\ data[d].ok

\* An application that uses close(true), or closes files that are busy, but not
\* both: a close(true) is then the one close of its open file, and finds the
\* descriptor it was posted for.
ClosedInTurn == ~(AllowAsyncClose /\ AllowBusyClose)

DescriptorInv ==
  ClosedInTurn =>
    /\ \A d \in Ops : Live(d) => OpDescriptor(d)
    /\ \A f \in Files : isOpen[f] => FileDescriptor(f)
    /\ \A d \in Ops : place[d] = "queued" => ~data[d].ok
    /\ \A w \in Workers : wpc[w] = "io" => ~data[wop[w]].ok

\* The applications the counter is right for: a file closed twice asynchronously
\* closes, the second time, whatever descriptor has taken its number.
Careful == ClosedInTurn \/ Socks = {}

IInv == TypeOK /\ ScanInv /\ PlaceInv /\ BlockInv /\ OpCountExact /\ MutexInv
          /\ KeyInv /\ DescriptorInv

\* What the refinement needs besides: a block that is not in use holds nothing, one
\* in use an object, which is attached through it until uninit or its own detach.
SessionInv ==
  /\ \A a \in Aops : IF ao[a].alloc THEN ao[a].obj # NULL ELSE ao[a] = FreeBlock
  /\ mode = "run" =>
       \A a \in Aops : ao[a].alloc /\ ~ao[a].isCancel => aopOf[ao[a].obj] = a

\* What a clean shutdown needs: an operation block can be found where its place says
\* it is, and each phase of uninit has left behind what the next ones rely on.
FoundInv ==
  /\ \A d \in Ops : place[d] = "queued" => \E i \in DOMAIN extraWorkList : extraWorkList[i] = d
  /\ \A d \in Ops : place[d] = "working" => \E w \in Workers : wop[w] = d
  /\ \A d \in Ops : place[d] = "ready" => \E i \in DOMAIN readyEvents : readyEvents[i].op = d
  /\ mode # "run" => \A s \in Socks : aopOf[s] = NULL
  /\ mode \in {"drain", "closed"} => extraWorkList = <<>> /\ \A w \in Workers : wpc[w] = "out"
  /\ mode = "closed" => readyEvents = <<>>

\* Without close(true) no completion key is cleared under a descriptor in use: the
\* keys in the port are those of the objects that hold a descriptor, each under its
\* own, and a file that is not open yet has none.
Holds(o) == aopOf[o] # NULL /\ (o \in Files => isOpen[o])

KeysExact ==
  /\ \A o \in Objs : Holds(o) => completeKey[handleOf[o]] = aopOf[o]
  /\ \A fd \in Fds : completeKey[fd] # NULL => \E o \in Objs : Holds(o) /\ handleOf[o] = fd
  /\ \A f \in Files : aopOf[f] # NULL /\ ~isOpen[f] => ao[aopOf[f]].handle = NULL

KeptInv ==
  ~AllowAsyncClose =>
    /\ KeysExact
    /\ closing = NULL
    /\ \A i \in DOMAIN readyEvents : readyEvents[i].ck # NULL
    /\ \A d \in Ops : place[d] # "lost"
    /\ mode # "run" => \A f \in Files : ~isOpen[f]

\* And where nothing is closed under its operations, a read or a write names the
\* descriptor its file still has.
Orderly == ~AllowAsyncClose /\ ~AllowBusyClose

OrderlyInv ==
  Orderly => \A d \in Ops : Live(d) /\ data[d].type = "rw" =>
                 ~BlockOf(d).isCancel /\ data[d].handle = BlockOf(d).handle

EngineInv == IInv /\ SessionInv /\ FoundInv /\ KeptInv /\ OrderlyInv
=============================================================================
