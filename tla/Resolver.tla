------------------------------ MODULE Resolver ------------------------------
(***************************************************************************)
(* JinDNSParser without a timer (module/jindnsparser.cpp), the way the     *)
(* singleton JinDNS is used: the main thread queues queries, a thread of   *)
(* its own resolves them one name after the other, and the answers are     *)
(* called back by the main thread when JinMainThread (module MainThread)   *)
(* is woken.  The queue is shared under a mutex; getaddrinfo and the       *)
(* callbacks run outside it.  What a name resolves to is the cache's       *)
(* (module DnsCache); a query that the cache answers is never queued.      *)
(***************************************************************************)
EXTENDS MainThread, Sequences, SequencesExt

CONSTANTS
  Queries,             \* handles that parse returns
  Hosts,               \* names
  Parser,              \* the JinDNSParser, one of the assists
  Watched,             \* bound: the queries that Answered follows
  SpuriousBeforeInit   \* whether the wait may return for no reason before mainInit does

ASSUME ResolverAssumption ==
  /\ Parser \in Assists /\ NULL \notin Queries \cup Hosts /\ {"out", "loop"} \cap Queries = {}
  /\ Watched \subseteq Queries /\ SpuriousBeforeInit \in BOOLEAN

VARIABLES
  queueLine,  \* queueLine_
  tmpList,    \* OnAwakeCall's callbackTmpList, from the element at hand on
  callback,   \* the queries whose callback is not NULL
  isInit,     \* isInit_
  signal,     \* signal_
  mstep,      \* the call of the parser that the main thread is in the middle of
  cb,         \* OnAwakeCall: "out" of it, in its "loop", or the query that is called back
  rpc,        \* where the parser's thread is in period
  host        \* period's domain

own == <<queueLine, tmpList, callback, isInit, signal, mstep, cb, rpc, host>>
vars == <<mainVars, own>>

DnsQuery == [query : Queries, domain : Hosts, state : {"Queued", "Failed", "Done"}]

IsQueued(c) == c.state = "Queued"

IsSettled(c) == c.state # "Queued"

Waiting == {c \in DnsQuery : IsQueued(c)}

Answers == {c \in DnsQuery : IsSettled(c)}

NotOf(q) == {c \in DnsQuery : c.query # q}

QueriesOf(list) == {c.query : c \in ToSet(list)}

\* A walk over a list that erases every element but those in S.  (SelectSeq
\* with a set, for the prover: it cannot look into SelectSeq.)
Keep(list, S) ==
  LET kept[k \in 0 .. Len(list)] ==
        IF k = 0 THEN <<>>
        ELSE IF list[k] \in S THEN Append(kept[k - 1], list[k]) ELSE kept[k - 1]
  IN kept[Len(list)]

TypeOK ==
  /\ queueLine \in Seq(DnsQuery) /\ tmpList \in Seq(DnsQuery)
  /\ callback \subseteq Queries /\ isInit \in BOOLEAN /\ signal \in EventType
  /\ mstep \in {"none", "started", "pushed", "signal",
                "dropped", "down", "downSignal", "join", "over"}
  /\ cb \in {"out", "loop"} \cup Queries
  /\ rpc \in {"none", "enter", "wait", "pick", "resolve", "awake", "awaking",
              "test", "again", "exited"}
  /\ host \in Hosts \cup {NULL}

Init ==
  /\ MainInit
  /\ queueLine = <<>> /\ tmpList = <<>> /\ callback = {} /\ isInit = FALSE
  /\ signal = NewEvent /\ mstep = "none" /\ cb = "out" /\ rpc = "none" /\ host = NULL

-----------------------------------------------------------------------------
\* The main thread outside the parser

\* Program code runs: between sleeps, in a callback of a query, or in that
\* of another assist.
InProgram ==
  /\ mstep = "none"
  /\ mpc = "run" \/ (mpc = "call" /\ assist # Parser) \/ cb \in Queries

ThreadStarted == rpc # "none"

\* mainInit at the first parse: the thread is started before isInit_ is set.
MainInitStart ==
  /\ InProgram /\ ~isInit /\ rpc = "none"
  /\ mstep' = "started" /\ rpc' = "enter"
  /\ UNCHANGED <<mainVars, queueLine, tmpList, callback, isInit, signal, cb, host>>

MainInitDone ==
  /\ mstep = "started"
  /\ isInit' = TRUE /\ mstep' = "none"
  /\ UNCHANGED <<mainVars, queueLine, tmpList, callback, signal, cb, rpc, host>>

\* parse of a name that the cache does not have, then signal_.set.
Free(q) == q \notin QueriesOf(queueLine) \cup QueriesOf(tmpList) \cup {cb}

Parse(q, h) ==
  /\ InProgram /\ isInit /\ Free(q)
  /\ queueLine' = Append(queueLine, [query |-> q, domain |-> h, state |-> "Queued"])
  /\ callback' = callback \cup {q}
  /\ mstep' = "pushed"
  /\ UNCHANGED <<mainVars, tmpList, isInit, signal, cb, rpc, host>>

SignalSet(from, to) ==
  /\ mstep = from /\ mstep' = to
  /\ signal' = Set(signal)
  /\ UNCHANGED <<mainVars, queueLine, tmpList, callback, isInit, cb, rpc, host>>

SignalCond(from, to) ==
  /\ mstep = from /\ mstep' = to
  /\ signal' = CondSignal(signal)
  /\ UNCHANGED <<mainVars, queueLine, tmpList, callback, isInit, cb, rpc, host>>

ParseSet == SignalSet("pushed", "signal")
ParseSignal == SignalCond("signal", "none")

\* cancel: the callback is wiped out; a query that is still queued, settled
\* or not, goes at once, one that waits in callbackTmpList with its turn.
Cancel(q) ==
  /\ InProgram /\ q \in callback
  /\ callback' = callback \ {q}
  /\ queueLine' = Keep(queueLine, NotOf(q))
  /\ UNCHANGED <<mainVars, tmpList, isInit, signal, mstep, cb, rpc, host>>

\* OnAwakeCall: take the settled queries out of the queue under the mutex,
\* then call them back one by one.
Collected == Keep(queueLine, Answers)

Collect ==
  /\ mpc = "call" /\ assist = Parser /\ cb = "out"
  /\ tmpList' = Collected
  /\ queueLine' = Keep(queueLine, Waiting)
  /\ cb' = "loop"
  /\ UNCHANGED <<mainVars, callback, isInit, signal, mstep, rpc, host>>

CallBack(query) == IF query \in callback THEN query ELSE "loop"

CallNext ==
  /\ cb = "loop" /\ tmpList # <<>>
  /\ tmpList' = Tail(tmpList)
  /\ cb' = CallBack(Head(tmpList).query)
  /\ callback' = callback \ {cb'}
  /\ UNCHANGED <<mainVars, queueLine, isInit, signal, mstep, rpc, host>>

CallbackReturns ==
  /\ cb \in Queries /\ mstep = "none"
  /\ cb' = "loop"
  /\ UNCHANGED <<mainVars, queueLine, tmpList, callback, isInit, signal, mstep, rpc, host>>

OnAwakeCallReturns ==
  /\ cb = "loop" /\ tmpList = <<>> /\ CallDone
  /\ cb' = "out"
  /\ UNCHANGED <<queueLine, tmpList, callback, isInit, signal, mstep, rpc, host>>

\* ~JinDNSParser: mainUninit drops the queue, then takes isInit_ down and
\* sets the signal; stop joins the thread, and only then ~JinAssistThread
\* takes the parser out of awakeMap_.
MainUninit ==
  /\ mpc = "run" /\ mstep = "none" /\ isInit
  /\ queueLine' = <<>> /\ callback' = {}
  /\ mstep' = "dropped"
  /\ UNCHANGED <<mainVars, tmpList, isInit, signal, cb, rpc, host>>

MainUninitDown ==
  /\ mstep = "dropped" /\ mstep' = "down"
  /\ isInit' = FALSE
  /\ UNCHANGED <<mainVars, queueLine, tmpList, callback, signal, cb, rpc, host>>

UninitSet == SignalSet("down", "downSignal")
UninitSignal == SignalCond("downSignal", "join")

Joined_Not == TRUE

Joined == rpc = "exited"

Destroyed ==
  /\ mstep = "join" /\ Joined /\ Destroy(Parser)
  /\ mstep' = "over"
  /\ UNCHANGED <<queueLine, tmpList, callback, isInit, signal, cb, rpc, host>>

\* The rest of the main thread and of the other assists.
Others == Assists \ {Parser}

MainStep ==
  /\ mstep \in {"none", "over"}
  /\ \/ Sleep \/ Wake \/ WakeEarly \/ Take
     \/ (assist # Parser /\ CallDone)
     \/ \E a \in Others : Destroy(a)
  /\ UNCHANGED own

OtherAwakes == (\E a \in Others : Awaking(a)) /\ UNCHANGED own

-----------------------------------------------------------------------------
\* The parser's thread: period

At(from, to) == rpc = from /\ rpc' = to

RUnchanged == UNCHANGED <<queueLine, tmpList, callback, isInit, mstep, cb>>

\* signal_.wait(WAITUNTILWORLDEND).
EnterWait ==
  /\ At("enter", IF Passes(signal) THEN "pick" ELSE "wait")
  /\ signal' = Enter(signal)
  /\ UNCHANGED <<mainVars, host>> /\ RUnchanged

LeavesWait(condition) ==
  /\ condition /\ At("wait", "pick")
  /\ signal' = Leave(signal)
  /\ UNCHANGED <<mainVars, host>> /\ RUnchanged

WaitReturns == LeavesWait(signal.waiter = "woken")

WaitSpurious == LeavesWait(signal.waiter = "blocked" /\ (isInit \/ SpuriousBeforeInit))

\* The first query that has not been resolved, under the mutex.
Pick ==
  /\ host' = IF Keep(queueLine, Waiting) = <<>> THEN NULL
             ELSE Head(Keep(queueLine, Waiting)).domain
  /\ At("pick", IF host' = NULL THEN "test" ELSE "resolve")
  /\ UNCHANGED <<mainVars, signal>> /\ RUnchanged

\* parseDomain outside the mutex, then every queued query for the same name
\* is settled, whenever it came.
Settled(c, ok) ==
  IF IsQueued(c) /\ c.domain = host
  THEN [c EXCEPT !.state = IF ok THEN "Done" ELSE "Failed"] ELSE c

Resolve(ok) ==
  /\ At("resolve", "awake")
  /\ queueLine' = [k \in DOMAIN queueLine |-> Settled(queueLine[k], ok)]
  /\ UNCHANGED <<mainVars, signal, tmpList, callback, isInit, mstep, cb, host>>

\* awakeMainThread
ParserAwakes ==
  /\ \/ At("awake", "awaking") /\ DoAwake(Parser)
     \/ At("awaking", "awaking") /\ DoAwakeSet(Parser)
     \/ At("awaking", "again") /\ DoAwakeSignal(Parser)
  /\ UNCHANGED <<signal, host>> /\ RUnchanged

\* while(isInit_): after a name was resolved without another wait, after
\* none was found with one.
NextAfter_Waits(from) == "enter"

NextAfter(from) == IF from = "test" THEN "enter" ELSE "pick"

Loops(from) ==
  /\ At(from, IF isInit THEN NextAfter(from) ELSE "exited")
  /\ UNCHANGED <<mainVars, signal, host>> /\ RUnchanged

RNext ==
  \/ EnterWait \/ WaitReturns \/ Pick
  \/ \E ok \in BOOLEAN : Resolve(ok)
  \/ ParserAwakes
  \/ \E from \in {"test", "again"} : Loops(from)

-----------------------------------------------------------------------------
\* Steps of the main thread that come by themselves.
MNext ==
  \/ MainStep \/ MainInitDone \/ ParseSet \/ ParseSignal
  \/ Collect \/ CallNext \/ CallbackReturns \/ OnAwakeCallReturns
  \/ MainUninitDown \/ UninitSet \/ UninitSignal \/ Destroyed

\* What the program decides.
UNext ==
  \/ MainInitStart
  \/ \E q \in Queries : Cancel(q) \/ \E h \in Hosts : Parse(q, h)
  \/ MainUninit

Next == MNext \/ UNext \/ RNext \/ WaitSpurious \/ OtherAwakes

Spec == Init /\ [][Next]_vars

\* Program code returns: from a callback, or to the next sleep.
ProgramReturns ==
  \/ CallbackReturns
  \/ /\ mstep \in {"none", "over"}
     /\ Sleep \/ (assist # Parser /\ CallDone)
     /\ UNCHANGED own

\* What the main thread does by itself between two pieces of program code.
ByItself ==
  \/ MainInitDone \/ ParseSet \/ ParseSignal
  \/ Collect \/ CallNext \/ OnAwakeCallReturns
  \/ MainUninitDown \/ UninitSet \/ UninitSignal \/ Destroyed
  \/ /\ mstep \in {"none", "over"} /\ (Wake \/ Take)
     /\ UNCHANGED own

\* The map hands its entries out in the order they came in, unless two of
\* them share a bucket: the parser's entry is not passed over for ever.
ParserTaken == mpc = "take" /\ Take /\ assist' = Parser /\ UNCHANGED own

\* The threads are scheduled, and the program, whatever it asks and cancels
\* between and in its callbacks, goes on to return and to sleep.  No wait is
\* fair to end before its condition is signalled: nothing relies on timeouts.
FairSpec ==
  /\ Spec
  /\ SF_vars(ProgramReturns) /\ WF_vars(ByItself) /\ SF_vars(ParserTaken)
  /\ WF_vars(RNext) /\ WF_vars(OtherAwakes)

-----------------------------------------------------------------------------
\* No query is twice in a list.
Once(list) == \A i, j \in DOMAIN list : list[i].query = list[j].query => i = j

\* A query is in one place, each with its callback while the program still
\* waits for it: an answer is given once and never after cancel.
Places ==
  /\ Once(queueLine \o tmpList)
  /\ cb \notin QueriesOf(queueLine \o tmpList)
  /\ QueriesOf(queueLine) \subseteq callback
  /\ callback \subseteq QueriesOf(queueLine \o tmpList)
  /\ \A k \in DOMAIN tmpList : IsSettled(tmpList[k])
  /\ tmpList # <<>> => cb # "out"

\* The parser's thread does not sleep on a query: while it is blocked, the
\* main thread is still in the middle of the set that wakes it.
ParserWakes ==
  rpc = "wait" /\ signal.waiter = "blocked" /\ (\E c \in ToSet(queueLine) : IsQueued(c)) =>
    mstep \in {"pushed", "signal"}

\* Nor is an answer left lying in the queue: the parser is on its way to
\* awakeMap_, in it, or being called.
AnswerKnown ==
  (\E c \in ToSet(queueLine) : IsSettled(c)) =>
    rpc = "awake" \/ Parser \in awakeMap \/ (mpc = "call" /\ assist = Parser /\ cb = "out")

\* Destroyed once its thread is gone, the parser is never called again.
NoCallAfter ==
  mstep = "over" => rpc = "exited" /\ Parser \notin awakeMap /\ cb = "out"

ResolverInv ==
  TypeOK /\ MainTypeOK /\ Places /\ ParserWakes /\ AnswerKnown /\ NoCallAfter

\* Every query is answered or given up, though nothing times out.
Answered == \A q \in Watched : q \in callback ~> q \notin callback

\* The destructor returns: the thread sees that it has to end, wherever it is.
UninitEnds == mstep = "dropped" ~> mstep = "over"

\* What the parser does to the main thread is what any assist may do.
ImplementsMainThread == MainSpec
=============================================================================
