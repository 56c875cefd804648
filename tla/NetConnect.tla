----------------------------- MODULE NetConnect -----------------------------
(***************************************************************************)
(* How XNetEngine (jinraknet/XNetEngine.cpp) tells its caller which of its *)
(* connects succeeded or failed.  Connect and ConnectEx return a ConnID;   *)
(* ConnectingInfoMap remembers what it stands for, first a name that is    *)
(* being resolved or a peer that a helper introduces, then the address     *)
(* that came out of it; and _ProcPacket turns the packets of RakPeer,      *)
(* which speak of addresses and guids, back into the ConnID it reports.    *)
(*                                                                         *)
(* RakPeer is vendored: per address it is the connection state it reports  *)
(* on, driven by its own thread.  A peer has one address, and is named by  *)
(* it; its guid and its ConnID of a direct connect are that name too.      *)
(* ConnectEx is modelled for punch-through, not for proxies.               *)
(***************************************************************************)
EXTENDS Integers, Sequences, Functions

CONSTANTS
  Addrs,       \* peers
  Domains,     \* bound: ConnIDs of ConnectToDomain, each with its query's id
  Targets,     \* the peers that are reached with help
  Aid,         \* the helper of ConnectEx (aidID)
  Resolvable,  \* the peers that names resolve to
  BusyHelper,  \* whether the program connects to the helper's address with a request under way
  MaxPackets,  \* bound: packets waiting in RakPeer
  Watched,     \* bound: names and targets whose connects the liveness properties follow
  NULL

ASSUME NetAssumption ==
  /\ Targets \subseteq Addrs \ {Aid} /\ Aid \in Addrs /\ MaxPackets \in Nat
  /\ Resolvable \subseteq Addrs /\ BusyHelper \in BOOLEAN
  /\ Addrs \cap Domains = {} /\ NULL \notin Addrs \cup Domains
  /\ \A t \in Targets : <<t>> \notin Addrs \cup Domains \cup {NULL}

\* The ConnID of ConnectEx is made of the target's id.  (Its serial number is
\* put back to zero by every default-constructed ConnID, INetEngine.h:112.)
Ex(t) == <<t>>

ConnIDs == Addrs \cup Domains \cup {Ex(t) : t \in Targets}

VARIABLES
  info,      \* ConnectingInfoMap
  queue,     \* packets that RakPeer::Receive will return
  rak,       \* RakPeer's connection with each address
  nat,       \* targets with a punch-through request under way
  resolving, \* names being resolved
  peers,     \* PeerInfoMap
  waiting,   \* history: ConnIDs that were returned and not reported since
  forsaken   \* history: those whose answer was lost in a way named below

vars == <<info, queue, rak, nat, resolving, peers, waiting, forsaken>>

Statuses == {"Connecting", "ConnectingEx", "ConnectingMulti", "ConnOnAdvance", "DomainResolve"}

ConnInfo == [directConn : ConnIDs \cup {NULL}, targetID : Addrs \cup Domains \cup {NULL}, status : Statuses]

\* ACCEPTED stands for ALREADY_CONNECTED too, REFUSED for a wrong password or
\* version, ENDED for a connection that was lost or closed, SPECIFIC for the
\* failure of a name; the last two are punch-through's.
Types == {"ACCEPTED", "FAILED", "REFUSED", "INCOMING", "ENDED", "SPECIFIC", "SUCCEEDED", "NAT_FAILED"}

Packet == [type : Types, sa : Addrs \cup {NULL}, id : Addrs \cup Domains]

\* "silent" is a connection that was refused and is being dropped.
RakStates == {"none", "requested", "handshake", "connected", "closing", "silent"}

TypeOK ==
  /\ DOMAIN info \subseteq ConnIDs /\ \A c \in DOMAIN info : info[c] \in ConnInfo
  /\ queue \in Seq(Packet) /\ rak \in [Addrs -> RakStates]
  /\ nat \subseteq Targets /\ resolving \subseteq Domains /\ peers \subseteq Addrs
  /\ waiting \subseteq ConnIDs /\ forsaken \subseteq waiting

Init ==
  /\ info = [c \in {} |-> NULL] /\ queue = <<>> /\ rak = [a \in Addrs |-> "none"]
  /\ nat = {} /\ resolving = {} /\ peers = {} /\ waiting = {} /\ forsaken = {}

Without(map, ids) == Restrict(map, DOMAIN map \ ids)

Put(map, c, entry) == [x \in DOMAIN map \cup {c} |-> IF x = c THEN entry ELSE map[x]]

About(type, a) == [type |-> type, sa |-> a, id |-> a]

Entry(direct, target, status) == [directConn |-> direct, targetID |-> target, status |-> status]

Forsake(ids) == forsaken' = (forsaken \cup ids) \cap waiting'

-----------------------------------------------------------------------------
\* RakPeer::Connect refuses an address it has anything to do with already,
\* and the engine then posts the answer to itself.
Active(a) == rak[a] \in {"handshake", "connected", "closing", "silent"}

Attempt(a) ==
  IF Active(a)
  THEN queue' = Append(queue, About("ACCEPTED", a)) /\ UNCHANGED rak
  ELSE rak' = [rak EXCEPT ![a] = "requested"] /\ UNCHANGED queue

\* The ConnIDs that the entry of an address answers.
OwnersIn(map, a) ==
  IF a \notin DOMAIN map THEN {}
  ELSE CASE map[a].status = "DomainResolve" -> {map[a].directConn}
         [] map[a].status = "ConnectingMulti" -> {a, map[a].directConn}
         [] map[a].status = "ConnOnAdvance" -> {Ex(map[a].targetID)}
         [] OTHER -> {a}

Owners(a) == OwnersIn(info, a)

Dead(a) == Owners(a) \cap forsaken # {}

\* An answer of the helper about the target is to come.
NatIn(q, t) == \E k \in DOMAIN q : q[k].type \in {"SUCCEEDED", "NAT_FAILED"} /\ q[k].id = t

NatPending(t) == t \in nat \/ NatIn(queue, t)

\* A result about the address is on its way, or two.
Result(p, a) == p.type \in {"ACCEPTED", "FAILED", "REFUSED"} /\ p.sa = a

ResultIn(q, a) == \E k \in DOMAIN q : Result(q[k], a)

TwoIn(q, a) == \E k, j \in DOMAIN q : k # j /\ Result(q[k], a) /\ Result(q[j], a)

Trying(a) == rak[a] \in {"requested", "handshake"}

Pending(a) == Trying(a) \/ ResultIn(queue, a)

PendingTwice(a) == (Trying(a) /\ ResultIn(queue, a)) \/ TwoIn(queue, a)

\* The first result about an address is told to the owners of its entry, and the
\* next one to ConnectEx of the peer.
OneForEx(t) == IF t \in DOMAIN info THEN PendingTwice(t) ELSE Pending(t)

\* Those that no result is left for.
Unanswered(a) ==
  (IF Pending(a) THEN {} ELSE Owners(a))
    \cup (IF a \in Targets /\ ~NatPending(a) /\ ~OneForEx(a) THEN {Ex(a)} \ Owners(a) ELSE {})

\* Connect of an address, or of a name that JinDNS has cached: whatever entry
\* the address had is overwritten.
Connect(a) ==
  /\ a = Aid => BusyHelper \/ \A t \in Targets : ~NatPending(t)
  /\ Attempt(a)
  /\ info' = Put(info, a, Entry(a, IF Active(a) THEN a ELSE NULL, "Connecting"))
  /\ waiting' = waiting \cup {a}
  /\ UNCHANGED <<nat, resolving, peers>>
  /\ forsaken' = ((forsaken \cup Owners(a) \cup Unanswered(a)') \cap waiting') \ {a}

\* ConnectToDomain.  Its serial number makes the ConnID a new one.
Unused(d) == d \notin DOMAIN info \cup waiting

ConnectToDomain(d) ==
  /\ Unused(d)
  /\ info' = Put(info, d, Entry(NULL, d, "DomainResolve"))
  /\ resolving' = resolving \cup {d}
  /\ waiting' = waiting \cup {d}
  /\ UNCHANGED <<queue, rak, nat, peers, forsaken>>

\* ConnectEx by punch-through, one at a time for a target: if the helper is
\* gone it returns 0, and leaves no entry.
ConnectEx(t) ==
  /\ Aid \in peers /\ t \notin nat /\ Ex(t) \notin waiting
  /\ IF rak[t] = "connected" \/ rak[Aid] = "connected"
     THEN /\ info' = Put(info, Ex(t), Entry(NULL, t, "ConnectingEx"))
          /\ waiting' = waiting \cup {Ex(t)}
     ELSE info' = Without(info, {Ex(t)}) /\ UNCHANGED waiting
  /\ IF rak[t] = "connected"
     THEN queue' = Append(queue, About("ACCEPTED", t)) /\ UNCHANGED nat
     ELSE nat' = (IF rak[Aid] = "connected" THEN nat \cup {t} ELSE nat) /\ UNCHANGED queue
  /\ Forsake(IF Dead(t) THEN {Ex(t)} ELSE {})
  /\ UNCHANGED <<rak, resolving, peers>>

\* Close of a peer.  A handshake that is under way on an address whose last
\* connection is still listed is given up without an answer.
Close(a) ==
  /\ a \in peers
  /\ peers' = peers \ {a}
  /\ rak' = [rak EXCEPT ![a] = IF Active(a) THEN "closing" ELSE @]
  /\ UNCHANGED <<info, queue, resolving, waiting>>
  /\ nat' = (IF a = Aid THEN {} ELSE nat)
  /\ Forsake((IF rak[a] = "handshake" THEN Unanswered(a)' ELSE {}) \cup {Ex(t) : t \in nat \ nat'})

\* OnDnsParsed, called back by JinDNS: the name failed (NULL), or its address
\* is waited for already, by a direct connect that it joins or by anything
\* else, or it is connected to.
NameFails(d, a) ==
  a = NULL \/ (a \in DOMAIN info /\ info[a].status # "Connecting")

Linked_NoWayBack(d, a, status) ==
  Put([info EXCEPT ![d].directConn = a], a, Entry(a, d, status))

Linked(d, a, status) ==
  Put([info EXCEPT ![d].directConn = a], a, Entry(d, d, status))

OnDnsParsed(d, a) ==
  /\ d \in resolving
  /\ resolving' = resolving \ {d}
  /\ UNCHANGED <<nat, peers, waiting>>
  /\ \/ /\ NameFails(d, a)
        /\ queue' = Append(queue, [type |-> "SPECIFIC", sa |-> NULL, id |-> d])
        /\ info' = Without(info, {d}) /\ UNCHANGED rak
     \/ /\ ~NameFails(d, a) /\ a \in DOMAIN info
        /\ info' = Linked(d, a, "ConnectingMulti") /\ UNCHANGED <<queue, rak>>
     \/ /\ ~NameFails(d, a) /\ a \notin DOMAIN info
        /\ info' = Linked(d, a, "DomainResolve") /\ Attempt(a)
  /\ Forsake(IF NameFails(d, a) THEN {} ELSE (IF Dead(a) THEN {d} ELSE {}) \cup Unanswered(a)')

-----------------------------------------------------------------------------
\* _GetConnID: what a packet from sa about the peer g is an answer to.  By the
\* address first, through the entry that led to it; else by the peer.
ByPeer_Any(map, g) == {c \in DOMAIN map : map[c].targetID # NULL}

ByPeer(map, g) == {c \in DOMAIN map : map[c].targetID = g}

Outcome(id, map, again) == [id |-> id, map |-> map, again |-> again]

FoundByPeer(map, g) ==
  IF ByPeer(map, g) = {} THEN {Outcome(NULL, map, FALSE)}
  ELSE {Outcome(c, Without(map, {c}), FALSE) : c \in ByPeer(map, g)}

\* The name is told now, and the direct connect it joined by the same packet,
\* posted again.
FirstOfTwo(sa, g) ==
  Outcome(info[sa].directConn, [info EXCEPT ![sa] = Entry(sa, g, "Connecting")], TRUE)

GetConnID(sa, g) ==
  IF sa \notin DOMAIN info THEN FoundByPeer(info, g)
  ELSE CASE info[sa].status = "ConnOnAdvance" ->
              FoundByPeer(Without(info, {sa}), info[sa].targetID)
         [] info[sa].status = "DomainResolve" ->
              {Outcome(info[sa].directConn, Without(info, {sa, info[sa].directConn}), FALSE)}
         [] info[sa].status = "ConnectingMulti" -> {FirstOfTwo(sa, g)}
         [] OTHER -> {Outcome(sa, Without(info, {sa}), FALSE)}

\* A refusal closes what RakPeer has of the address by now, which tells the
\* engine only of a connection.
CloseRefused(p) ==
  IF p.type = "REFUSED" /\ Active(p.sa) THEN [rak EXCEPT ![p.sa] = "none"] ELSE rak

Lost(p) == p.type = "REFUSED" /\ rak[p.sa] = "connected"

Answer(p, o) ==
  /\ info' = o.map
  /\ queue' = Tail(queue) \o (IF o.again THEN <<p>> ELSE <<>>)
                         \o (IF Lost(p) THEN <<About("ENDED", p.sa)>> ELSE <<>>)
  /\ waiting' = waiting \ {o.id}
  /\ rak' = CloseRefused(p)

\* A failure of punch-through is looked for by address too, the target's or
\* that of the helper that reports it, and then by the target: it may be taken
\* for the answer to a direct connect to one of them.
Misled(p, o) == p.type = "NAT_FAILED" /\ o.id # Ex(p.id)

\* A refusal may come when the address is tried again: that attempt is closed.
Told(p) ==
  /\ p.type \in {"ACCEPTED", "FAILED", "REFUSED", "NAT_FAILED"}
  /\ \E o \in GetConnID(p.sa, p.id), a \in {p.sa} :
       /\ Answer(p, o)
       /\ Forsake((IF Misled(p, o) THEN {Ex(p.id)} ELSE {})
                    \cup (IF p.type = "REFUSED" /\ rak[a] = "handshake" THEN Unanswered(a)' ELSE {}))
  /\ peers' = (IF p.type = "ACCEPTED" THEN peers \cup {p.sa} ELSE peers)

NameFailed(p) ==
  /\ p.type = "SPECIFIC"
  /\ waiting' = waiting \ {p.id}
  /\ queue' = Tail(queue)
  /\ Forsake({}) /\ UNCHANGED <<info, rak, peers>>

Listed(p) ==
  /\ p.type \in {"INCOMING", "ENDED"}
  /\ peers' = (IF p.type = "ENDED" THEN peers \ {p.sa} ELSE peers \cup {p.sa})
  /\ queue' = Tail(queue)
  /\ UNCHANGED <<info, rak, waiting, forsaken>>

\* The way to the target is open: connect to it, over whatever entry its
\* address has, unless nobody waits for it any more.
Advanced_Plain(t, c) ==
  Put([info EXCEPT ![c].directConn = t], t, Entry(t, IF Active(t) THEN t ELSE NULL, "Connecting"))

Advanced(t, c) ==
  Put([info EXCEPT ![c].directConn = t], t, Entry(t, t, "ConnOnAdvance"))

Punched(p) ==
  /\ p.type = "SUCCEEDED"
  /\ UNCHANGED <<peers, waiting>>
  /\ IF ByPeer(info, p.id) = {}
     THEN queue' = Tail(queue) /\ UNCHANGED <<info, rak, forsaken>>
     ELSE /\ \E c \in ByPeer(info, p.id) : info' = Advanced(p.id, c)
          /\ IF Active(p.id)
             THEN queue' = Append(Tail(queue), About("ACCEPTED", p.id)) /\ UNCHANGED rak
             ELSE rak' = [rak EXCEPT ![p.id] = "requested"] /\ queue' = Tail(queue)
          /\ Forsake(Owners(p.id) \ {Ex(p.id)})

\* _ProcPacket
ProcPacket ==
  /\ queue # <<>>
  /\ UNCHANGED <<nat, resolving>>
  /\ LET p == Head(queue) IN Told(p) \/ NameFailed(p) \/ Listed(p) \/ Punched(p)

-----------------------------------------------------------------------------
\* RakPeer's thread

EngineKeeps == UNCHANGED <<info, resolving, peers, waiting>>

Room == Len(queue) < MaxPackets

RakGoes(a, from, to) == rak[a] \in from /\ rak' = [rak EXCEPT ![a] = to]

Handshake(a) ==
  RakGoes(a, {"requested"}, "handshake") /\ EngineKeeps /\ UNCHANGED <<queue, nat, forsaken>>

Reports(a, from, to, type) ==
  /\ Room /\ RakGoes(a, from, to)
  /\ queue' = Append(queue, About(type, a))
  /\ EngineKeeps /\ UNCHANGED <<nat, forsaken>>

Accepted(a) == Reports(a, {"handshake"}, "connected", "ACCEPTED")
AttemptFails(a) == Reports(a, {"requested", "handshake"}, "none", "FAILED")
Refused(a) ==
  Reports(a, {"requested"}, "none", "REFUSED") \/ Reports(a, {"handshake"}, "silent", "REFUSED")
Incoming(a) == a # Aid /\ Reports(a, {"none"}, "connected", "INCOMING")
Closed(a) == Reports(a, {"closing"}, "none", "ENDED")

Dropped(a) ==
  RakGoes(a, {"silent"}, "none") /\ EngineKeeps /\ UNCHANGED <<queue, nat, forsaken>>

\* A connection is lost, or its other end closes it.  Requests that the helper
\* has not answered die with its connection.
ConnectionEnds(a) ==
  /\ \/ /\ Room /\ RakGoes(a, {"connected"}, "none")
        /\ queue' = Append(queue, About("ENDED", a))
     \/ RakGoes(a, {"connected"}, "closing") /\ UNCHANGED queue
  /\ EngineKeeps
  /\ nat' = (IF a = Aid THEN {} ELSE nat)
  /\ Forsake({Ex(t) : t \in nat \ nat'})

\* Punch-through succeeds or fails, in front of everything that waits, or the
\* helper refuses it.
NatAnswers(t) ==
  /\ Room /\ t \in nat /\ nat' = nat \ {t}
  /\ \/ \E type \in {"SUCCEEDED", "NAT_FAILED"} : queue' = <<About(type, t)>> \o queue
     \/ queue' = Append(queue, [type |-> "NAT_FAILED", sa |-> Aid, id |-> t])
  /\ EngineKeeps /\ UNCHANGED <<rak, forsaken>>

-----------------------------------------------------------------------------
Program ==
  /\ Room
  /\ \/ \E a \in Addrs : Connect(a) \/ Close(a)
     \/ \E d \in Domains : ConnectToDomain(d)
     \/ \E t \in Targets : ConnectEx(t)

Resolved == Room /\ \E d \in Domains, a \in Resolvable \cup {NULL} : OnDnsParsed(d, a)

Attempts(a) == Accepted(a) \/ AttemptFails(a) \/ Refused(a)

Network ==
  \/ \E a \in Addrs :
       Handshake(a) \/ Attempts(a) \/ Incoming(a) \/ Closed(a) \/ Dropped(a) \/ ConnectionEnds(a)
  \/ \E t \in Targets : NatAnswers(t)

Next == Program \/ Resolved \/ ProcPacket \/ Network

Spec == Init /\ [][Next]_vars

\* Packets are received, attempts end (RakPeer bounds their number and time),
\* names are resolved or given up (module Resolver) and the helper answers.  What
\* NAT puts in front of the queue does not keep the rest from being received.
Other == ProcPacket /\ Head(queue).type \notin {"SUCCEEDED", "NAT_FAILED"}

FairSpec ==
  /\ Spec
  /\ WF_vars(ProcPacket) /\ SF_vars(Other)
  /\ \A a \in Addrs : SF_vars(Attempts(a))
  /\ \A d \in Domains : SF_vars(Room /\ \E a \in Resolvable \cup {NULL} : OnDnsParsed(d, a))
  /\ \A t \in Targets : SF_vars(NatAnswers(t))

-----------------------------------------------------------------------------
Queued(type, a) == \E k \in DOMAIN queue : queue[k] = About(type, a)

\* Every entry of an address leads to the ConnID that it was made for, and a
\* result about its address is on its way.
EntriesLead ==
  \A a \in Addrs \cap DOMAIN info :
    /\ a \in waiting \ forsaken => Pending(a)
    /\ info[a].status \in {"DomainResolve", "ConnectingMulti"} => info[a].directConn \in DOMAIN info

\* No caller waits for nothing: behind each ConnID that was returned there is
\* a name being resolved, a request to the helper or a result on its way, and
\* the entries through which it will be found.
Sourced(c) ==
  \/ c \in Addrs /\ c \in DOMAIN info /\ c \in Owners(c) /\ Pending(c)
  \/ c \in Domains /\ c \in resolving /\ c \in DOMAIN info
  \/ c \in Domains /\ \E k \in DOMAIN queue : queue[k].type = "SPECIFIC" /\ queue[k].id = c
  \/ c \in DOMAIN info /\ \E a \in Addrs : c \in Owners(a) /\ Pending(a)
  \/ \E t \in Targets : c = Ex(t) /\ c \in DOMAIN info /\ (NatPending(t) \/ OneForEx(t))

NobodyWaitsInVain == \A c \in waiting \ forsaken : Sourced(c)

\* A connected peer is listed, or about to be.
Connected(a) ==
  rak[a] = "connected" => a \in peers \/ Queued("ACCEPTED", a) \/ Queued("INCOMING", a)

NetInv == TypeOK /\ EntriesLead /\ NobodyWaitsInVain /\ \A a \in Addrs : Connected(a)

\* What a ConnID is told is about the peer that it stands for, whatever else
\* is being connected.
StandsFor(c, p) ==
  \/ p.type = "SPECIFIC" /\ p.id = c
  \/ c = p.id \/ c = Ex(p.id)
  \/ c \in Domains \cap DOMAIN info /\ info[c].directConn = p.id

RightPeer ==
  [][\A c \in waiting \ waiting' : StandsFor(c, Head(queue))]_vars

Followed == (Watched \cap Domains) \cup {Ex(t) : t \in Watched \cap Targets}

\* A program that connects to one address again and again, by its name or not,
\* can take the results meant for ConnectEx as fast as they come.
Asks == (\E a \in Addrs : Connect(a)) \/ \E d \in Domains : ConnectToDomain(d)

\* Every connect by name or with help is reported once the program connects to
\* nothing else, but for those whose answer is lost in one of the ways that
\* forsaken names.
Answered ==
  <>[][~Asks]_vars => \A c \in Followed : c \in waiting ~> c \notin waiting \ forsaken

\* Every ConnID is reported, which is what it is returned for: "to tell, when
\* a connection succeeds or fails, which one it was" (jinraknet/INetEngine.h).
EachAnswered == \A c \in Followed : c \in waiting ~> c \notin waiting
=============================================================================
