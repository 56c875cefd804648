-------------------------------- MODULE Tunnel --------------------------------
(***************************************************************************)
(* The tunnels of one session between the browsers' end (xlors/xlord.cpp   *)
(* with its proxy assistant) and the targets' end (xlors/xlorb.cpp with    *)
(* its sockets, xlors/xlors_socket.cpp): from the accept of a browser,     *)
(* through the request and the connection to its target, data both ways    *)
(* and the change of target, to the closes, which may cross.               *)
(*                                                                         *)
(* Between the ends there is one reliable ordered stream each way.  The    *)
(* window that these streams share is module FlowControl; here a socket    *)
(* that is held back is a socket whose next recv takes its time.           *)
(***************************************************************************)
EXTENDS Integers, Sequences, FiniteSets

CONSTANTS
  Browsers,     \* ProxyClientInfo objects
  Targets,      \* hosts that browsers ask for
  Names,        \* those that are domain names, not addresses
  Cached,       \* names that JinDNS answers from its cache
  Unreachable,  \* targets to which connect fails at once
  Kinds,        \* of proxy requests: "HTTP", "HTTPS", "SOCK"
  Forwards,     \* targets of forwarding ports
  Malformed,    \* whether browsers send requests that are refused
  Loss,         \* whether the network can lose the session
  maxConnPipe,
  MaxTunnid,    \* bound: tunnel ids are not used again (they are 16 bits wide)
  MaxChunks     \* bound: fragments of a browser, or of a target, per tunnel

ASSUME TunnelAssumption ==
  /\ Names \subseteq Targets /\ Cached \subseteq Names /\ Unreachable \subseteq Targets
  /\ Forwards \subseteq Targets
  /\ Kinds \subseteq {"HTTP", "HTTPS", "SOCK"}
  /\ Malformed \in BOOLEAN /\ Loss \in BOOLEAN
  /\ maxConnPipe \in Nat /\ MaxTunnid \in Nat /\ MaxChunks \in Nat

VARIABLES
  info,            \* of each browser: its ProxyClientInfo
  tunnidAssigner,
  toAdmit,         \* messages to xlorb
  toFinder,        \* messages to xlord
  tunnSock,        \* of each tunnel id: xlorb's socket
  finder,          \* xlord's session: "up" or "closed"
  admit            \* xlorb's session: "up", "dropped" (by DoClose) or "closed"

vars == <<info, tunnidAssigner, toAdmit, toFinder, tunnSock, finder, admit>>

Tunnids == 1..MaxTunnid

Waiting  == {"WaitOpenTo", "WaitOpenToLargePost"}
Proxying == {"ProxyTo", "ProxyToLargePost"}

\* said: fragments the browser has sent on this tunnel, of which the last `cached`
\* are still here; heard: fragments of the target that it was sent.
NoInfo == [state |-> "none", proxyType |-> "none", tunnid |-> 0, target |-> "none",
           said |-> 0, cached |-> 0, heard |-> 0, reading |-> FALSE, closing |-> FALSE]

NoSock == [st |-> "none", target |-> "none", heard |-> 0, said |-> 0, closing |-> FALSE]

TypeOK ==
  /\ info \in [Browsers ->
       [state : {"none", "WaitTarget", "HandShakeOK"} \cup Waiting \cup Proxying,
        proxyType : {"none", "HTTP", "HTTPS", "FORWARD", "SOCK"},
        tunnid : 0..MaxTunnid, target : Targets \cup {"none"},
        said : Nat, cached : Nat, heard : Nat, reading : BOOLEAN, closing : BOOLEAN]]
  /\ tunnidAssigner \in 0..MaxTunnid
  /\ tunnSock \in [Tunnids ->
       [st : {"none", "resolving", "cancelled", "connecting", "connected", "deleted"},
        target : Targets \cup {"none"}, heard : Nat, said : Nat, closing : BOOLEAN]]
  /\ finder \in {"up", "closed"} /\ admit \in {"up", "dropped", "closed"}
  /\ \A i \in DOMAIN toAdmit :
       toAdmit[i].op \in {"OpenTo", "DataTransfer", "CloseTunnel"} /\ toAdmit[i].tid \in Tunnids
  /\ \A i \in DOMAIN toFinder :
       /\ toFinder[i].op \in {"RtnOpenTo", "ConnDone", "ConnAbort", "DataTransfer"}
       /\ toFinder[i].tid \in Tunnids

Init ==
  /\ info = [b \in Browsers |-> NoInfo]
  /\ tunnidAssigner = 0
  /\ toAdmit = <<>> /\ toFinder = <<>>
  /\ tunnSock = [t \in Tunnids |-> NoSock]
  /\ finder = "up" /\ admit = "up"

-----------------------------------------------------------------------------
(* Messages.  DataTransfer carries the fragments from first to last.       *)

OpenTo(t, tar, n)    == [op |-> "OpenTo", tid |-> t, target |-> tar, last |-> n]
CloseTunnel(t)       == [op |-> "CloseTunnel", tid |-> t]
Data(t, f, l)        == [op |-> "DataTransfer", tid |-> t, first |-> f, last |-> l]
RtnOpenTo(t, ok)     == [op |-> "RtnOpenTo", tid |-> t, ok |-> ok]
ConnDone(t, ok)      == [op |-> "ConnDone", tid |-> t, ok |-> ok]
ConnAbort(t)         == [op |-> "ConnAbort", tid |-> t]
TargetData(t, n, tar) == [op |-> "DataTransfer", tid |-> t, first |-> n, last |-> n, from |-> tar]

\* What is sent once the other end is gone is lost.
SendToAdmit(ms)  == toAdmit'  = IF finder = "up" /\ admit = "up" THEN toAdmit \o ms ELSE toAdmit
SendToFinder(ms) == toFinder' = IF finder = "up" /\ admit = "up" THEN toFinder \o ms ELSE toFinder

-----------------------------------------------------------------------------
(* The browsers' end: what the proxy assistant makes of what a browser     *)
(* sends.  An outcome is the browser's new info, the messages sent, whether *)
(* to receive again, and the last id assigned.                             *)

\* The next id; the info's own is free again when its target changes.
NextTunnid_Same(i) ==                                                  \* mutant
  IF i.target = "none" THEN tunnidAssigner + 1 ELSE i.tunnid
NextTunnid(i) == tunnidAssigner + 1

Outcome(i, ms, ok) == [info |-> i, send |-> ms, ok |-> ok, assigner |-> tunnidAssigner]

\* ReplySpecialCode and CloseIncoming: the disconnect is posted.
Closed(i)  == [i EXCEPT !.closing = TRUE]
Refused(i) == IF Malformed THEN {Outcome(Closed(i), <<>>, FALSE)} ELSE {}

WaitState(large)  == IF large THEN "WaitOpenToLargePost" ELSE "WaitOpenTo"
ProxyState(large) == IF large THEN "ProxyToLargePost" ELSE "ProxyTo"

\* A request of an HTTP browser is the first fragment of its tunnel.
Requesting(i, kind, tar, large) ==
  LET n == IF kind = "HTTP" THEN 1 ELSE 0
  IN [i EXCEPT !.state = WaitState(large), !.proxyType = kind, !.target = tar,
               !.said = n, !.cached = 0, !.heard = 0]

\* ProxyDoOpenTo(info, false)
Opened(i, kind, tar, large) ==
  LET j == Requesting(i, kind, tar, large)
  IN Outcome(j, <<OpenTo(i.tunnid, tar, j.said)>>, TRUE)

\* ProxyDoOpenTo(info, true): a new tunnel for a new target.
Changed(i, tar, large) ==
  LET t == NextTunnid(i)
      j == [Requesting(i, "HTTP", tar, large) EXCEPT !.tunnid = t]
  IN [Outcome(j, <<CloseTunnel(i.tunnid), OpenTo(t, tar, 1)>>, TRUE) EXCEPT !.assigner = t]

\* Everything cached goes to the target.
Sent(i, state) ==
  Outcome([i EXCEPT !.state = state, !.cached = 0],
          <<Data(i.tunnid, i.said - i.cached + 1, i.said)>>, TRUE)

\* A first request opens the tunnel; a further one, whose state is ProxyTo, is for the
\* same target or for another.  Either may be incomplete.
HandleProxyHeadHTTP(i, kind) ==
  {Outcome(i, <<>>, TRUE)} \cup Refused(i)
    \cup (IF i.state \notin Proxying
          THEN {Opened(i, kind, tar, large) :
                  tar \in Targets, large \in IF kind = "HTTP" THEN BOOLEAN ELSE {FALSE}}
          ELSE {Sent(i, ProxyState(large)) : large \in BOOLEAN}
                 \cup (IF tunnidAssigner < MaxTunnid
                       THEN {Changed(i, tar, large) :
                               tar \in Targets \ {i.target}, large \in BOOLEAN}
                       ELSE {}))

\* SOCKS 4 and 5, of which 5 shakes hands first.  A part of a request is refused.
HandleProxyHeadSOCK(i) ==
  Refused(i) \cup {Opened(i, "SOCK", tar, FALSE) : tar \in Targets}
    \cup (IF i.state = "WaitTarget"
          THEN {Outcome([i EXCEPT !.state = "HandShakeOK"], <<>>, TRUE)} ELSE {})

HandleProxyHead(i) ==
  UNION {IF k = "SOCK" THEN HandleProxyHeadSOCK(i) ELSE HandleProxyHeadHTTP(i, k) : k \in Kinds}

\* More of a large post: all of it belongs to the post, which may be complete, or
\* its last byte is followed by others, which are cached.
LargePost(i) ==
  LET done == IF i.state = "ProxyToLargePost" THEN "ProxyTo" ELSE "WaitOpenTo"
  IN {Sent(i, i.state), Sent(i, done)}
       \cup (IF i.said < MaxChunks
             THEN {[Sent(i, done) EXCEPT !.info.said = i.said + 1, !.info.cached = 1]}
             ELSE {})

OnProxyRecv(i) ==
  CASE i.state \notin Waiting \cup Proxying -> HandleProxyHead(i)
    [] i.state = "WaitOpenTo" -> {Outcome(i, <<>>, TRUE)}
    [] i.state \in {"WaitOpenToLargePost", "ProxyToLargePost"} -> LargePost(i)
    [] i.state = "ProxyTo" /\ i.proxyType = "HTTP" -> HandleProxyHeadHTTP(i, "HTTP")
    [] i.state = "ProxyTo" /\ i.proxyType # "HTTP" -> {Sent(i, "ProxyTo")}

-----------------------------------------------------------------------------
(* The browsers' end: its sockets.                                         *)

Present(b) == info[b].state # "none"

Accepted(t) == [NoInfo EXCEPT !.state = "WaitTarget", !.tunnid = t, !.reading = TRUE]

\* On the proxy's port, or on a forwarding port, which makes up a CONNECT request.
OnAccept(b) ==
  LET t == NextTunnid(NoInfo)
  IN /\ finder = "up" /\ ~Present(b) /\ tunnidAssigner < MaxTunnid
     /\ tunnidAssigner' = t
     /\ \/ /\ info' = [info EXCEPT ![b] = Accepted(t)]
           /\ UNCHANGED toAdmit
        \/ \E tar \in Forwards :
             LET r == Opened(Accepted(t), "FORWARD", tar, FALSE)
             IN info' = [info EXCEPT ![b] = r.info] /\ SendToAdmit(r.send)
     /\ UNCHANGED <<toFinder, tunnSock, finder, admit>>

\* A fragment is counted once the tunnel has been asked for.
Given(i) == IF i.state \in Waiting \cup Proxying
            THEN [i EXCEPT !.said = @ + 1, !.cached = @ + 1] ELSE i

OnRecv(b) ==
  /\ Present(b) /\ info[b].reading /\ info[b].said < MaxChunks
  /\ \E r \in OnProxyRecv(Given(info[b])) :
       /\ info' = [info EXCEPT ![b] = [r.info EXCEPT !.reading = r.ok]]
       /\ tunnidAssigner' = r.assigner
       /\ SendToAdmit(r.send)
  /\ UNCHANGED <<toFinder, tunnSock, finder, admit>>

\* The browser has gone (its recv ends), or the posted disconnect is done.
OnDisconnect_Quiet(b, byRemote) ==                                     \* mutant
  /\ Present(b)
  /\ IF byRemote THEN info[b].reading ELSE info[b].closing
  /\ info' = [info EXCEPT ![b] = NoInfo]
  /\ SendToAdmit(IF byRemote /\ info[b].state \in Proxying
                 THEN <<CloseTunnel(info[b].tunnid)>> ELSE <<>>)
  /\ UNCHANGED <<tunnidAssigner, toFinder, tunnSock, finder, admit>>

OnDisconnect(b, byRemote) ==
  /\ Present(b)
  /\ IF byRemote THEN info[b].reading ELSE info[b].closing
  /\ info' = [info EXCEPT ![b] = NoInfo]
  /\ SendToAdmit(IF byRemote /\ info[b].state \in Waiting \cup Proxying
                 THEN <<CloseTunnel(info[b].tunnid)>> ELSE <<>>)
  /\ UNCHANGED <<tunnidAssigner, toFinder, tunnSock, finder, admit>>

-----------------------------------------------------------------------------
(* The browsers' end: messages of xlorb.                                   *)

\* The message m for browser b.
ToBrowser(m, b) == Present(b) /\ info[b].tunnid = m.tid

OnFinderRtnOpenTo_Waits(m, b) == UNCHANGED <<info, tunnidAssigner, toAdmit>>  \* mutant
OnFinderRtnOpenTo(m, b) ==
  /\ info' = IF m.ok /\ info[b].state \in Waiting THEN info
             ELSE [info EXCEPT ![b] = Closed(info[b])]
  /\ UNCHANGED <<tunnidAssigner, toAdmit>>

\* A SOCK reply is made up in `cached`, in the place of what the browser has sent
\* meanwhile; for the others that is handled now.
Done_Clears(i) ==                                                      \* mutant
  [i EXCEPT !.state = ProxyState(i.state = "WaitOpenToLargePost"), !.cached = 0]
Done(i) ==
  [i EXCEPT !.state = ProxyState(i.state = "WaitOpenToLargePost"),
            !.cached = IF i.proxyType = "SOCK" THEN 0 ELSE i.cached]

Flushed(i) == IF i.cached > 0 THEN OnProxyRecv(i) ELSE {Outcome(i, <<>>, TRUE)}

OnFinderConnDone(m, b) ==
  IF info[b].state \in Waiting /\ m.ok
  THEN \E r \in Flushed(Done(info[b])) :
         /\ info' = [info EXCEPT ![b] = r.info]
         /\ tunnidAssigner' = r.assigner
         /\ SendToAdmit(r.send)
  ELSE /\ info' = [info EXCEPT ![b] = Closed(info[b])]
       /\ UNCHANGED <<tunnidAssigner, toAdmit>>

OnFinderConnAbort(m, b) ==
  /\ info' = [info EXCEPT ![b] = Closed(info[b])]
  /\ UNCHANGED <<tunnidAssigner, toAdmit>>

OnFinderDataTransfer(m, b) ==
  /\ info' = [info EXCEPT ![b].heard = m.last]
  /\ UNCHANGED <<tunnidAssigner, toAdmit>>

OnFinderMessage ==
  LET m == Head(toFinder)
  IN /\ finder = "up" /\ toFinder # <<>>
     /\ toFinder' = Tail(toFinder)
     /\ \/ /\ \A b \in Browsers : ~ToBrowser(m, b)
           /\ UNCHANGED <<info, tunnidAssigner, toAdmit>>
        \/ \E b \in Browsers :
             /\ ToBrowser(m, b)
             /\ \/ m.op = "RtnOpenTo" /\ OnFinderRtnOpenTo(m, b)
                \/ m.op = "ConnDone" /\ OnFinderConnDone(m, b)
                \/ m.op = "ConnAbort" /\ OnFinderConnAbort(m, b)
                \/ m.op = "DataTransfer" /\ OnFinderDataTransfer(m, b)
     /\ UNCHANGED <<tunnSock, finder, admit>>

\* XLord::OnClose: every browser is disconnected, and the program ends.
FinderClose ==
  /\ finder = "up" /\ (Loss \/ admit # "up")
  /\ finder' = "closed"
  /\ info' = [b \in Browsers |-> IF Present(b) THEN Closed(info[b]) ELSE info[b]]
  /\ UNCHANGED <<tunnidAssigner, toAdmit, toFinder, tunnSock, admit>>

-----------------------------------------------------------------------------
(* The targets' end: messages of xlord.                                    *)

Has(t) == tunnSock[t].st # "none"

\* doConnect: what a socket is after it, or "failed".  A cached name that cannot be
\* connected to has reported OnDisconnect, which deletes the socket.
Connecting(tar) ==
  IF tar \notin Names THEN IF tar \in Unreachable THEN "failed" ELSE "connecting"
  ELSE IF tar \notin Cached THEN "resolving"
  ELSE IF tar \in Unreachable THEN "deleted" ELSE "connecting"

OnAdmitOpenTo(m) ==
  LET t  == m.tid
      st == Connecting(m.target)
      refuse == SendToFinder(<<RtnOpenTo(t, FALSE)>>) /\ UNCHANGED tunnSock
  IN \/ /\ Cardinality({u \in Tunnids : Has(u)}) >= maxConnPipe
        /\ refuse /\ UNCHANGED admit
     \/ /\ Cardinality({u \in Tunnids : Has(u)}) < maxConnPipe
        /\ Has(t) \/ st = "failed"
        /\ refuse /\ admit' = "dropped"
     \/ /\ Cardinality({u \in Tunnids : Has(u)}) < maxConnPipe
        /\ ~Has(t) /\ st # "failed"
        /\ tunnSock' = [tunnSock EXCEPT ![t] =
             [NoSock EXCEPT !.st = st, !.target = m.target, !.heard = m.last]]
        /\ SendToFinder((IF st = "deleted" THEN <<ConnAbort(t)>> ELSE <<>>)
                        \o <<RtnOpenTo(t, TRUE)>>)
        /\ UNCHANGED admit

\* Sent to the target, or cached until it is connected.
OnAdmitDataTransfer(m) ==
  /\ tunnSock' = IF Has(m.tid) THEN [tunnSock EXCEPT ![m.tid].heard = m.last] ELSE tunnSock
  /\ UNCHANGED <<toFinder, admit>>

\* doDisconnect: while the name is being resolved the request is cancelled, and
\* that is all.
OnAdmitCloseTunnel(m) ==
  LET s == tunnSock[m.tid]
  IN /\ tunnSock' = CASE s.st = "none" -> tunnSock
                      [] s.st = "resolving" -> [tunnSock EXCEPT ![m.tid].st = "cancelled"]
                      [] OTHER -> [tunnSock EXCEPT ![m.tid].closing = TRUE]
     /\ UNCHANGED <<toFinder, admit>>

OnAdmitMessage ==
  LET m == Head(toAdmit)
  IN /\ admit = "up" /\ toAdmit # <<>>
     /\ toAdmit' = Tail(toAdmit)
     /\ \/ m.op = "OpenTo" /\ OnAdmitOpenTo(m)
        \/ m.op = "DataTransfer" /\ OnAdmitDataTransfer(m)
        \/ m.op = "CloseTunnel" /\ OnAdmitCloseTunnel(m)
     /\ UNCHANGED <<info, tunnidAssigner, finder>>

\* XLorb::OnClose; a session that xlorb itself has dropped is not reported to it.
AdmitClose ==
  /\ admit = "up" /\ (Loss \/ finder = "closed")
  /\ admit' = "closed"
  /\ tunnSock' = [t \in Tunnids |-> NoSock]
  /\ UNCHANGED <<info, tunnidAssigner, toAdmit, toFinder, finder>>

-----------------------------------------------------------------------------
(* The targets' end: its sockets.                                          *)

SockStep(t, s, ms) ==
  /\ tunnSock' = [tunnSock EXCEPT ![t] = s]
  /\ SendToFinder(ms)
  /\ UNCHANGED <<info, tunnidAssigner, toAdmit, finder, admit>>

OnDnsParsed_Quiet(t) ==                                                \* mutant
  /\ tunnSock[t].st = "resolving"
  /\ SockStep(t, [tunnSock[t] EXCEPT !.st = "connecting"], <<>>) \/ SockStep(t, NoSock, <<>>)
OnDnsParsed(t) ==
  /\ tunnSock[t].st = "resolving"
  /\ \/ /\ tunnSock[t].target \notin Unreachable
        /\ SockStep(t, [tunnSock[t] EXCEPT !.st = "connecting"], <<>>)
     \/ SockStep(t, NoSock, <<ConnAbort(t)>>)

OnConnect_Quiet(t, success) ==                                         \* mutant
  /\ tunnSock[t].st = "connecting"
  /\ SockStep(t, IF success THEN [tunnSock[t] EXCEPT !.st = "connected"] ELSE NoSock,
              IF success THEN <<ConnDone(t, TRUE)>> ELSE <<>>)
OnConnect(t, success) ==
  /\ tunnSock[t].st = "connecting"
  /\ SockStep(t, IF success THEN [tunnSock[t] EXCEPT !.st = "connected"] ELSE NoSock,
              <<ConnDone(t, success)>>)

OnTargetRecv(t) ==
  LET n == tunnSock[t].said + 1
  IN /\ tunnSock[t].st = "connected" /\ n <= MaxChunks
     /\ SockStep(t, [tunnSock[t] EXCEPT !.said = n],
                 <<TargetData(t, n, tunnSock[t].target)>>)

\* The target has closed, or the posted disconnect is done.
OnTargetDisconnect(t, byRemote) ==
  /\ IF byRemote THEN tunnSock[t].st = "connected"
     ELSE tunnSock[t].closing /\ tunnSock[t].st \in {"connecting", "connected"}
  /\ SockStep(t, NoSock, <<ConnAbort(t)>>)

-----------------------------------------------------------------------------
Next ==
  \/ \E b \in Browsers :
       OnAccept(b) \/ OnRecv(b) \/ \E byRemote \in BOOLEAN : OnDisconnect(b, byRemote)
  \/ OnFinderMessage \/ FinderClose
  \/ OnAdmitMessage \/ AdmitClose
  \/ \E t \in Tunnids :
       \/ OnDnsParsed(t) \/ OnTargetRecv(t)
       \/ \E success \in BOOLEAN : OnConnect(t, success)
       \/ \E byRemote \in BOOLEAN : OnTargetDisconnect(t, byRemote)

Spec == Init /\ [][Next]_vars

\* The network delivers and reports a dropped session; names are resolved, and
\* connections and posted disconnects end.  Browsers and targets do what they like.
Fairness ==
  /\ WF_vars(OnFinderMessage) /\ WF_vars(OnAdmitMessage)
  /\ WF_vars(FinderClose /\ admit # "up") /\ WF_vars(AdmitClose /\ finder = "closed")
  /\ \A b \in Browsers : WF_vars(OnDisconnect(b, FALSE))
  /\ \A t \in Tunnids :
       /\ WF_vars(OnDnsParsed(t))
       /\ WF_vars(\E success \in BOOLEAN : OnConnect(t, success))
       /\ WF_vars(OnTargetDisconnect(t, FALSE))

FairSpec == Spec /\ Fairness
-----------------------------------------------------------------------------
(* Properties.                                                             *)

InFlight(ms, op, t) == \E i \in DOMAIN ms : ms[i].op = op /\ ms[i].tid = t

\* A browser that waits for its tunnel is answered, or it is told that there will
\* be none: the request, the connection attempt or the answer is always somewhere.
\* One that is being proxied has its target connected, or hears of its end.
NobodyForgotten ==
  finder = "up" /\ admit = "up" =>
    \A b \in Browsers :
      LET t == info[b].tunnid
          bad == \/ info[b].closing
                 \/ InFlight(toFinder, "ConnAbort", t)
                 \/ \E i \in DOMAIN toFinder : /\ toFinder[i].op \in {"RtnOpenTo", "ConnDone"}
                                               /\ toFinder[i].tid = t /\ ~toFinder[i].ok
      IN /\ info[b].state \in Waiting =>
              \/ bad
              \/ InFlight(toAdmit, "OpenTo", t)
              \/ tunnSock[t].st \in {"resolving", "connecting"}
              \/ InFlight(toFinder, "ConnDone", t)
         /\ info[b].state \in Proxying => bad \/ tunnSock[t].st = "connected"

TunnelInv == TypeOK /\ NobodyForgotten

\* What a browser sends arrives at its target once and in order, whether it goes
\* with the request, while the target is being connected to, or after.
UpInOrder ==
  LET m == Head(toAdmit)
  IN admit = "up" /\ toAdmit # <<>> /\ m.op = "DataTransfer" /\ Has(m.tid)
       => m.first = tunnSock[m.tid].heard + 1

\* What a browser is sent comes from the target it has asked for last, in order and
\* complete, and never before it has been told that it is connected.
DownInOrder ==
  LET m == Head(toFinder)
  IN finder = "up" /\ toFinder # <<>> /\ m.op = "DataTransfer" =>
       \A b \in Browsers : ToBrowser(m, b) =>
         /\ info[b].state \in Proxying
         /\ m.from = info[b].target /\ m.first = info[b].heard + 1

\* xlorb never finds a reason to drop the session, and with it every tunnel, because
\* of one: no tunnel id is taken when it is asked for, and (OnAdmitOpenTo: "not severe,
\* do not return false") a target that cannot be had costs only its own tunnel.
SessionStays == admit # "dropped"

\* A socket of xlorb whose browser is gone is closing, or is about to be told.
\* (OnRecv: "sending CloseTunnel [for a message of an unknown tunnel] is in fact
\* superfluous under normal circumstances".)
UnknownIsClosing ==
  finder = "up" /\ admit = "up" =>
    \A t \in Tunnids :
      tunnSock[t].st \in {"connecting", "connected"} /\ (\A b \in Browsers : info[b].tunnid # t)
        => tunnSock[t].closing \/ InFlight(toAdmit, "CloseTunnel", t)

\* A browser does not wait for ever, or the program ends.
Answered ==
  \A b \in Browsers : info[b].state \in Waiting ~> info[b].state \notin Waiting \/ finder = "closed"

\* Once its browser is gone, the socket of a tunnel gives its place back,
\* unless the session was dropped under it or it was cancelled while its
\* name was being resolved: doDisconnect then reports success, but no
\* OnDisconnect follows, and the place is lost.
TargetsReleased ==
  \A t \in Tunnids :
    Has(t) /\ (\A b \in Browsers : info[b].tunnid # t)
      ~> ~Has(t) \/ tunnSock[t].st = "cancelled" \/ admit = "dropped"
=============================================================================
