----------------------------- MODULE FlowControl -----------------------------
(***************************************************************************)
(* The flow control of one session of the tunnel, in the direction from    *)
(* the outer end (xlors/xlorb.cpp), which reads the target's sockets, to   *)
(* the browser's end (xlors/xlord.cpp).  The other direction runs the same *)
(* code with the roles exchanged, but for one difference: xlorb forgets a  *)
(* held-back socket that closes, xlord does not (ForgetsClosed).           *)
(*                                                                         *)
(* All sockets of a session share one window.  The sender counts the bytes *)
(* it sends (fcSended) and those acknowledged (fcAcked), and holds back    *)
(* (pendDoRecv) the sockets whose turn to receive comes while more than    *)
(* MaxCache bytes are unacknowledged.  The receiver acknowledges by timer: *)
(* at once (a timer of 0) from AckNoDelay unacknowledged bytes on, later   *)
(* (kFlowControlMinAckInterval) below that.                                *)
(*                                                                         *)
(* The network keeps the order of each direction and loses nothing while   *)
(* the connection lasts (RakNet, one reliable ordered channel); the end of *)
(* a session for any other reason than a bad acknowledgement is not an     *)
(* action: nothing of this state outlives it.                              *)
(***************************************************************************)
EXTENDS Integers, Sequences, FiniteSets, SequencesExt

CONSTANTS
  Socks,          \* XLorsSocket objects (addresses, which are used again)
  MaxLen,         \* the longest DataTransfer message
  MaxCache,       \* kFlowControlMaxCache, lorsSet->flowCtrlCache
  AckNoDelay,     \* kFlowControlAckNoDelay
  ForgetsClosed,  \* OnDisconnect removes the socket from pendDoRecv
  MaxSended       \* bound: the sockets have no more to send after this

ASSUME FlowAssumption ==
  /\ IsFiniteSet(Socks)
  /\ MaxLen \in Nat \ {0} /\ MaxCache \in Nat \ {0} /\ AckNoDelay \in Nat \ {0}
  /\ ForgetsClosed \in BOOLEAN
  /\ MaxSended \in Nat

VARIABLES
  sock,                \* of each socket: "none" (not in tunnSock), "connecting", "connected"
  recving,             \* sockets with a recv outstanding (OnlyOneRecvOnceFlag)
  pendDoRecv,          \* sockets held back
  fcSended, fcAcked,   \* the sender's counters
  fcWeRecv, fcWeAcked, \* the receiver's counters
  ackCountDownTimer,   \* "off", "later" or "now"
  ackAlreadyCoolDown,
  data,                \* DataTransfer messages on their way
  acks,                \* FlowCtrl messages on their way
  up                   \* neither end has refused a message

sockVars == <<sock, recving, pendDoRecv>>
ackVars  == <<fcWeRecv, fcWeAcked, ackCountDownTimer, ackAlreadyCoolDown>>
netVars  == <<data, acks>>
vars == <<sockVars, fcSended, fcAcked, ackVars, netVars, up>>

\* upto: fcSended when the message had been sent (for the properties only).
Message == [len : 1..MaxLen, upto : Nat]

TypeOK ==
  /\ sock \in [Socks -> {"none", "connecting", "connected"}]
  /\ recving \in SUBSET Socks /\ pendDoRecv \in SUBSET Socks
  /\ fcSended \in Nat /\ fcAcked \in Nat /\ fcWeRecv \in Nat /\ fcWeAcked \in Nat
  /\ ackCountDownTimer \in {"off", "later", "now"}
  /\ ackAlreadyCoolDown \in BOOLEAN
  /\ data \in Seq(Message)
  /\ acks \in Seq(Nat)
  /\ up \in BOOLEAN

Init ==
  /\ sock = [s \in Socks |-> "none"] /\ recving = {} /\ pendDoRecv = {}
  /\ fcSended = 0 /\ fcAcked = 0 /\ fcWeRecv = 0 /\ fcWeAcked = 0
  /\ ackCountDownTimer = "off" /\ ackAlreadyCoolDown = FALSE
  /\ data = <<>> /\ acks = <<>>
  /\ up = TRUE

-----------------------------------------------------------------------------
(* The sender: the sockets.                                                *)

DoRecvUnderFlow_Never(s, sended) ==   \* mutant
  recving' = recving \cup {s} /\ UNCHANGED pendDoRecv
DoRecvUnderFlow(s, sended) ==
  IF sended - fcAcked > MaxCache
  THEN recving' = recving \ {s} /\ pendDoRecv' = pendDoRecv \cup {s}
  ELSE recving' = recving \cup {s} /\ UNCHANGED pendDoRecv

\* A tunnel is asked for: the socket exists and connects.
OnAdmitOpenTo(s) ==
  /\ up /\ sock[s] = "none"
  /\ sock' = [sock EXCEPT ![s] = "connecting"]
  /\ UNCHANGED <<recving, pendDoRecv, fcSended, fcAcked, ackVars, netVars, up>>

\* The target has accepted: the socket's first recv.
OnConnect(s) ==
  /\ up /\ sock[s] = "connecting"
  /\ sock' = [sock EXCEPT ![s] = "connected"]
  /\ DoRecvUnderFlow(s, fcSended)
  /\ UNCHANGED <<fcSended, fcAcked, ackVars, netVars, up>>

\* n bytes of message for what one recv has brought; then the next recv.  A recv
\* that fails at once is this step and an OnDisconnect.
OnRecv(s, n) ==
  /\ up /\ s \in recving
  /\ fcSended + n <= MaxSended
  /\ data' = Append(data, [len |-> n, upto |-> fcSended + n])
  /\ fcSended' = fcSended + n
  /\ DoRecvUnderFlow(s, fcSended + n)
  /\ UNCHANGED <<sock, fcAcked, ackVars, acks, up>>

Forgotten(s) == IF ForgetsClosed THEN pendDoRecv \ {s} ELSE pendDoRecv

\* The socket is closed and deleted: by its target, or because connecting failed.
OnDisconnect(s) ==
  /\ up /\ sock[s] # "none"
  /\ sock' = [sock EXCEPT ![s] = "none"]
  /\ recving' = recving \ {s}
  /\ pendDoRecv' = Forgotten(s)
  /\ UNCHANGED <<fcSended, fcAcked, ackVars, netVars, up>>

-----------------------------------------------------------------------------
(* The sender: an acknowledgement.                                         *)

BadAck_Early(ack) == ack <= fcAcked \/ ack >= fcSended   \* mutant
BadAck(ack) == ack <= fcAcked \/ ack > fcSended

\* The window is looked at after fcAcked has been brought up to date.
WindowOpen_Stale(ack) == fcSended - fcAcked < MaxCache   \* mutant
WindowOpen(ack) == fcSended - ack < MaxCache

Resumed_Kept == pendDoRecv   \* mutant
Resumed == {}

OnFlowCtrl ==
  LET ack == Head(acks)
  IN /\ up /\ acks # <<>>
     /\ acks' = Tail(acks)
     /\ \/ /\ BadAck(ack)
           /\ up' = FALSE
           /\ UNCHANGED <<fcAcked, sockVars>>
        \/ /\ ~BadAck(ack)
           /\ fcAcked' = ack
           /\ IF WindowOpen(ack)
              THEN recving' = recving \cup pendDoRecv /\ pendDoRecv' = Resumed
              ELSE UNCHANGED <<recving, pendDoRecv>>
           /\ UNCHANGED <<sock, up>>
     /\ UNCHANGED <<fcSended, ackVars, data>>

-----------------------------------------------------------------------------
(* The receiver.                                                           *)

\* The message is counted whether or not its tunnel still exists.
OnDataTransfer ==
  LET recved == fcWeRecv + Head(data).len
  IN /\ up /\ data # <<>>
     /\ data' = Tail(data)
     /\ fcWeRecv' = recved
     /\ IF recved - fcWeAcked >= AckNoDelay
        THEN /\ ackCountDownTimer' = IF ackAlreadyCoolDown THEN ackCountDownTimer ELSE "now"
             /\ ackAlreadyCoolDown' = TRUE
        ELSE /\ ackCountDownTimer' = IF ackCountDownTimer = "off" THEN "later"
                                     ELSE ackCountDownTimer
             /\ UNCHANGED ackAlreadyCoolDown
     /\ UNCHANGED <<sockVars, fcSended, fcAcked, fcWeAcked, acks, up>>

CooledDown_Stuck == ackAlreadyCoolDown   \* mutant
CooledDown == FALSE
HandleTimeout ==
  /\ up /\ ackCountDownTimer # "off"
  /\ ackCountDownTimer' = "off"
  /\ IF fcWeRecv > fcWeAcked
     THEN /\ fcWeAcked' = fcWeRecv
          /\ acks' = Append(acks, fcWeRecv)
          /\ ackAlreadyCoolDown' = CooledDown
     ELSE UNCHANGED <<fcWeAcked, acks, ackAlreadyCoolDown>>
  /\ UNCHANGED <<sockVars, fcSended, fcAcked, fcWeRecv, data, up>>

-----------------------------------------------------------------------------
Next ==
  \/ \E s \in Socks : OnAdmitOpenTo(s) \/ OnConnect(s) \/ OnDisconnect(s)
  \/ \E s \in Socks, n \in 1..MaxLen : OnRecv(s, n)
  \/ OnFlowCtrl \/ OnDataTransfer \/ HandleTimeout

Spec == Init /\ [][Next]_vars

\* Both main threads poll their network and their timers; RakNet delivers.
FairSpec ==
  Spec /\ WF_vars(OnFlowCtrl) /\ WF_vars(OnDataTransfer) /\ WF_vars(HandleTimeout)
-----------------------------------------------------------------------------
(* Properties.                                                             *)

\* "bad ack." (OnAdmitFlowCtrl, OnFinderFlowCtrl) never happens between two ends
\* that run this code: every acknowledgement is news, and of bytes that were sent.
NeverBadAck == up

\* What the receiver owes an acknowledgement for has a timer running, and the
\* cool-down flag is up only as long as the timer of 0 is: an acknowledgement that
\* is due is never put off for good.
AckScheduled ==
  /\ fcWeRecv > fcWeAcked <=> ackCountDownTimer # "off"
  /\ ackAlreadyCoolDown <=> ackCountDownTimer = "now"

\* Sockets are held back only while something is on its way that will make the
\* sender look at them again: the session cannot stall.
NoStall ==
  up /\ pendDoRecv # {} => data # <<>> \/ acks # <<>> \/ ackCountDownTimer # "off"

\* What a set of sockets can add to the window, one message each.
Share(R) == Cardinality(R) * MaxLen

\* However many sockets share the window, what a session has unacknowledged is
\* bounded: each socket may overrun the window by one message.
WindowBound ==
  fcSended - fcAcked <= MaxCache + Share(Socks)

\* Every connected socket has a recv outstanding or is held back, never both, and
\* no other socket is in either place: none is forgotten when the window opens,
\* none receives twice, and pendDoRecv holds no pointer to a deleted one.
ReceivesOnce ==
  \A s \in Socks : IF sock[s] = "connected" THEN s \in recving <=> s \notin pendDoRecv
                                            ELSE s \notin recving \cup pendDoRecv

\* The assertions of doRecv (no second recv while one is outstanding) and of
\* DoRecvUnderFlow (a socket whose recv is done is not held back already) need
\* that no socket with a recv outstanding is held back.
NeverBoth == recving \cap pendDoRecv = {}

\* Once the targets have no more to send (MaxSended) every held-back socket is
\* released.
Released == pendDoRecv # {} ~> pendDoRecv = {}
-----------------------------------------------------------------------------
(* The inductive invariant.                                                *)

\* Acknowledgements on their way ascend from fcAcked to fcWeAcked.
AcksInv ==
  /\ \A i \in DOMAIN acks : fcAcked < acks[i] /\ acks[i] <= fcWeAcked
  /\ \A i \in DOMAIN acks : i = Len(acks) => acks[i] = fcWeAcked
  /\ \A i, j \in DOMAIN acks : i < j => acks[i] < acks[j]
  /\ acks = <<>> => fcAcked = fcWeAcked

\* Messages on their way carry what was sent and not received.
DataInv ==
  /\ \A i \in DOMAIN data :
       /\ data[i].upto = (IF i = 1 THEN fcWeRecv ELSE data[i - 1].upto) + data[i].len
       /\ data[i].upto <= fcSended
       /\ i = Len(data) => data[i].upto = fcSended
  /\ data = <<>> => fcWeRecv = fcSended

CountersInv == fcAcked <= fcWeAcked /\ fcWeAcked <= fcWeRecv /\ fcWeRecv <= fcSended

\* A socket that may still receive has its message's share of the window left.
WindowInv ==
  fcSended - fcAcked + Share(recving) <= MaxCache + Share(Socks)

HeldInv == pendDoRecv # {} => fcSended - fcAcked >= MaxCache

IInv ==
  /\ TypeOK /\ up
  /\ AcksInv /\ DataInv /\ CountersInv
  /\ AckScheduled /\ ReceivesOnce /\ WindowInv /\ HeldInv
=============================================================================
