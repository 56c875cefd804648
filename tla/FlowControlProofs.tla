-------------------------- MODULE FlowControlProofs --------------------------
(***************************************************************************)
(* The flow control keeps its promises for any number of sockets, window,  *)
(* message length and acknowledgement threshold, and any amount of data.   *)
(***************************************************************************)
EXTENDS FlowControl, FiniteSetTheorems, TLAPS

-----------------------------------------------------------------------------
(* What is left of a sequence when its head is taken.                      *)

IsTail(r, q, S) ==
  /\ Len(q) \in Nat /\ Len(q) > 0 /\ 1 \in DOMAIN q /\ Head(q) = q[1] /\ q[1] \in S
  /\ r \in Seq(S) /\ Len(r) = Len(q) - 1
  /\ DOMAIN q = 1..Len(q) /\ DOMAIN r = 1..(Len(q) - 1)
  /\ \A i \in DOMAIN r : r[i] = q[i + 1] /\ i + 1 \in DOMAIN q /\ 1 < i + 1 /\ i \in Nat
  /\ r = <<>> => Len(q) = 1

LEMMA TailFacts ==
  ASSUME NEW S, NEW q \in Seq(S), q # <<>>, NEW r, r = Tail(q)
  PROVE  IsTail(r, q, S)
<1>1. Len(q) \in Nat /\ Len(q) > 0 /\ Head(q) = q[1] /\ q[1] \in S
  OBVIOUS
<1>2. r \in Seq(S) /\ Len(r) = Len(q) - 1
  OBVIOUS
<1>3. \A i \in 1..(Len(q) - 1) : r[i] = q[i + 1]
  OBVIOUS
<1>4. DOMAIN q = 1..Len(q) /\ DOMAIN r = 1..(Len(q) - 1)
  BY <1>1, <1>2
<1>5. r = <<>> => Len(r) = 0
  OBVIOUS
<1>6. \A i \in 1..(Len(q) - 1) : i + 1 \in 1..Len(q) /\ 1 < i + 1 /\ i \in Nat
  BY <1>1
<1>7. 1 \in 1..Len(q)
  BY <1>1
<1>8. \A i \in DOMAIN r : r[i] = q[i + 1] /\ i + 1 \in DOMAIN q /\ 1 < i + 1 /\ i \in Nat
  BY <1>3, <1>4, <1>6, Zenon
<1>9. 1 \in DOMAIN q /\ (r = <<>> => Len(q) = 1)
  BY <1>1, <1>2, <1>4, <1>5, <1>7
<1> QED BY <1>1, <1>2, <1>4, <1>8, <1>9, Zenon DEF IsTail

-----------------------------------------------------------------------------
(* The share of the window.                                                *)

LEMMA CountProduct ==
  ASSUME NEW m \in Nat, NEW n \in Nat, m <= n PROVE m * MaxLen <= n * MaxLen
<1>1. MaxLen \in Nat
  BY FlowAssumption
<1> QED BY <1>1

LEMMA CountRecving ==
  ASSUME NEW R \in SUBSET Socks
  PROVE  Share(R) \in Nat /\ Share(R) <= Share(Socks)
<1>1. Cardinality(R) \in Nat /\ Cardinality(Socks) \in Nat /\ Cardinality(R) <= Cardinality(Socks)
  BY FS_Subset, FS_CardinalityType, FlowAssumption
<1>2. Cardinality(R) * MaxLen \in Nat
  BY <1>1, FlowAssumption
<1> QED BY <1>1, <1>2, CountProduct DEF Share

LEMMA BelowWindow ==
  ASSUME NEW s \in Nat, NEW a \in Nat, NEW w \in Nat, NEW r \in Nat, NEW all \in Nat,
         s - a < w, r <= all
  PROVE  s - a + r <= w + all
OBVIOUS

\* A socket that is not receiving leaves the share of one message.
LEMMA CountLess ==
  ASSUME NEW R \in SUBSET Socks, NEW s \in R
  PROVE  Share(R \ {s}) + MaxLen = Share(R)
<1>1. IsFiniteSet(R)
  BY FS_Subset, FlowAssumption
<1>2. Cardinality(R \ {s}) = Cardinality(R) - 1 /\ Cardinality(R) \in Nat
  BY <1>1, FS_RemoveElement, FS_CardinalityType
<1>3. \A c \in Int : (c - 1) * MaxLen + MaxLen = c * MaxLen
  BY FlowAssumption
<1> QED BY <1>2, <1>3 DEF Share

\* The window does not gain by what a step of DoRecvUnderFlow decides.
LEMMA UnderFlow ==
  ASSUME TypeOK, NEW s \in Socks, NEW sended \in Nat, WindowInv, sended <= fcSended + MaxLen,
         IF s \in recving THEN fcSended <= sended ELSE sended = fcSended,
         DoRecvUnderFlow(s, sended)
  PROVE  /\ recving' \in SUBSET Socks /\ pendDoRecv' \in SUBSET Socks
         /\ sended - fcAcked + Share(recving') <= MaxCache + Share(Socks)
         /\ pendDoRecv' # {} => pendDoRecv # {} \/ sended - fcAcked >= MaxCache
<1>1. recving' \in SUBSET Socks /\ pendDoRecv' \in SUBSET Socks
  BY DEF DoRecvUnderFlow, TypeOK
<1>2. /\ fcSended \in Nat /\ fcAcked \in Nat /\ sended <= fcSended + MaxLen
      /\ MaxLen \in Nat /\ MaxCache \in Nat
      /\ fcSended - fcAcked + Share(recving) <= MaxCache + Share(Socks)
  BY FlowAssumption DEF TypeOK, WindowInv
<1>3. /\ Share(recving) \in Nat /\ Share(recving') \in Nat /\ Share(Socks) \in Nat
      /\ Share(recving') <= Share(Socks)
  BY <1>1, CountRecving DEF TypeOK
<1>4. CASE sended - fcAcked > MaxCache
  <2>1. recving' = recving \ {s} /\ pendDoRecv' = pendDoRecv \cup {s}
    BY <1>2, <1>4 DEF DoRecvUnderFlow
  <2>2. CASE s \in recving
    <3>1. Share(recving') + MaxLen = Share(recving)
      BY <2>1, <2>2, CountLess DEF TypeOK
    <3> QED BY <1>1, <1>2, <1>3, <1>4, <3>1
  <2>3. CASE s \notin recving
    <3>1. sended = fcSended /\ recving' = recving
      BY <2>1, <2>3
    <3> QED BY <1>1, <1>2, <1>4, <3>1
  <2> QED BY <2>2, <2>3
<1>5. CASE ~(sended - fcAcked > MaxCache)
  <2>1. pendDoRecv' = pendDoRecv
    BY <1>2, <1>5 DEF DoRecvUnderFlow
  <2> QED BY <1>1, <1>2, <1>3, <1>5, <2>1
<1> QED BY <1>4, <1>5

-----------------------------------------------------------------------------
(* Every step keeps the invariant.                                         *)

LEMMA InitInv == ASSUME Init PROVE IInv
<1>1. TypeOK
  <2>1. acks \in Seq(Nat) /\ data \in Seq(Message)
    BY DEF Init
  <2> QED BY <2>1 DEF Init, TypeOK
<1>2. WindowInv
  <2>1. Share(recving) \in Nat /\ Share(recving) <= Share(Socks) /\ Share(Socks) \in Nat
    BY CountRecving DEF Init
  <2> QED BY <2>1, FlowAssumption DEF Init, WindowInv
<1> QED BY <1>1, <1>2 DEF Init, IInv, AcksInv, DataInv, CountersInv, AckScheduled,
                         ReceivesOnce, HeldInv

LEMMA OpenInv ==
  ASSUME ForgetsClosed, IInv, NEW s \in Socks, OnAdmitOpenTo(s) PROVE IInv'
<1>1. TypeOK'
  BY DEF IInv, TypeOK, OnAdmitOpenTo, ackVars, netVars
<1>2. ReceivesOnce'
  BY DEF IInv, TypeOK, ReceivesOnce, OnAdmitOpenTo
<1> QED BY <1>1, <1>2 DEF IInv, OnAdmitOpenTo, ackVars, netVars, AcksInv, DataInv,
                         CountersInv, AckScheduled, WindowInv, HeldInv

LEMMA ConnectInv ==
  ASSUME ForgetsClosed, IInv, NEW s \in Socks, OnConnect(s) PROVE IInv'
<1>1. s \notin recving /\ DoRecvUnderFlow(s, fcSended)
  BY DEF IInv, TypeOK, ReceivesOnce, OnConnect
<1>2. /\ recving' \in SUBSET Socks /\ pendDoRecv' \in SUBSET Socks
      /\ fcSended - fcAcked + Share(recving') <= MaxCache + Share(Socks)
      /\ pendDoRecv' # {} => pendDoRecv # {} \/ fcSended - fcAcked >= MaxCache
  <2>1. TypeOK /\ WindowInv
    BY DEF IInv
  <2>2. fcSended \in Nat /\ fcSended <= fcSended + MaxLen
    BY <2>1, FlowAssumption DEF TypeOK
  <2> QED BY <1>1, <2>1, <2>2, UnderFlow
<1>3. TypeOK'
  BY <1>2 DEF IInv, TypeOK, OnConnect, ackVars, netVars
<1>4. ReceivesOnce'
  BY DEF IInv, TypeOK, ReceivesOnce, OnConnect, DoRecvUnderFlow
<1>5. WindowInv' /\ HeldInv'
  BY <1>2 DEF IInv, OnConnect, WindowInv, HeldInv
<1> QED BY <1>3, <1>4, <1>5 DEF IInv, OnConnect, ackVars, netVars, AcksInv, DataInv,
                               CountersInv, AckScheduled

LEMMA RecvInv ==
  ASSUME ForgetsClosed, IInv, NEW s \in Socks, NEW n \in 1..MaxLen, OnRecv(s, n) PROVE IInv'
<1> DEFINE m == [len |-> n, upto |-> fcSended + n]
<1>1. /\ fcSended \in Nat /\ fcAcked \in Nat /\ fcWeRecv \in Nat /\ data \in Seq(Message)
      /\ n \in Nat /\ n > 0 /\ MaxLen \in Nat
  BY FlowAssumption DEF IInv, TypeOK
<1>2. /\ recving' \in SUBSET Socks /\ pendDoRecv' \in SUBSET Socks
      /\ fcSended' - fcAcked + Share(recving') <= MaxCache + Share(Socks)
      /\ pendDoRecv' # {} => pendDoRecv # {} \/ fcSended' - fcAcked >= MaxCache
  <2>1. TypeOK /\ WindowInv /\ s \in recving /\ DoRecvUnderFlow(s, fcSended')
    BY DEF IInv, OnRecv
  <2>2. fcSended' \in Nat /\ fcSended <= fcSended' /\ fcSended' <= fcSended + MaxLen
    BY <1>1 DEF OnRecv
  <2>3. IF s \in recving THEN fcSended <= fcSended' ELSE fcSended' = fcSended
    BY <2>1, <2>2
  <2> QED BY <2>1, <2>2, <2>3, UnderFlow
<1>3. m \in Message
  BY <1>1 DEF Message
<1>4. /\ data' = Append(data, m) /\ Len(data') = Len(data) + 1 /\ data' \in Seq(Message)
      /\ \A i \in 1..Len(data) : data'[i] = data[i]
      /\ data'[Len(data) + 1] = m /\ DOMAIN data' = 1..Len(data) + 1 /\ DOMAIN data = 1..Len(data)
  BY <1>1, <1>3 DEF OnRecv
<1>5. TypeOK'
  BY <1>1, <1>2, <1>4 DEF IInv, TypeOK, OnRecv, ackVars
<1>6. ReceivesOnce'
  BY DEF IInv, TypeOK, ReceivesOnce, OnRecv, DoRecvUnderFlow
<1>7. WindowInv' /\ HeldInv'
  <2>1. fcSended' = fcSended + n /\ fcAcked' = fcAcked
    BY DEF OnRecv
  <2>2. MaxCache \in Nat /\ (pendDoRecv # {} => fcSended - fcAcked >= MaxCache)
    BY FlowAssumption DEF IInv, HeldInv
  <2> QED BY <1>1, <1>2, <2>1, <2>2 DEF WindowInv, HeldInv
<1>8. DataInv'
  <2>1. fcSended' = fcSended + n /\ fcWeRecv' = fcWeRecv
    BY DEF OnRecv, ackVars
  <2>2. ASSUME NEW i \in DOMAIN data'
        PROVE  /\ data'[i].upto = (IF i = 1 THEN fcWeRecv ELSE data'[i - 1].upto) + data'[i].len
               /\ data'[i].upto <= fcSended + n
               /\ i = Len(data') => data'[i].upto = fcSended + n
    <3>1. CASE i \in DOMAIN data
      <4>1. Len(data) \in Nat /\ i \in 1..Len(data)
        BY <1>1, <1>4, <3>1
      <4>2. data'[i] = data[i] /\ (i # 1 => data'[i - 1] = data[i - 1]) /\ i # Len(data')
        BY <1>4, <4>1
      <4>3. data[i] \in Message
        BY <1>1, <4>1
      <4>4. data[i].upto \in Nat
        BY <4>3 DEF Message
      <4> QED BY <1>1, <3>1, <4>2, <4>4 DEF IInv, DataInv
    <3>2. CASE i = Len(data) + 1
      <4>1. data'[i].upto = fcSended + n /\ data'[i].len = n
        BY <1>4, <3>2
      <4>2. CASE data = <<>>
        BY <1>1, <3>2, <4>1, <4>2 DEF IInv, DataInv
      <4>3. CASE data # <<>>
        <5>1. i # 1 /\ i - 1 = Len(data) /\ Len(data) \in DOMAIN data
          BY <1>1, <1>4, <3>2, <4>3
        <5>2. data'[i - 1].upto = fcSended
          BY <1>4, <5>1 DEF IInv, DataInv
        <5> QED BY <1>1, <4>1, <5>1, <5>2
      <4> QED BY <4>2, <4>3
    <3>3. Len(data) \in Nat /\ i \in 1..Len(data) + 1
      BY <1>1, <1>4
    <3> QED BY <1>4, <3>1, <3>2, <3>3
  <2>3. data' # <<>>
    BY <1>1, <1>4
  <2> QED BY <2>1, <2>2, <2>3 DEF DataInv
<1>9. CountersInv'
  BY <1>1 DEF IInv, TypeOK, CountersInv, OnRecv, ackVars
<1> QED BY <1>5, <1>6, <1>7, <1>8, <1>9
        DEF IInv, OnRecv, ackVars, AcksInv, AckScheduled

LEMMA DisconnectInv ==
  ASSUME ForgetsClosed, IInv, NEW s \in Socks, OnDisconnect(s) PROVE IInv'
<1>1. recving' \in SUBSET recving /\ pendDoRecv' \in SUBSET pendDoRecv
  BY DEF OnDisconnect, Forgotten
<1>2. TypeOK'
  BY <1>1 DEF IInv, TypeOK, OnDisconnect, ackVars, netVars
<1>3. ReceivesOnce'
  BY DEF IInv, TypeOK, ReceivesOnce, OnDisconnect, Forgotten
<1>4. WindowInv'
  <2>1. CASE s \in recving
    <3>1. Share(recving') + MaxLen = Share(recving)
      BY <2>1, CountLess DEF OnDisconnect, IInv, TypeOK
    <3>2. Share(recving') \in Nat /\ Share(recving) \in Nat
          /\ Share(Socks) \in Nat
      BY <1>1, CountRecving DEF IInv, TypeOK
    <3> QED BY <3>1, <3>2, FlowAssumption DEF IInv, TypeOK, WindowInv, OnDisconnect
  <2>2. CASE s \notin recving
    <3>1. recving' = recving
      BY <2>2 DEF OnDisconnect
    <3> QED BY <3>1 DEF IInv, WindowInv, OnDisconnect
  <2> QED BY <2>1, <2>2
<1> QED BY <1>1, <1>2, <1>3, <1>4
        DEF IInv, OnDisconnect, ackVars, netVars, AcksInv, DataInv, CountersInv,
            AckScheduled, HeldInv

\* An acknowledgement on its way is one OnFlowCtrl accepts.
LEMMA GoodAck ==
  ASSUME IInv, acks # <<>>
  PROVE  /\ Head(acks) \in Nat /\ fcAcked < Head(acks) /\ Head(acks) <= fcWeAcked
         /\ ~BadAck(Head(acks))
<1>1. acks \in Seq(Nat)
  BY DEF IInv, TypeOK
<1>2. 1 \in DOMAIN acks /\ Head(acks) = acks[1] /\ acks[1] \in Nat
  BY <1>1
<1> QED BY <1>2 DEF IInv, TypeOK, AcksInv, CountersInv, BadAck

\* What is left of the acknowledgements when the first is taken.
LEMMA AcksLeft ==
  ASSUME IInv, acks # <<>>, acks' = Tail(acks), fcAcked' = Head(acks), fcWeAcked' = fcWeAcked
  PROVE  acks' \in Seq(Nat) /\ AcksInv'
<1>1. acks \in Seq(Nat)
  BY DEF IInv, TypeOK
<1>2. PICK r : r = acks' /\ r = Tail(acks)
  OBVIOUS
<1>3. /\ Len(acks) \in Nat /\ 1 \in DOMAIN acks /\ Head(acks) = acks[1] /\ r \in Seq(Nat)
      /\ Len(r) = Len(acks) - 1 /\ (r = <<>> => Len(acks) = 1)
      /\ \A i \in DOMAIN r : r[i] = acks[i + 1] /\ i + 1 \in DOMAIN acks /\ 1 < i + 1 /\ i \in Nat
  BY <1>1, <1>2, TailFacts, Zenon DEF IsTail
<1>4. \A i \in DOMAIN r : acks[1] < r[i] /\ r[i] <= fcWeAcked
  BY <1>3 DEF IInv, AcksInv
<1>5. ASSUME NEW i \in DOMAIN r, NEW j \in DOMAIN r, i < j PROVE r[i] < r[j]
  <2>1. i + 1 < j + 1 /\ i + 1 \in DOMAIN acks /\ j + 1 \in DOMAIN acks
    BY <1>3, <1>5
  <2> QED BY <1>3, <2>1 DEF IInv, AcksInv
<1>6. r = <<>> => acks[1] = fcWeAcked
  BY <1>3 DEF IInv, AcksInv
<1>7. ASSUME NEW i \in DOMAIN r, i = Len(r) PROVE r[i] = fcWeAcked
  <2>1. i + 1 = Len(acks)
    BY <1>3, <1>7
  <2> QED BY <1>3, <2>1 DEF IInv, AcksInv
<1>8. fcAcked' = acks[1] /\ fcWeAcked' = fcWeAcked /\ acks' = r
  BY <1>2, <1>3
<1> QED BY <1>3, <1>4, <1>5, <1>6, <1>7, <1>8 DEF AcksInv

LEMMA FlowCtrlInv == ASSUME ForgetsClosed, IInv, OnFlowCtrl PROVE IInv'
<1> DEFINE ack == Head(acks)
<1>1. ack \in Nat /\ fcAcked < ack /\ ack <= fcWeAcked /\ ~BadAck(ack)
  BY GoodAck DEF OnFlowCtrl
<1>2. /\ acks' = Tail(acks) /\ acks # <<>> /\ fcAcked' = ack /\ up' = up /\ sock' = sock
      /\ UNCHANGED <<fcSended, fcWeRecv, fcWeAcked, ackCountDownTimer, ackAlreadyCoolDown, data>>
      /\ IF fcSended - ack < MaxCache
         THEN recving' = recving \cup pendDoRecv /\ pendDoRecv' = {}
         ELSE UNCHANGED <<recving, pendDoRecv>>
  BY <1>1 DEF OnFlowCtrl, ackVars, Resumed, WindowOpen
<1>3. acks' \in Seq(Nat) /\ AcksInv'
  BY <1>2, AcksLeft
<1>4. TypeOK'
  BY <1>1, <1>2, <1>3 DEF IInv, TypeOK
<1>5. ReceivesOnce'
  BY <1>2 DEF IInv, TypeOK, ReceivesOnce
<1>6. WindowInv' /\ HeldInv'
  <2>1. /\ fcSended \in Nat /\ fcAcked \in Nat /\ MaxCache \in Nat
        /\ Share(recving) \in Nat /\ Share(Socks) \in Nat
    BY CountRecving, FlowAssumption DEF IInv, TypeOK
  <2>2. CASE fcSended - ack < MaxCache
    <3>1. Share(recving') \in Nat /\ Share(recving') <= Share(Socks) /\ pendDoRecv' = {}
      BY <1>2, <1>4, <2>2, CountRecving DEF TypeOK
    <3>2. fcSended' - fcAcked' < MaxCache /\ fcSended' \in Nat /\ fcAcked' \in Nat
      BY <1>1, <1>2, <2>1, <2>2
    <3>3. fcSended' - fcAcked' + Share(recving') <= MaxCache + Share(Socks)
      BY <2>1, <3>1, <3>2, BelowWindow
    <3>4. WindowInv'
      BY <3>3 DEF WindowInv
    <3> QED BY <3>1, <3>4 DEF HeldInv
  <2>3. CASE ~(fcSended - ack < MaxCache)
    <3>1. /\ recving' = recving /\ pendDoRecv' = pendDoRecv /\ fcSended' = fcSended
          /\ fcAcked' = ack
      BY <1>2, <2>3
    <3>2. fcSended' - fcAcked' >= MaxCache /\ fcSended' - fcAcked' <= fcSended - fcAcked
      BY <1>1, <2>1, <2>3, <3>1
    <3>3. WindowInv'
      BY <1>1, <2>1, <3>1, <3>2 DEF IInv, WindowInv
    <3> QED BY <3>2, <3>3 DEF HeldInv
  <2> QED BY <2>2, <2>3
<1>7. CountersInv'
  BY <1>1, <1>2 DEF IInv, TypeOK, CountersInv
<1> QED BY <1>2, <1>3, <1>4, <1>5, <1>6, <1>7 DEF IInv, DataInv, AckScheduled

LEMMA DataTransferInv == ASSUME ForgetsClosed, IInv, OnDataTransfer PROVE IInv'
<1> DEFINE m == Head(data)
<1>1. /\ data \in Seq(Message) /\ Len(data) \in Nat /\ DOMAIN data = 1..Len(data)
      /\ data' = Tail(data) /\ data' \in Seq(Message) /\ DOMAIN data' = 1..(Len(data) - 1)
      /\ Len(data') = Len(data) - 1
      /\ 1 \in DOMAIN data /\ m = data[1] /\ m.len \in Nat /\ m.len > 0 /\ m.upto \in Nat
      /\ \A i \in DOMAIN data' : data'[i] = data[i + 1] /\ i + 1 \in DOMAIN data /\ 1 < i + 1
      /\ data' = <<>> => Len(data) = 1
  <2>1. data \in Seq(Message) /\ data # <<>> /\ data' = Tail(data)
    BY DEF IInv, TypeOK, OnDataTransfer
  <2>2. PICK r : r = data' /\ r = Tail(data)
    BY <2>1
  <2>3. data \in Seq(Message) /\ data # <<>> /\ r = Tail(data)
    BY <2>1, <2>2
  <2>4. IsTail(r, data, Message)
    BY <2>3, TailFacts
  <2>5. /\ Len(data) \in Nat /\ Len(data) > 0 /\ 1 \in DOMAIN data /\ Head(data) = data[1]
        /\ data[1] \in Message
        /\ r \in Seq(Message) /\ Len(r) = Len(data) - 1
        /\ DOMAIN data = 1..Len(data) /\ DOMAIN r = 1..(Len(data) - 1)
        /\ \A i \in DOMAIN r : /\ r[i] = data[i + 1] /\ i + 1 \in DOMAIN data
                               /\ 1 < i + 1 /\ i \in Nat
        /\ r = <<>> => Len(data) = 1
    BY <2>4, Zenon DEF IsTail
  <2>6. data[1].len \in Nat /\ data[1].len > 0 /\ data[1].upto \in Nat
    BY <2>5, FlowAssumption DEF Message
  <2> QED BY <2>1, <2>2, <2>5, <2>6, Zenon
<1>2. /\ fcWeRecv' = fcWeRecv + m.len /\ m.upto = fcWeRecv' /\ fcWeRecv' <= fcSended
      /\ UNCHANGED <<sock, recving, pendDoRecv, fcSended, fcAcked, fcWeAcked, acks, up>>
  BY <1>1 DEF OnDataTransfer, IInv, DataInv, sockVars
<1>3. fcWeRecv \in Nat /\ fcWeAcked \in Nat /\ fcSended \in Nat /\ AckNoDelay \in Nat
  BY FlowAssumption DEF IInv, TypeOK
<1>4. TypeOK'
  BY <1>1, <1>2, <1>3 DEF IInv, TypeOK, OnDataTransfer
<1>5. DataInv'
  <2>1. ASSUME NEW i \in DOMAIN data'
        PROVE  /\ data'[i].upto = (IF i = 1 THEN fcWeRecv' ELSE data'[i - 1].upto) + data'[i].len
               /\ data'[i].upto <= fcSended
               /\ i = Len(data') => data'[i].upto = fcSended
    <3>1. data'[i] = data[i + 1] /\ i + 1 \in DOMAIN data /\ i \in Nat /\ i + 1 # 1
      BY <1>1
    <3>2. i # 1 => i - 1 \in DOMAIN data' /\ data'[i - 1] = data[i]
      BY <1>1
    <3>3. data[i + 1].upto = data[(i + 1) - 1].upto + data[i + 1].len
      BY <3>1 DEF IInv, DataInv
    <3>4. (i + 1) - 1 = i
      BY <3>1
    <3>5. i = Len(data') => i + 1 = Len(data)
      BY <1>1
    <3> QED BY <1>1, <1>2, <3>1, <3>2, <3>3, <3>4, <3>5 DEF IInv, DataInv
  <2>2. data' = <<>> => fcWeRecv' = fcSended
    <3> SUFFICES ASSUME data' = <<>> PROVE m.upto = fcSended
      BY <1>2
    <3>1. Len(data) = 1
      BY <1>1
    <3> QED BY <1>1, <3>1 DEF IInv, DataInv
  <2> QED BY <1>2, <2>1, <2>2 DEF DataInv
<1>6. CountersInv'
  BY <1>1, <1>2, <1>3 DEF IInv, CountersInv
<1>7. AckScheduled'
  <2>1. fcWeRecv' > fcWeAcked' /\ fcWeAcked' = fcWeAcked /\ fcWeRecv' = fcWeRecv + Head(data).len
    BY <1>1, <1>2, <1>3 DEF IInv, CountersInv
  <2>2. ackCountDownTimer' # "off" /\ (ackAlreadyCoolDown' <=> ackCountDownTimer' = "now")
    BY <1>2, <1>3, <2>1 DEF IInv, TypeOK, AckScheduled, OnDataTransfer
  <2> QED BY <2>1, <2>2 DEF AckScheduled
<1> QED BY <1>2, <1>4, <1>5, <1>6, <1>7 DEF IInv, AcksInv, ReceivesOnce, WindowInv, HeldInv

LEMMA TimeoutInv == ASSUME ForgetsClosed, IInv, HandleTimeout PROVE IInv'
<1>1. /\ fcWeRecv > fcWeAcked /\ fcWeRecv \in Nat /\ fcWeAcked \in Nat /\ acks \in Seq(Nat)
      /\ fcAcked \in Nat
  BY DEF HandleTimeout, IInv, AckScheduled, TypeOK
<1>2. /\ fcWeAcked' = fcWeRecv /\ acks' = Append(acks, fcWeRecv)
      /\ ackAlreadyCoolDown' = FALSE /\ ackCountDownTimer' = "off"
      /\ UNCHANGED <<sock, recving, pendDoRecv, fcSended, fcAcked, fcWeRecv, data, up>>
  BY <1>1 DEF HandleTimeout, CooledDown, sockVars
<1>3. /\ acks' \in Seq(Nat) /\ Len(acks') = Len(acks) + 1 /\ Len(acks) \in Nat
      /\ DOMAIN acks' = 1..(Len(acks) + 1) /\ DOMAIN acks = 1..Len(acks)
      /\ acks'[Len(acks) + 1] = fcWeRecv
      /\ \A i \in DOMAIN acks : acks'[i] = acks[i] /\ acks[i] \in Nat
  BY <1>1, <1>2
<1>4. TypeOK'
  BY <1>2, <1>3 DEF IInv, TypeOK
<1>5. AcksInv'
  <2>1. \A i \in DOMAIN acks' : \/ (i \in DOMAIN acks /\ i # Len(acks'))
                               \/ (i = Len(acks') /\ acks'[i] = fcWeRecv)
    BY <1>3
  <2>2. \A i \in DOMAIN acks' : fcAcked < acks'[i] /\ acks'[i] <= fcWeRecv
    BY <1>1, <1>3, <2>1 DEF IInv, AcksInv, CountersInv
  <2>3. \A i, j \in DOMAIN acks' : i < j => acks'[i] < acks'[j]
    <3> SUFFICES ASSUME NEW i \in DOMAIN acks', NEW j \in DOMAIN acks', i < j
                 PROVE  acks'[i] < acks'[j]
      OBVIOUS
    <3>1. i \in DOMAIN acks
      BY <1>3
    <3>2. CASE j \in DOMAIN acks
      BY <1>3, <3>1, <3>2 DEF IInv, AcksInv
    <3>3. CASE j = Len(acks')
      BY <1>1, <1>3, <3>1, <3>3 DEF IInv, AcksInv
    <3> QED BY <2>1, <3>2, <3>3
  <2>4. acks' # <<>>
    BY <1>3
  <2> QED BY <1>2, <2>1, <2>2, <2>3, <2>4 DEF AcksInv
<1>6. CountersInv' /\ AckScheduled'
  BY <1>1, <1>2 DEF IInv, CountersInv, AckScheduled
<1> QED BY <1>2, <1>4, <1>5, <1>6 DEF IInv, DataInv, ReceivesOnce, WindowInv, HeldInv

LEMMA NextInv == ASSUME ForgetsClosed, IInv, [Next]_vars PROVE IInv'
<1>1. CASE UNCHANGED vars
  BY <1>1 DEF vars, sockVars, ackVars, netVars, IInv, TypeOK, AcksInv, DataInv, CountersInv,
              AckScheduled, ReceivesOnce, WindowInv, HeldInv
<1>2. CASE Next
  BY <1>2, OpenInv, ConnectInv, RecvInv, DisconnectInv, FlowCtrlInv, DataTransferInv,
     TimeoutInv DEF Next
<1> QED BY <1>1, <1>2

-----------------------------------------------------------------------------
(* The theorems.                                                           *)

\* All the invariants below follow from one that every step of both ends keeps, the
\* sockets of the session being forgotten when they close.
THEOREM FlowInvariant == ASSUME ForgetsClosed PROVE Spec => []IInv
<1>1. Init => IInv
  BY InitInv
<1>2. IInv /\ [Next]_vars => IInv'
  BY NextInv
<1> QED BY <1>1, <1>2, PTL DEF Spec

\* The types of the counters, timers, socket sets and messages are kept.
THEOREM FlowTypes == ASSUME ForgetsClosed PROVE Spec => []TypeOK
<1>1. IInv => TypeOK
  BY DEF IInv
<1> QED BY <1>1, FlowInvariant, PTL

\* OnAdmitFlowCtrl and OnFinderFlowCtrl never find a bad acknowledgement: a session
\* is not dropped for one.
THEOREM AcksAreGood == ASSUME ForgetsClosed PROVE Spec => []NeverBadAck
<1>1. IInv => NeverBadAck
  BY DEF IInv, NeverBadAck
<1> QED BY <1>1, FlowInvariant, PTL

\* handleTimeout's timer runs exactly while bytes are unacknowledged.
THEOREM AcksAreScheduled == ASSUME ForgetsClosed PROVE Spec => []AckScheduled
<1>1. IInv => AckScheduled
  BY DEF IInv
<1> QED BY <1>1, FlowInvariant, PTL

\* A held-back socket always has something on its way that will make OnAdmitFlowCtrl
\* look at it again.
THEOREM NeverStalls == ASSUME ForgetsClosed PROVE Spec => []NoStall
<1>1. IInv => NoStall
  <2> SUFFICES ASSUME IInv, pendDoRecv # {}, data = <<>>, acks = <<>>
               PROVE  ackCountDownTimer # "off"
    BY DEF NoStall
  <2>1. fcSended - fcAcked >= MaxCache /\ fcWeRecv = fcSended /\ fcAcked = fcWeAcked
    BY DEF IInv, HeldInv, DataInv, AcksInv
  <2> QED BY <2>1, FlowAssumption DEF IInv, TypeOK, AckScheduled
<1> QED BY <1>1, FlowInvariant, PTL

\* DoRecvUnderFlow bounds what a session has unacknowledged, for any number of
\* sockets, by the window and one message a socket.
THEOREM WindowHolds == ASSUME ForgetsClosed PROVE Spec => []WindowBound
<1>1. IInv => WindowBound
  <2> SUFFICES ASSUME IInv PROVE WindowBound
    OBVIOUS
  <2>1. Share(recving) \in Nat /\ Share(Socks) \in Nat
    BY CountRecving DEF IInv, TypeOK
  <2> QED BY <2>1, FlowAssumption DEF IInv, TypeOK, WindowInv, WindowBound
<1> QED BY <1>1, FlowInvariant, PTL

\* No connected socket is forgotten or receives twice, no closed one is resumed.
THEOREM SocketsReceiveOnce == ASSUME ForgetsClosed PROVE Spec => []ReceivesOnce
<1>1. IInv => ReceivesOnce
  BY DEF IInv
<1> QED BY <1>1, FlowInvariant, PTL
=============================================================================
