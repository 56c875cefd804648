---------------------------- MODULE TunnelProofs ----------------------------
(***************************************************************************)
(* Proofs about Tunnel, for any browsers, targets, tunnels and fragments:  *)
(* nobody is forgotten, what is sent arrives in order, and the session     *)
(* stays.                                                                  *)
(*                                                                         *)
(* A handler may do two things at once: take a message and send others,    *)
(* leave a tunnel and open the next.  So the invariant is an operator of a *)
(* state (inf: the browsers, asg: the last id, A and F: the messages to    *)
(* xlorb and to xlord, sk: its sockets, on: whether both have the          *)
(* session), and the lemmas are about such states: the steps in between    *)
(* keep it too, and a handler is put together from them.                   *)
(***************************************************************************)
EXTENDS Tunnel, SequenceTheorems, TLAPS

-----------------------------------------------------------------------------
(* The inductive invariant.                                                *)

Early == {"WaitTarget", "HandShakeOK"}

Info ==
  [state : {"none"} \cup Early \cup Waiting \cup Proxying,
   proxyType : {"none", "FORWARD"} \cup Kinds,
   tunnid : 0 .. MaxTunnid, target : Targets \cup {"none"},
   said : Nat, cached : Nat, heard : Nat, reading : BOOLEAN, closing : BOOLEAN]

Sock ==
  [st : {"none", "resolving", "cancelled", "connecting", "connected", "deleted"},
   target : Targets \cup {"none"}, heard : Nat, said : Nat, closing : BOOLEAN]

AdmitMsg ==
  [op : {"OpenTo"}, tid : Tunnids, target : Targets, last : Nat]
    \cup [op : {"CloseTunnel"}, tid : Tunnids]
    \cup [op : {"DataTransfer"}, tid : Tunnids, first : Int, last : Nat]

FinderMsg ==
  [op : {"RtnOpenTo", "ConnDone"}, tid : Tunnids, ok : BOOLEAN]
    \cup [op : {"ConnAbort"}, tid : Tunnids]
    \cup [op : {"DataTransfer"}, tid : Tunnids, first : Nat, last : Nat,
          from : Targets \cup {"none"}]

MsgsIn(Q) == {Q[i] : i \in DOMAIN Q}

Typed(inf, asg, A, F, sk) ==
  /\ inf \in [Browsers -> Info] /\ asg \in 0 .. MaxTunnid
  /\ A \in Seq(AdmitMsg) /\ F \in Seq(FinderMsg)
  /\ sk \in [Tunnids -> Sock]

\* Each browser has a tunnel of its own.
IdsOk(inf, asg) ==
  /\ \A b \in Browsers : (inf[b].state = "none" <=> inf[b].tunnid = 0) /\ inf[b].tunnid <= asg
  /\ \A b, c \in Browsers : inf[b].tunnid = inf[c].tunnid /\ b # c => inf[b].tunnid = 0

\* Nobody has heard of tunnel t.
Silent(t, MA, MF, sk) ==
  (\A m \in MA \cup MF : m.tid # t) /\ sk[t].st = "none"

FreshOk(inf, asg, MA, MF, sk) ==
  /\ \A t \in Tunnids : t > asg => Silent(t, MA, MF, sk)
  /\ \A b \in Browsers : inf[b].state \in Early => Silent(inf[b].tunnid, MA, MF, sk)

\* Until its request arrives, xlorb has nothing of a tunnel, and its browser waits.
OpenOk(inf, MA, MF, sk) ==
  \A m \in MA : m.op = "OpenTo" =>
    /\ sk[m.tid].st = "none"
    /\ \A f \in MF : f.tid # m.tid
    /\ \A b \in Browsers :
         inf[b].tunnid = m.tid => inf[b].state \in Waiting /\ inf[b].target = m.target

\* A tunnel is closed by its browser's end only when the browser has left it.
CloseOk(inf, MA) ==
  \A m \in MA : m.op = "CloseTunnel" => \A b \in Browsers : inf[b].tunnid # m.tid

\* xlorb's socket is for the target that the browser has asked for.
TargetOk(inf, sk) ==
  \A b \in Browsers : inf[b].state # "none" /\ sk[inf[b].tunnid].st # "none" =>
    sk[inf[b].tunnid].target = inf[b].target

\* A connection that is reported is there, or was.
DoneOk(MF, sk) == \A f \in MF : f.op = "ConnDone" => sk[f.tid].st \in {"none", "connected"}

\* The browser is disconnected, or will be.
Ending(i, MF) ==
  \/ i.closing
  \/ \E f \in MF : /\ f.tid = i.tunnid
                   /\ f.op = "ConnAbort" \/ (f.op \in {"RtnOpenTo", "ConnDone"} /\ ~f.ok)

LostOk(inf, MA, MF, sk) ==
  \A b \in Browsers :
    LET t == inf[b].tunnid
    IN /\ inf[b].state \in Waiting =>
            \/ Ending(inf[b], MF)
            \/ \E m \in MA : m.op = "OpenTo" /\ m.tid = t
            \/ sk[t].st \in {"resolving", "connecting", "connected"}
       /\ inf[b].state \in Proxying => Ending(inf[b], MF) \/ sk[t].st = "connected"

Core(inf, asg, MA, MF, sk, on) ==
  /\ IdsOk(inf, asg)
  /\ FreshOk(inf, asg, MA, MF, sk)
  /\ OpenOk(inf, MA, MF, sk)
  /\ CloseOk(inf, MA)
  /\ TargetOk(inf, sk)
  /\ DoneOk(MF, sk)
  /\ on => LostOk(inf, MA, MF, sk)

\* A tunnel is asked for once.
OnceOk(A) ==
  \A i, j \in DOMAIN A :
    A[i].op = "OpenTo" /\ A[j].op = "OpenTo" /\ A[i].tid = A[j].tid => i = j

\* The fragments of tunnel t in queue Q follow each other; the first follows
\* `base`, what has arrived already, if there is somebody to tell (known).
Carries(m, t) == m.tid = t /\ m.op \in {"OpenTo", "DataTransfer"}

Chain(Q, t, base, known) ==
  \A j \in DOMAIN Q : Q[j].tid = t /\ Q[j].op = "DataTransfer" =>
    /\ \A i \in 1 .. j - 1 :
         Carries(Q[i], t) /\ (\A k \in i + 1 .. j - 1 : ~Carries(Q[k], t)) =>
           Q[j].first = Q[i].last + 1
    /\ known /\ (\A k \in 1 .. j - 1 : ~Carries(Q[k], t)) => Q[j].first = base + 1

\* ... and the last of them ends at e.
EndIs(Q, t, base, known, e) ==
  /\ \A i \in DOMAIN Q :
       Carries(Q[i], t) /\ (\A k \in i + 1 .. Len(Q) : ~Carries(Q[k], t)) => Q[i].last = e
  /\ known /\ (\A k \in DOMAIN Q : ~Carries(Q[k], t)) => base = e

\* A browser that waits is told of its connection before it gets data.
Told(F, t, j) == \E i \in 1 .. j - 1 : F[i].op = "ConnDone" /\ F[i].tid = t /\ F[i].ok

DownTo(i, F, s, on) ==
  LET t == i.tunnid
  IN /\ Chain(F, t, i.heard, TRUE)
     /\ i.state \in Waiting => i.heard = 0
     /\ \A j \in DOMAIN F : F[j].tid = t /\ F[j].op = "DataTransfer" =>
          /\ F[j].from = i.target
          /\ i.state \in Waiting => Told(F, t, j)
     /\ on /\ s.st # "none" => EndIs(F, t, i.heard, TRUE, s.said)
     /\ on /\ s.st = "connected" /\ i.state \in Waiting => Told(F, t, Len(F) + 1)

DownOk(inf, F, sk, on) ==
  \A b \in Browsers : inf[b].state # "none" => DownTo(inf[b], F, sk[inf[b].tunnid], on)

Ok(inf, asg, A, F, sk, on) ==
  /\ Typed(inf, asg, A, F, sk)
  /\ Core(inf, asg, MsgsIn(A), MsgsIn(F), sk, on)
  /\ OnceOk(A)
  /\ DownOk(inf, F, sk, on)

\* The same for what browsers send: the last of it is what the browser has said,
\* but for what is cached.
UpOk(inf, A, sk, on) ==
  /\ \A t \in Tunnids : Chain(A, t, sk[t].heard, sk[t].st # "none")
  /\ on => \A b \in Browsers : inf[b].state \in Waiting \cup Proxying =>
       EndIs(A, inf[b].tunnid, sk[inf[b].tunnid].heard, sk[inf[b].tunnid].st # "none",
             inf[b].said - inf[b].cached)

\* Both ends have the session.
On == finder = "up" /\ admit = "up"

-----------------------------------------------------------------------------
(* Queues that get or lose a message.                                      *)

\* Q2 is Q with m at its end, and Q2 is Q without its first.
Grown(Q2, Q, m) ==
  /\ Len(Q) \in Nat /\ Len(Q2) = Len(Q) + 1
  /\ DOMAIN Q = 1 .. Len(Q) /\ DOMAIN Q2 = 1 .. Len(Q) + 1
  /\ \A i \in 1 .. Len(Q) : Q2[i] = Q[i]
  /\ Q2[Len(Q) + 1] = m

Shifted(Q2, Q) ==
  /\ Len(Q2) \in Nat /\ Len(Q) = Len(Q2) + 1
  /\ DOMAIN Q2 = 1 .. Len(Q2) /\ DOMAIN Q = 1 .. Len(Q2) + 1
  /\ \A i \in 1 .. Len(Q2) : Q2[i] = Q[i + 1]

LEMMA Growing ==
  ASSUME NEW S, NEW Q \in Seq(S), NEW m \in S
  PROVE  /\ Q \o <<m>> \in Seq(S)
         /\ Grown(Q \o <<m>>, Q, m)
         /\ MsgsIn(Q \o <<m>>) = MsgsIn(Q) \cup {m}
<1> DEFINE u == <<m>>
           Q2 == Q \o u
<1>1. u \in Seq(S) /\ Len(u) = 1 /\ u[1] = m
  OBVIOUS
<1>2. Len(Q) \in Nat /\ DOMAIN Q = 1 .. Len(Q)
  OBVIOUS
<1> HIDE DEF u
<1>3. /\ Q2 \in Seq(S) /\ Len(Q2) = Len(Q) + Len(u)
      /\ \A i \in 1 .. Len(Q) + Len(u) : Q2[i] = IF i <= Len(Q) THEN Q[i] ELSE u[i - Len(Q)]
  BY <1>1, ConcatProperties
<1> HIDE DEF Q2
<1> DEFINE n == Len(Q)
<1>4. Q2 \in Seq(S) /\ Len(Q2) = n + 1 /\ n \in Nat
  BY <1>1, <1>2, <1>3
<1>5. DOMAIN Q2 = 1 .. n + 1
  BY <1>4
<1>6. \A i \in 1 .. n : Q2[i] = Q[i]
  BY <1>1, <1>3, <1>4
<1>7. Q2[n + 1] = m
  <2>1. n + 1 \in 1 .. n + Len(u) /\ ~(n + 1 <= n) /\ (n + 1) - n = 1
    BY <1>1, <1>4
  <2> QED BY <1>1, <1>3, <2>1
<1>8. Grown(Q2, Q, m)
  BY <1>2, <1>4, <1>5, <1>6, <1>7 DEF Grown
<1>9. MsgsIn(Q2) = MsgsIn(Q) \cup {m}
  <2>1. DOMAIN Q2 = DOMAIN Q \cup {n + 1}
    BY <1>2, <1>4, <1>5
  <2> QED BY <1>2, <1>6, <1>7, <2>1 DEF MsgsIn
<1> QED BY <1>4, <1>8, <1>9 DEF Q2, u

LEMMA Shifting ==
  ASSUME NEW S, NEW Q \in Seq(S), Q # <<>>
  PROVE  /\ Tail(Q) \in Seq(S) /\ Head(Q) \in S /\ Head(Q) = Q[1]
         /\ Shifted(Tail(Q), Q)
         /\ MsgsIn(Q) = MsgsIn(Tail(Q)) \cup {Head(Q)}
<1> DEFINE T == Tail(Q)
           n == Len(T)
<1>1. T \in Seq(S) /\ Head(Q) \in S /\ Head(Q) = Q[1] /\ Len(Q) = n + 1 /\ n \in Nat
  OBVIOUS
<1>2. \A i \in 1 .. n : T[i] = Q[i + 1]
  OBVIOUS
<1>3. DOMAIN T = 1 .. n /\ DOMAIN Q = 1 .. n + 1
  BY <1>1
<1> HIDE DEF T
<1>4. Shifted(T, Q)
  BY <1>1, <1>2, <1>3 DEF Shifted
<1>5. MsgsIn(Q) = MsgsIn(T) \cup {Head(Q)}
  <2>1. ASSUME NEW i \in DOMAIN Q PROVE Q[i] \in MsgsIn(T) \cup {Head(Q)}
    <3>1. i = 1 \/ (i - 1 \in 1 .. n /\ (i - 1) + 1 = i)
      BY <1>1, <1>3
    <3>2. CASE i - 1 \in 1 .. n /\ (i - 1) + 1 = i
      BY <1>2, <1>3, <3>2 DEF MsgsIn
    <3> QED BY <1>1, <3>1, <3>2
  <2>2. ASSUME NEW i \in DOMAIN T PROVE T[i] \in MsgsIn(Q)
    <3>1. i + 1 \in DOMAIN Q /\ T[i] = Q[i + 1]
      BY <1>1, <1>2, <1>3
    <3> QED BY <3>1 DEF MsgsIn
  <2>3. Head(Q) \in MsgsIn(Q)
    <3>1. 1 \in DOMAIN Q
      BY <1>1, <1>3
    <3> QED BY <1>1, <3>1 DEF MsgsIn
  <2> QED BY <2>1, <2>2, <2>3 DEF MsgsIn
<1> QED BY <1>1, <1>4, <1>5 DEF T

-----------------------------------------------------------------------------
(* Chains of fragments.                                                    *)

\* Somebody who is no longer there need not be told.
LEMMA ChainForgets ==
  ASSUME NEW Q, NEW t, NEW base, NEW other, NEW known, Chain(Q, t, base, known)
  PROVE  Chain(Q, t, other, FALSE)
BY DEF Chain

LEMMA EndForgets ==
  ASSUME NEW Q, NEW t, NEW base, NEW other, NEW known, NEW e, EndIs(Q, t, base, known, e)
  PROVE  EndIs(Q, t, other, FALSE, e)
BY DEF EndIs

\* A message that carries nothing of t, at the end or at the head.
LEMMA ChainPassesEnd ==
  ASSUME NEW Q2, NEW Q, NEW m, Grown(Q2, Q, m), NEW t, ~Carries(m, t),
         NEW base, NEW known, NEW e
  PROVE  /\ Chain(Q, t, base, known) => Chain(Q2, t, base, known)
         /\ EndIs(Q, t, base, known, e) => EndIs(Q2, t, base, known, e)
<1> DEFINE n == Len(Q)
<1>1. /\ n \in Nat /\ Len(Q2) = n + 1
      /\ DOMAIN Q = 1 .. n /\ DOMAIN Q2 = 1 .. n + 1
      /\ \A i \in 1 .. n : Q2[i] = Q[i]
      /\ Q2[n + 1] = m
  BY DEF Grown
<1> HIDE DEF n
<1>2. ASSUME Chain(Q, t, base, known) PROVE Chain(Q2, t, base, known)
  <2>1. SUFFICES ASSUME NEW j \in 1 .. n + 1, Q2[j].tid = t, Q2[j].op = "DataTransfer"
        PROVE  /\ \A i \in 1 .. j - 1 :
                    Carries(Q2[i], t) /\ (\A k \in i + 1 .. j - 1 : ~Carries(Q2[k], t)) =>
                      Q2[j].first = Q2[i].last + 1
               /\ known /\ (\A k \in 1 .. j - 1 : ~Carries(Q2[k], t)) => Q2[j].first = base + 1
    BY <1>1 DEF Chain
  <2>2. j \in 1 .. n
    BY <1>1, <2>1 DEF Carries
  <2>3. Q2[j] = Q[j] /\ \A k \in 1 .. j - 1 : Q2[k] = Q[k] /\ k \in 1 .. n
    BY <1>1, <2>2
  <2>4. \A i \in 1 .. j - 1 : \A k \in i + 1 .. j - 1 : k \in 1 .. j - 1
    BY <1>1, <2>2
  <2> QED BY <1>1, <1>2, <2>1, <2>2, <2>3, <2>4 DEF Chain
<1>3. ASSUME EndIs(Q, t, base, known, e) PROVE EndIs(Q2, t, base, known, e)
  <2>1. ASSUME NEW i \in DOMAIN Q2, Carries(Q2[i], t),
               \A k \in i + 1 .. Len(Q2) : ~Carries(Q2[k], t)
        PROVE  Q2[i].last = e
    <3>1. i \in 1 .. n
      BY <1>1, <2>1
    <3>2. \A k \in i + 1 .. n : k \in i + 1 .. Len(Q2) /\ k \in 1 .. n
      BY <1>1, <3>1
    <3>3. \A k \in i + 1 .. n : ~Carries(Q[k], t)
      BY <1>1, <2>1, <3>2
    <3> QED BY <1>1, <1>3, <2>1, <3>1, <3>3 DEF EndIs, n
  <2>2. ASSUME known, \A k \in DOMAIN Q2 : ~Carries(Q2[k], t) PROVE base = e
    <3>1. \A k \in 1 .. n : k \in 1 .. n + 1
      BY <1>1
    <3> QED BY <1>1, <1>3, <2>2, <3>1 DEF EndIs
  <2> QED BY <2>1, <2>2 DEF EndIs
<1> QED BY <1>2, <1>3

LEMMA ChainPassesHead ==
  ASSUME NEW Q2, NEW Q, Shifted(Q2, Q), NEW t, ~Carries(Q[1], t),
         NEW base, NEW known, NEW e
  PROVE  /\ Chain(Q, t, base, known) => Chain(Q2, t, base, known)
         /\ EndIs(Q, t, base, known, e) => EndIs(Q2, t, base, known, e)
<1> DEFINE n == Len(Q2)
<1>1. /\ n \in Nat /\ Len(Q) = n + 1
      /\ DOMAIN Q2 = 1 .. n /\ DOMAIN Q = 1 .. n + 1
      /\ \A i \in 1 .. n : Q2[i] = Q[i + 1]
  BY DEF Shifted
<1> HIDE DEF n
<1>2. \A k \in 1 .. n + 1 : k # 1 => k - 1 \in 1 .. n /\ Q[k] = Q2[k - 1]
  <2>1. ASSUME NEW k \in 1 .. n + 1, k # 1 PROVE k - 1 \in 1 .. n /\ Q[k] = Q2[k - 1]
    <3>1. k - 1 \in 1 .. n /\ (k - 1) + 1 = k
      BY <1>1, <2>1
    <3> QED BY <1>1, <3>1
  <2> QED BY <2>1
<1>3. ASSUME Chain(Q, t, base, known) PROVE Chain(Q2, t, base, known)
  <2>1. SUFFICES ASSUME NEW j \in 1 .. n, Q2[j].tid = t, Q2[j].op = "DataTransfer"
        PROVE  /\ \A i \in 1 .. j - 1 :
                    Carries(Q2[i], t) /\ (\A k \in i + 1 .. j - 1 : ~Carries(Q2[k], t)) =>
                      Q2[j].first = Q2[i].last + 1
               /\ known /\ (\A k \in 1 .. j - 1 : ~Carries(Q2[k], t)) => Q2[j].first = base + 1
    BY <1>1 DEF Chain
  <2>2. j + 1 \in 1 .. n + 1 /\ (j + 1) - 1 = j /\ Q[j + 1] = Q2[j]
    BY <1>1
  <2>3. /\ \A i \in 1 .. j : Carries(Q[i], t) /\ (\A k \in i + 1 .. j : ~Carries(Q[k], t)) =>
             Q[j + 1].first = Q[i].last + 1
        /\ known /\ (\A k \in 1 .. j : ~Carries(Q[k], t)) => Q[j + 1].first = base + 1
    <3> DEFINE l == j + 1
    <3>1. l \in DOMAIN Q /\ l - 1 = j
      BY <1>1, <2>2
    <3>2. Q[l].tid = t /\ Q[l].op = "DataTransfer"
      BY <2>1, <2>2
    <3> HIDE DEF l
    <3>3. /\ \A i \in 1 .. l - 1 :
               Carries(Q[i], t) /\ (\A k \in i + 1 .. l - 1 : ~Carries(Q[k], t)) =>
                 Q[l].first = Q[i].last + 1
          /\ known /\ (\A k \in 1 .. l - 1 : ~Carries(Q[k], t)) => Q[l].first = base + 1
      BY <1>3, <3>1, <3>2 DEF Chain
    <3> QED BY <3>1, <3>3 DEF l
  <2>4. ASSUME NEW i \in 1 .. j - 1, Carries(Q2[i], t),
               \A k \in i + 1 .. j - 1 : ~Carries(Q2[k], t)
        PROVE  Q2[j].first = Q2[i].last + 1
    <3>1. i + 1 \in 1 .. j /\ i \in 1 .. n /\ Q[i + 1] = Q2[i]
      BY <1>1, <2>4
    <3>2. ASSUME NEW k \in (i + 1) + 1 .. j PROVE ~Carries(Q[k], t)
      <4>1. k \in 1 .. n + 1 /\ k # 1 /\ k - 1 \in i + 1 .. j - 1
        BY <1>1, <2>4, <3>2
      <4> QED BY <1>2, <2>4, <4>1
    <3> QED BY <2>2, <2>3, <2>4, <3>1, <3>2
  <2>5. ASSUME known, \A k \in 1 .. j - 1 : ~Carries(Q2[k], t) PROVE Q2[j].first = base + 1
    <3>1. ASSUME NEW k \in 1 .. j PROVE ~Carries(Q[k], t)
      <4>1. k = 1 \/ (k \in 1 .. n + 1 /\ k # 1 /\ k - 1 \in 1 .. j - 1)
        BY <1>1
      <4> QED BY <1>2, <2>5, <4>1
    <3> QED BY <2>2, <2>3, <2>5, <3>1
  <2> QED BY <2>4, <2>5
<1>4. ASSUME EndIs(Q, t, base, known, e) PROVE EndIs(Q2, t, base, known, e)
  <2>1. ASSUME NEW i \in DOMAIN Q2, Carries(Q2[i], t),
               \A k \in i + 1 .. Len(Q2) : ~Carries(Q2[k], t)
        PROVE  Q2[i].last = e
    <3>1. i + 1 \in DOMAIN Q /\ Q[i + 1] = Q2[i] /\ i \in 1 .. n
      BY <1>1
    <3>2. ASSUME NEW k \in (i + 1) + 1 .. Len(Q) PROVE ~Carries(Q[k], t)
      <4>1. k \in 1 .. n + 1 /\ k # 1 /\ k - 1 \in i + 1 .. n
        BY <1>1, <3>1
      <4> QED BY <1>2, <2>1, <4>1 DEF n
    <3> QED BY <1>4, <2>1, <3>1, <3>2 DEF EndIs
  <2>2. ASSUME known, \A k \in DOMAIN Q2 : ~Carries(Q2[k], t) PROVE base = e
    <3>1. ASSUME NEW k \in DOMAIN Q PROVE ~Carries(Q[k], t)
      BY <1>1, <1>2, <2>2
    <3> QED BY <1>4, <2>2, <3>1 DEF EndIs
  <2> QED BY <2>1, <2>2 DEF EndIs
<1> QED BY <1>3, <1>4

\* The next fragments, at the end.
LEMMA ChainGrows ==
  ASSUME NEW Q2, NEW Q, NEW m, Grown(Q2, Q, m), NEW t, Carries(m, t),
         NEW base, NEW known, NEW e, Chain(Q, t, base, known),
         m.op = "DataTransfer" => EndIs(Q, t, base, known, e) /\ m.first = e + 1
  PROVE  Chain(Q2, t, base, known) /\ EndIs(Q2, t, base, known, m.last)
<1> DEFINE n == Len(Q)
<1>1. /\ n \in Nat /\ Len(Q2) = n + 1
      /\ DOMAIN Q = 1 .. n /\ DOMAIN Q2 = 1 .. n + 1
      /\ \A i \in 1 .. n : Q2[i] = Q[i]
      /\ Q2[n + 1] = m
  BY DEF Grown
<1>2. m.op = "DataTransfer" =>
        /\ \A i \in 1 .. n :
             Carries(Q[i], t) /\ (\A k \in i + 1 .. n : ~Carries(Q[k], t)) => Q[i].last = e
        /\ known /\ (\A k \in 1 .. n : ~Carries(Q[k], t)) => base = e
  BY <1>1 DEF EndIs
<1> HIDE DEF n
<1>3. ASSUME NEW j \in 1 .. n + 1, Q2[j].tid = t, Q2[j].op = "DataTransfer"
      PROVE  /\ \A i \in 1 .. j - 1 :
                  Carries(Q2[i], t) /\ (\A k \in i + 1 .. j - 1 : ~Carries(Q2[k], t)) =>
                    Q2[j].first = Q2[i].last + 1
             /\ known /\ (\A k \in 1 .. j - 1 : ~Carries(Q2[k], t)) => Q2[j].first = base + 1
  <2>1. CASE j \in 1 .. n
    <3>1. Q2[j] = Q[j] /\ \A k \in 1 .. j - 1 : Q2[k] = Q[k] /\ k \in 1 .. n
      BY <1>1, <2>1
    <3>2. \A i \in 1 .. j - 1 : \A k \in i + 1 .. j - 1 : k \in 1 .. j - 1
      BY <1>1, <2>1
    <3> QED BY <1>1, <1>3, <2>1, <3>1, <3>2 DEF Chain
  <2>2. CASE j = n + 1
    <3>1. j - 1 = n
      BY <1>1, <2>2
    <3>2. Q2[j] = m /\ m.first = e + 1 /\ m.op = "DataTransfer"
      BY <1>1, <1>3, <2>2
    <3>3. \A i \in 1 .. n : \A k \in i + 1 .. n : k \in 1 .. n
      BY <1>1
    <3> QED BY <1>1, <1>2, <3>1, <3>2, <3>3
  <2> QED BY <1>1, <2>1, <2>2
<1>4. Chain(Q2, t, base, known)
  BY <1>1, <1>3 DEF Chain
<1>5. EndIs(Q2, t, base, known, m.last)
  <2>1. n + 1 \in DOMAIN Q2 /\ Carries(Q2[n + 1], t)
    BY <1>1
  <2>2. ASSUME NEW i \in DOMAIN Q2, \A k \in i + 1 .. Len(Q2) : ~Carries(Q2[k], t)
        PROVE  Q2[i].last = m.last
    <3>1. ~(n + 1 \in i + 1 .. Len(Q2))
      BY <2>1, <2>2
    <3>2. i = n + 1
      BY <1>1, <3>1
    <3> QED BY <1>1, <3>2
  <2> QED BY <2>1, <2>2 DEF EndIs
<1> QED BY <1>4, <1>5

\* The first fragments arrive.
LEMMA ChainShrinks ==
  ASSUME NEW Q2, NEW Q, Shifted(Q2, Q), NEW t, Carries(Q[1], t),
         NEW base, NEW known, NEW now, NEW e
  PROVE  /\ Chain(Q, t, base, known) => Chain(Q2, t, Q[1].last, now)
         /\ EndIs(Q, t, base, known, e) => EndIs(Q2, t, Q[1].last, now, e)
         /\ Chain(Q, t, base, TRUE) /\ Q[1].op = "DataTransfer" => Q[1].first = base + 1
<1> DEFINE n == Len(Q2)
<1>1. /\ n \in Nat /\ Len(Q) = n + 1
      /\ DOMAIN Q2 = 1 .. n /\ DOMAIN Q = 1 .. n + 1
      /\ \A i \in 1 .. n : Q2[i] = Q[i + 1]
  BY DEF Shifted
<1> HIDE DEF n
<1>2. \A k \in 1 .. n + 1 : k # 1 => k - 1 \in 1 .. n /\ Q[k] = Q2[k - 1]
  <2>1. ASSUME NEW k \in 1 .. n + 1, k # 1 PROVE k - 1 \in 1 .. n /\ Q[k] = Q2[k - 1]
    <3>1. k - 1 \in 1 .. n /\ (k - 1) + 1 = k
      BY <1>1, <2>1
    <3> QED BY <1>1, <3>1
  <2> QED BY <2>1
<1>3. ASSUME Chain(Q, t, base, known) PROVE Chain(Q2, t, Q[1].last, now)
  <2>1. SUFFICES ASSUME NEW j \in 1 .. n, Q2[j].tid = t, Q2[j].op = "DataTransfer"
        PROVE  /\ \A i \in 1 .. j - 1 :
                    Carries(Q2[i], t) /\ (\A k \in i + 1 .. j - 1 : ~Carries(Q2[k], t)) =>
                      Q2[j].first = Q2[i].last + 1
               /\ now /\ (\A k \in 1 .. j - 1 : ~Carries(Q2[k], t)) =>
                    Q2[j].first = Q[1].last + 1
    BY <1>1 DEF Chain
  <2>2. j + 1 \in 1 .. n + 1 /\ (j + 1) - 1 = j /\ Q[j + 1] = Q2[j]
    BY <1>1
  <2>3. \A i \in 1 .. j : Carries(Q[i], t) /\ (\A k \in i + 1 .. j : ~Carries(Q[k], t)) =>
          Q[j + 1].first = Q[i].last + 1
    <3> DEFINE l == j + 1
    <3>1. l \in DOMAIN Q /\ l - 1 = j
      BY <1>1, <2>2
    <3>2. Q[l].tid = t /\ Q[l].op = "DataTransfer"
      BY <2>1, <2>2
    <3> HIDE DEF l
    <3>3. \A i \in 1 .. l - 1 :
            Carries(Q[i], t) /\ (\A k \in i + 1 .. l - 1 : ~Carries(Q[k], t)) =>
              Q[l].first = Q[i].last + 1
      BY <1>3, <3>1, <3>2 DEF Chain
    <3> QED BY <3>1, <3>3 DEF l
  <2>4. ASSUME NEW i \in 1 .. j - 1, Carries(Q2[i], t),
               \A k \in i + 1 .. j - 1 : ~Carries(Q2[k], t)
        PROVE  Q2[j].first = Q2[i].last + 1
    <3>1. i + 1 \in 1 .. j /\ i \in 1 .. n /\ Q[i + 1] = Q2[i]
      BY <1>1, <2>4
    <3>2. ASSUME NEW k \in (i + 1) + 1 .. j PROVE ~Carries(Q[k], t)
      <4>1. k \in 1 .. n + 1 /\ k # 1 /\ k - 1 \in i + 1 .. j - 1
        BY <1>1, <2>4, <3>2
      <4> QED BY <1>2, <2>4, <4>1
    <3> QED BY <2>2, <2>3, <2>4, <3>1, <3>2
  <2>5. ASSUME now, \A k \in 1 .. j - 1 : ~Carries(Q2[k], t)
        PROVE  Q2[j].first = Q[1].last + 1
    <3>1. ASSUME NEW k \in 1 + 1 .. j PROVE ~Carries(Q[k], t)
      <4>1. k \in 1 .. n + 1 /\ k # 1 /\ k - 1 \in 1 .. j - 1
        BY <1>1
      <4> QED BY <1>2, <2>5, <4>1
    <3>2. 1 \in 1 .. j
      BY <1>1
    <3> QED BY <2>2, <2>3, <3>1, <3>2
  <2> QED BY <2>4, <2>5
<1>4. ASSUME EndIs(Q, t, base, known, e) PROVE EndIs(Q2, t, Q[1].last, now, e)
  <2>1. ASSUME NEW i \in DOMAIN Q2, Carries(Q2[i], t),
               \A k \in i + 1 .. Len(Q2) : ~Carries(Q2[k], t)
        PROVE  Q2[i].last = e
    <3>1. i + 1 \in DOMAIN Q /\ Q[i + 1] = Q2[i] /\ i \in 1 .. n
      BY <1>1
    <3>2. ASSUME NEW k \in (i + 1) + 1 .. Len(Q) PROVE ~Carries(Q[k], t)
      <4>1. k \in 1 .. n + 1 /\ k # 1 /\ k - 1 \in i + 1 .. n
        BY <1>1, <3>1
      <4> QED BY <1>2, <2>1, <4>1 DEF n
    <3> QED BY <1>4, <2>1, <3>1, <3>2 DEF EndIs
  <2>2. ASSUME \A k \in DOMAIN Q2 : ~Carries(Q2[k], t) PROVE Q[1].last = e
    <3>1. ASSUME NEW k \in 1 + 1 .. Len(Q) PROVE ~Carries(Q[k], t)
      <4>1. k \in 1 .. n + 1 /\ k # 1 /\ k - 1 \in 1 .. n
        BY <1>1
      <4> QED BY <1>1, <1>2, <2>2, <4>1
    <3>2. 1 \in DOMAIN Q
      BY <1>1
    <3> QED BY <1>4, <3>1, <3>2 DEF EndIs
  <2> QED BY <2>1, <2>2 DEF EndIs
<1>5. ASSUME Chain(Q, t, base, TRUE), Q[1].op = "DataTransfer" PROVE Q[1].first = base + 1
  <2>1. 1 \in DOMAIN Q /\ Q[1].tid = t /\ \A k \in 1 .. 1 - 1 : FALSE
    BY <1>1 DEF Carries
  <2> QED BY <1>5, <2>1 DEF Chain
<1> QED BY <1>3, <1>4, <1>5

\* Nothing of t is on its way.
LEMMA ChainOfNone ==
  ASSUME NEW Q, NEW t, \A m \in MsgsIn(Q) : m.tid # t, NEW base, NEW known
  PROVE  Chain(Q, t, base, known) /\ EndIs(Q, t, base, known, base)
<1>1. \A i \in DOMAIN Q : Q[i].tid # t
  BY DEF MsgsIn
<1> QED BY <1>1 DEF Chain, EndIs, Carries

\* Messages are put at the end of a queue, unless the session is lost.
Sending(Q, ms, on) == IF on THEN Q \o ms ELSE Q
Queued(Q, m, on) == Sending(Q, <<m>>, on)
Appended(Q2, Q, m, on) == (on /\ Grown(Q2, Q, m)) \/ (~on /\ Q2 = Q)

LEMMA Appending ==
  ASSUME NEW S, NEW Q \in Seq(S), NEW m \in S, NEW on \in BOOLEAN
  PROVE  LET Q2 == Queued(Q, m, on)
         IN /\ Q2 \in Seq(S) /\ Appended(Q2, Q, m, on)
            /\ MsgsIn(Q) \subseteq MsgsIn(Q2) /\ MsgsIn(Q2) \subseteq MsgsIn(Q) \cup {m}
            /\ on => m \in MsgsIn(Q2)
<1>1. CASE on
  <2> HIDE <1>1
  <2>1. Q \o <<m>> \in Seq(S) /\ Grown(Q \o <<m>>, Q, m) /\ MsgsIn(Q \o <<m>>) = MsgsIn(Q) \cup {m}
    BY Growing
  <2> QED BY <1>1, <2>1 DEF Appended, Sending, Queued
<1>2. CASE ~on
  BY <1>2 DEF Appended, Sending, Queued
<1> QED BY <1>1, <1>2

LEMMA AppendPasses ==
  ASSUME NEW Q2, NEW Q, NEW m, NEW on, Appended(Q2, Q, m, on), NEW t, ~Carries(m, t),
         NEW base, NEW known, NEW e
  PROVE  /\ Chain(Q, t, base, known) => Chain(Q2, t, base, known)
         /\ EndIs(Q, t, base, known, e) => EndIs(Q2, t, base, known, e)
BY ChainPassesEnd DEF Appended

-----------------------------------------------------------------------------
(* States.                                                                 *)

LEMMA Classes ==
  /\ "none" \notin Early \cup Waiting \cup Proxying
  /\ \A s : ~(s \in Early /\ s \in Waiting) /\ ~(s \in Early /\ s \in Proxying)
            /\ ~(s \in Waiting /\ s \in Proxying)
BY DEF Early, Waiting, Proxying

LEMMA Types ==
  ASSUME NEW inf, NEW asg, NEW A, NEW F, NEW sk, Typed(inf, asg, A, F, sk)
  PROVE  /\ asg \in Nat /\ asg <= MaxTunnid /\ MaxTunnid \in Nat
         /\ \A b \in Browsers :
              /\ inf[b] \in Info
              /\ inf[b].tunnid \in Nat /\ (inf[b].tunnid # 0 => inf[b].tunnid \in Tunnids)
              /\ inf[b].state = "none" \/ inf[b].state \in Early
                   \/ inf[b].state \in Waiting \/ inf[b].state \in Proxying
              /\ inf[b].said \in Nat /\ inf[b].cached \in Nat /\ inf[b].heard \in Nat
         /\ \A m \in MsgsIn(A) : m \in AdmitMsg /\ m.tid \in Tunnids
         /\ \A m \in MsgsIn(F) : m \in FinderMsg /\ m.tid \in Tunnids
         /\ \A t \in Tunnids : sk[t] \in Sock
<1>1. MaxTunnid \in Nat
  BY TunnelAssumption
<1>2. /\ inf \in [Browsers -> Info] /\ asg \in 0 .. MaxTunnid
      /\ A \in Seq(AdmitMsg) /\ F \in Seq(FinderMsg) /\ sk \in [Tunnids -> Sock]
  BY DEF Typed
<1>3. (\A m \in MsgsIn(A) : m \in AdmitMsg) /\ (\A m \in MsgsIn(F) : m \in FinderMsg)
  BY <1>2 DEF MsgsIn
<1>4. \A m \in AdmitMsg : m.tid \in Tunnids
  BY DEF AdmitMsg
<1>5. \A m \in FinderMsg : m.tid \in Tunnids
  BY DEF FinderMsg
<1>6. \A i \in Info :
        /\ i.tunnid \in 0 .. MaxTunnid
        /\ i.state = "none" \/ i.state \in Early \/ i.state \in Waiting \/ i.state \in Proxying
        /\ i.said \in Nat /\ i.cached \in Nat /\ i.heard \in Nat
  BY DEF Info
<1>7. \A i \in Info : i.tunnid \in Nat /\ (i.tunnid # 0 => i.tunnid \in Tunnids)
  BY <1>1, <1>6 DEF Tunnids
<1> QED BY <1>1, <1>2, <1>3, <1>4, <1>5, <1>6, <1>7

\* The parts of the invariant.
LEMMA Parts ==
  ASSUME NEW inf, NEW asg, NEW A, NEW F, NEW sk, NEW on, Ok(inf, asg, A, F, sk, on)
  PROVE  /\ Typed(inf, asg, A, F, sk)
         /\ IdsOk(inf, asg) /\ FreshOk(inf, asg, MsgsIn(A), MsgsIn(F), sk)
         /\ OpenOk(inf, MsgsIn(A), MsgsIn(F), sk) /\ CloseOk(inf, MsgsIn(A))
         /\ TargetOk(inf, sk) /\ DoneOk(MsgsIn(F), sk)
         /\ on => LostOk(inf, MsgsIn(A), MsgsIn(F), sk)
         /\ OnceOk(A) /\ DownOk(inf, F, sk, on)
BY DEF Ok, Core

\* What is known of a tunnel on which something happens.
LEMMA TunnelHas ==
  ASSUME NEW inf, NEW asg, NEW A, NEW F, NEW sk, NEW on, Ok(inf, asg, A, F, sk, on),
         NEW t \in Tunnids, ~Silent(t, MsgsIn(A), MsgsIn(F), sk)
  PROVE  t <= asg /\ \A b \in Browsers : inf[b].tunnid = t =>
                        inf[b].state \in Waiting \/ inf[b].state \in Proxying
<1>1. Typed(inf, asg, A, F, sk) /\ IdsOk(inf, asg)
        /\ FreshOk(inf, asg, MsgsIn(A), MsgsIn(F), sk)
  BY Parts
<1>2. t \in Nat /\ t # 0
  BY TunnelAssumption DEF Tunnids
<1>3. asg \in Nat
  BY <1>1, Types
<1>4. t <= asg
  BY <1>1, <1>2, <1>3 DEF FreshOk
<1>5. ASSUME NEW b \in Browsers, inf[b].tunnid = t
      PROVE  inf[b].state \in Waiting \/ inf[b].state \in Proxying
  <2>1. inf[b].state # "none"
    BY <1>1, <1>2, <1>5 DEF IdsOk
  <2>2. inf[b].state \notin Early
    BY <1>1, <1>5 DEF FreshOk
  <2>3. inf[b].state = "none" \/ inf[b].state \in Early
          \/ inf[b].state \in Waiting \/ inf[b].state \in Proxying
    BY <1>1, Types
  <2> QED BY <2>1, <2>2, <2>3
<1> QED BY <1>4, <1>5

\* The same tunnel, as far as it has got; and with the same fragments sent.
Same(j, i) ==
  /\ j.tunnid = i.tunnid /\ j.target = i.target /\ j.heard = i.heard
  /\ j.state = "none" <=> i.state = "none"
  /\ j.state \in Early <=> i.state \in Early
  /\ j.state \in Waiting <=> i.state \in Waiting
  /\ j.state \in Proxying <=> i.state \in Proxying
  /\ i.closing => j.closing

Alike(j, i) == Same(j, i) /\ j.said - j.cached = i.said - i.cached

LEMMA Resembling ==
  ASSUME NEW inf, NEW asg, NEW A, NEW F, NEW sk, NEW on, Ok(inf, asg, A, F, sk, on),
         NEW inf2 \in [Browsers -> Info], \A b \in Browsers : Same(inf2[b], inf[b]),
         NEW on2, on2 => on
  PROVE  Ok(inf2, asg, A, F, sk, on2)
<1>1. /\ Typed(inf, asg, A, F, sk)
      /\ IdsOk(inf, asg) /\ FreshOk(inf, asg, MsgsIn(A), MsgsIn(F), sk)
      /\ OpenOk(inf, MsgsIn(A), MsgsIn(F), sk) /\ CloseOk(inf, MsgsIn(A))
      /\ TargetOk(inf, sk) /\ DoneOk(MsgsIn(F), sk)
      /\ on => LostOk(inf, MsgsIn(A), MsgsIn(F), sk)
      /\ OnceOk(A) /\ DownOk(inf, F, sk, on)
  BY Parts
<1>2. Typed(inf2, asg, A, F, sk)
  BY <1>1 DEF Typed
<1>3. IdsOk(inf2, asg)
  BY <1>1 DEF IdsOk, Same
<1>4. FreshOk(inf2, asg, MsgsIn(A), MsgsIn(F), sk)
  BY <1>1 DEF FreshOk, Same
<1>5. OpenOk(inf2, MsgsIn(A), MsgsIn(F), sk) /\ CloseOk(inf2, MsgsIn(A)) /\ TargetOk(inf2, sk)
  BY <1>1 DEF OpenOk, CloseOk, TargetOk, Same
<1>6. on2 => LostOk(inf2, MsgsIn(A), MsgsIn(F), sk)
  BY <1>1 DEF LostOk, Ending, Same
<1>7. DownOk(inf2, F, sk, on2)
  BY <1>1 DEF DownOk, DownTo, Same
<1> QED BY <1>1, <1>2, <1>3, <1>4, <1>5, <1>6, <1>7 DEF Ok, Core

\* What a browser sends is kept, or its disconnect is posted; the session may go.
LEMMA Kept ==
  ASSUME NEW inf, NEW asg, NEW A, NEW F, NEW sk, NEW on, Ok(inf, asg, A, F, sk, on),
         NEW inf2 \in [Browsers -> Info], \A b \in Browsers : Alike(inf2[b], inf[b]),
         NEW on2, on2 => on
  PROVE  /\ Ok(inf2, asg, A, F, sk, on2)
         /\ UpOk(inf, A, sk, on) => UpOk(inf2, A, sk, on2)
<1>1. Ok(inf2, asg, A, F, sk, on2)
  BY Resembling DEF Alike
<1>2. UpOk(inf, A, sk, on) => UpOk(inf2, A, sk, on2)
  BY DEF UpOk, Alike, Same
<1> QED BY <1>1, <1>2

-----------------------------------------------------------------------------
(* The steps of a browser: it comes, asks, leaves, is told, and sends.     *)

\* A browser comes, and gets an id that nobody has heard of.
LEMMA Comes ==
  ASSUME NEW inf, NEW asg, NEW A, NEW F, NEW sk, NEW on, Ok(inf, asg, A, F, sk, on),
         NEW b \in Browsers, inf[b].state = "none", asg < MaxTunnid,
         NEW inf2 \in [Browsers -> Info], \A c \in Browsers : c # b => inf2[c] = inf[c],
         inf2[b].state \in Early, inf2[b].tunnid = asg + 1
  PROVE  /\ Ok(inf2, asg + 1, A, F, sk, on)
         /\ UpOk(inf, A, sk, on) => UpOk(inf2, A, sk, on)
<1> DEFINE n == asg + 1
<1>1. /\ Typed(inf, asg, A, F, sk)
      /\ IdsOk(inf, asg) /\ FreshOk(inf, asg, MsgsIn(A), MsgsIn(F), sk)
      /\ OpenOk(inf, MsgsIn(A), MsgsIn(F), sk) /\ CloseOk(inf, MsgsIn(A))
      /\ TargetOk(inf, sk) /\ DoneOk(MsgsIn(F), sk)
      /\ on => LostOk(inf, MsgsIn(A), MsgsIn(F), sk)
      /\ OnceOk(A) /\ DownOk(inf, F, sk, on)
  BY Parts
<1>2. /\ asg \in Nat /\ MaxTunnid \in Nat
      /\ \A c \in Browsers : inf[c].tunnid \in Nat
      /\ \A t \in Tunnids : t \in Nat
  BY <1>1, Types DEF Tunnids
<1>3. n \in Tunnids /\ n > asg /\ n # 0 /\ n \in 0 .. MaxTunnid /\ \A t \in Nat : t <= asg => t <= n /\ t # n
  BY <1>2 DEF Tunnids
<1>4. Silent(n, MsgsIn(A), MsgsIn(F), sk)
  BY <1>1, <1>3 DEF FreshOk
<1>5. \A c \in Browsers : c # b => inf2[c] = inf[c] /\ inf2[c].tunnid # n
  BY <1>1, <1>2, <1>3 DEF IdsOk
<1>6. inf2[b].state \notin Waiting /\ inf2[b].state \notin Proxying /\ inf2[b].state # "none"
        /\ inf2[b].tunnid = n
  BY Classes
<1>7. \A t \in Tunnids : t > n => t > asg
  BY <1>2
<1> HIDE DEF n
<1>8. Typed(inf2, n, A, F, sk)
  BY <1>1, <1>3 DEF Typed
<1>9. IdsOk(inf2, n)
  BY <1>1, <1>2, <1>3, <1>5, <1>6 DEF IdsOk
<1>10. FreshOk(inf2, n, MsgsIn(A), MsgsIn(F), sk)
  BY <1>1, <1>4, <1>5, <1>6, <1>7 DEF FreshOk
<1>11. OpenOk(inf2, MsgsIn(A), MsgsIn(F), sk)
  BY <1>1, <1>4, <1>5, <1>6 DEF OpenOk, Silent
<1>12. CloseOk(inf2, MsgsIn(A))
  BY <1>1, <1>4, <1>5, <1>6 DEF CloseOk, Silent
<1>13. TargetOk(inf2, sk)
  BY <1>1, <1>4, <1>5, <1>6 DEF TargetOk, Silent
<1>14. on => LostOk(inf2, MsgsIn(A), MsgsIn(F), sk)
  BY <1>1, <1>5, <1>6 DEF LostOk
<1>15. DownOk(inf2, F, sk, on)
  <2>1. Chain(F, n, inf2[b].heard, TRUE) /\ (\A j \in DOMAIN F : F[j].tid # n) /\ sk[n].st = "none"
    BY <1>4, ChainOfNone DEF Silent, MsgsIn
  <2> QED BY <1>1, <1>5, <1>6, <2>1, Classes DEF DownOk, DownTo
<1>16. UpOk(inf, A, sk, on) => UpOk(inf2, A, sk, on)
  BY <1>5, <1>6 DEF UpOk
<1> QED BY <1>1, <1>8, <1>9, <1>10, <1>11, <1>12, <1>13, <1>14, <1>15, <1>16 DEF Ok, Core, n

\* It asks for its target.
LEMMA Asks ==
  ASSUME NEW inf, NEW asg, NEW A, NEW F, NEW sk, NEW on \in BOOLEAN,
         Ok(inf, asg, A, F, sk, on),
         NEW b \in Browsers, inf[b].state \in Early,
         NEW inf2 \in [Browsers -> Info], \A c \in Browsers : c # b => inf2[c] = inf[c],
         inf2[b].state \in Waiting, inf2[b].tunnid = inf[b].tunnid,
         inf2[b].target \in Targets, inf2[b].cached = 0, inf2[b].heard = 0,
         NEW A2,
         A2 = Queued(A, OpenTo(inf[b].tunnid, inf2[b].target, inf2[b].said), on)
  PROVE  /\ Ok(inf2, asg, A2, F, sk, on)
         /\ UpOk(inf, A, sk, on) => UpOk(inf2, A2, sk, on)
<1> DEFINE t == inf[b].tunnid
           m == OpenTo(t, inf2[b].target, inf2[b].said)
<1>1. /\ Typed(inf, asg, A, F, sk)
      /\ IdsOk(inf, asg) /\ FreshOk(inf, asg, MsgsIn(A), MsgsIn(F), sk)
      /\ OpenOk(inf, MsgsIn(A), MsgsIn(F), sk) /\ CloseOk(inf, MsgsIn(A))
      /\ TargetOk(inf, sk) /\ DoneOk(MsgsIn(F), sk)
      /\ on => LostOk(inf, MsgsIn(A), MsgsIn(F), sk)
      /\ OnceOk(A) /\ DownOk(inf, F, sk, on)
  BY Parts
<1>2. /\ asg \in Nat /\ A \in Seq(AdmitMsg)
      /\ \A c \in Browsers : inf[c].tunnid \in Nat
      /\ \A u \in Tunnids : u \in Nat
      /\ t # 0 => t \in Tunnids
  <2>1. \A u \in Tunnids : u \in Nat
    BY DEF Tunnids
  <2> QED BY <1>1, <2>1, Types DEF Typed
<1>3. inf[b].state # "none" /\ inf2[b].state # "none" /\ inf2[b].state \notin Early
        /\ inf2[b].state \notin Proxying
  BY Classes
<1>4. t # 0 /\ t <= asg /\ t \in Tunnids /\ \A c \in Browsers : c # b => inf[c].tunnid # t
  BY <1>1, <1>2, <1>3 DEF IdsOk
<1>5. Silent(t, MsgsIn(A), MsgsIn(F), sk)
  BY <1>1 DEF FreshOk
<1>6. inf2[b].said \in Nat /\ inf2[b].said - inf2[b].cached = inf2[b].said
  BY DEF Info
<1>7. m \in AdmitMsg /\ m.tid = t /\ m.op = "OpenTo" /\ m.target = inf2[b].target
        /\ m.last = inf2[b].said
  BY <1>4, <1>6 DEF OpenTo, AdmitMsg
<1>8. A2 = Queued(A, m, on)
  OBVIOUS
<1>9. inf2[b].tunnid = t
  OBVIOUS
<1> HIDE DEF t, m
<1>10. /\ A2 \in Seq(AdmitMsg) /\ Appended(A2, A, m, on)
       /\ MsgsIn(A) \subseteq MsgsIn(A2) /\ MsgsIn(A2) \subseteq MsgsIn(A) \cup {m}
       /\ on => m \in MsgsIn(A2)
  BY <1>2, <1>7, <1>8, Appending
<1>11. Typed(inf2, asg, A2, F, sk)
  BY <1>1, <1>10 DEF Typed
<1>12. IdsOk(inf2, asg)
  BY <1>1, <1>3, <1>4, <1>9 DEF IdsOk
<1>13. FreshOk(inf2, asg, MsgsIn(A2), MsgsIn(F), sk)
  <2>1. \A u \in Tunnids : u > asg => u # t
    BY <1>2, <1>4
  <2>2. \A u : u # t /\ Silent(u, MsgsIn(A), MsgsIn(F), sk) => Silent(u, MsgsIn(A2), MsgsIn(F), sk)
    BY <1>7, <1>10 DEF Silent
  <2> QED BY <1>1, <1>3, <1>4, <2>1, <2>2 DEF FreshOk
<1>14. OpenOk(inf2, MsgsIn(A2), MsgsIn(F), sk)
  <2>1. ASSUME NEW k \in MsgsIn(A), k.op = "OpenTo"
        PROVE  /\ sk[k.tid].st = "none" /\ (\A f \in MsgsIn(F) : f.tid # k.tid)
               /\ \A c \in Browsers :
                    inf2[c].tunnid = k.tid => inf2[c].state \in Waiting /\ inf2[c].target = k.target
    BY <1>1, <1>5, <1>9, <2>1 DEF OpenOk, Silent
  <2>2. /\ sk[m.tid].st = "none" /\ (\A f \in MsgsIn(F) : f.tid # m.tid)
        /\ \A c \in Browsers :
             inf2[c].tunnid = m.tid => inf2[c].state \in Waiting /\ inf2[c].target = m.target
    BY <1>4, <1>5, <1>7 DEF Silent
  <2> QED BY <1>10, <2>1, <2>2 DEF OpenOk
<1>15. CloseOk(inf2, MsgsIn(A2))
  BY <1>1, <1>4, <1>5, <1>7, <1>9, <1>10 DEF CloseOk, Silent
<1>16. TargetOk(inf2, sk)
  BY <1>1, <1>5, <1>9 DEF TargetOk, Silent
<1>17. on => LostOk(inf2, MsgsIn(A2), MsgsIn(F), sk)
  BY <1>1, <1>3, <1>7, <1>9, <1>10 DEF LostOk
<1>18. \A i \in DOMAIN A : A[i].tid # t
  BY <1>5 DEF Silent, MsgsIn
<1>19. OnceOk(A2)
  <2>1. CASE ~on
    BY <1>1, <1>10, <2>1 DEF Appended
  <2>2. CASE Grown(A2, A, m)
    <3>1. \A i \in DOMAIN A2 : (i \in DOMAIN A /\ A2[i] = A[i]) \/ (i = Len(A) + 1 /\ A2[i] = m)
      BY <2>2 DEF Grown
    <3> QED BY <1>1, <1>7, <1>18, <3>1 DEF OnceOk
  <2> QED BY <1>10, <2>1, <2>2 DEF Appended
<1>20. DownOk(inf2, F, sk, on)
  <2>1. \A j \in DOMAIN F : F[j].tid # t
    BY <1>5 DEF Silent, MsgsIn
  <2>2. Chain(F, t, inf2[b].heard, TRUE) /\ sk[t].st = "none"
    BY <1>5, ChainOfNone DEF Silent
  <2> QED BY <1>1, <1>9, <2>1, <2>2 DEF DownOk, DownTo
<1>21. ASSUME UpOk(inf, A, sk, on) PROVE UpOk(inf2, A2, sk, on)
  <2>1. CASE ~on
    BY <1>10, <1>21, <2>1 DEF Appended, UpOk
  <2>2. CASE on /\ Grown(A2, A, m)
    <3>1. ASSUME NEW u \in Tunnids, u # t, NEW e
          PROVE  /\ Chain(A2, u, sk[u].heard, sk[u].st # "none")
                 /\ EndIs(A, u, sk[u].heard, sk[u].st # "none", e) =>
                      EndIs(A2, u, sk[u].heard, sk[u].st # "none", e)
      <4>1. ~Carries(m, u)
        BY <1>7, <3>1 DEF Carries
      <4> QED BY <1>21, <2>2, <4>1, ChainPassesEnd DEF UpOk
    <3>2. /\ Chain(A2, t, sk[t].heard, sk[t].st # "none")
          /\ EndIs(A2, t, sk[t].heard, sk[t].st # "none", inf2[b].said)
      <4>1. Carries(m, t) /\ m.op # "DataTransfer" /\ m.last = inf2[b].said
        BY <1>7 DEF Carries
      <4>2. Chain(A, t, sk[t].heard, sk[t].st # "none")
        BY <1>4, <1>21 DEF UpOk
      <4> QED BY <2>2, <4>1, <4>2, ChainGrows
    <3>3. ASSUME NEW c \in Browsers, c # b, inf2[c].state \in Waiting \cup Proxying
          PROVE  EndIs(A2, inf2[c].tunnid, sk[inf2[c].tunnid].heard,
                       sk[inf2[c].tunnid].st # "none", inf2[c].said - inf2[c].cached)
      <4>1. inf[c].tunnid \in Tunnids /\ inf[c].tunnid # t /\ inf2[c] = inf[c]
        <5>1. inf[c].state # "none"
          BY <3>3, Classes
        <5> QED BY <1>1, <1>4, <3>3, <5>1, Types DEF IdsOk
      <4> QED BY <1>21, <2>2, <3>1, <3>3, <4>1 DEF UpOk
    <3> QED BY <1>6, <1>9, <3>1, <3>2, <3>3 DEF UpOk
  <2> QED BY <1>10, <2>1, <2>2 DEF Appended
<1> QED BY <1>1, <1>11, <1>12, <1>13, <1>14, <1>15, <1>16, <1>17, <1>19, <1>20, <1>21 DEF Ok, Core

\* It leaves.
LEMMA Leaves ==
  ASSUME NEW inf, NEW asg, NEW A, NEW F, NEW sk, NEW on, Ok(inf, asg, A, F, sk, on),
         NEW b \in Browsers,
         NEW inf2 \in [Browsers -> Info], \A c \in Browsers : c # b => inf2[c] = inf[c],
         inf2[b].state = "none", inf2[b].tunnid = 0
  PROVE  /\ Ok(inf2, asg, A, F, sk, on)
         /\ UpOk(inf, A, sk, on) => UpOk(inf2, A, sk, on)
<1>1. /\ Typed(inf, asg, A, F, sk)
      /\ IdsOk(inf, asg) /\ FreshOk(inf, asg, MsgsIn(A), MsgsIn(F), sk)
      /\ OpenOk(inf, MsgsIn(A), MsgsIn(F), sk) /\ CloseOk(inf, MsgsIn(A))
      /\ TargetOk(inf, sk) /\ DoneOk(MsgsIn(F), sk)
      /\ on => LostOk(inf, MsgsIn(A), MsgsIn(F), sk)
      /\ OnceOk(A) /\ DownOk(inf, F, sk, on)
  BY Parts
<1>2. /\ inf2[b].state \notin Early /\ inf2[b].state \notin Waiting /\ inf2[b].state \notin Proxying
      /\ inf2[b].state = "none" /\ inf2[b].tunnid = 0
      /\ 0 <= asg /\ \A m \in MsgsIn(A) : m.tid # 0
  BY <1>1, Classes, Types DEF Tunnids
<1>3. Typed(inf2, asg, A, F, sk)
  BY <1>1 DEF Typed
<1>4. IdsOk(inf2, asg)
  BY <1>1, <1>2 DEF IdsOk
<1>5. FreshOk(inf2, asg, MsgsIn(A), MsgsIn(F), sk)
  BY <1>1, <1>2 DEF FreshOk
<1>6. OpenOk(inf2, MsgsIn(A), MsgsIn(F), sk) /\ CloseOk(inf2, MsgsIn(A)) /\ TargetOk(inf2, sk)
  BY <1>1, <1>2 DEF OpenOk, CloseOk, TargetOk
<1>7. on => LostOk(inf2, MsgsIn(A), MsgsIn(F), sk)
  BY <1>1, <1>2 DEF LostOk
<1>8. DownOk(inf2, F, sk, on)
  BY <1>1, <1>2 DEF DownOk, DownTo
<1>9. UpOk(inf, A, sk, on) => UpOk(inf2, A, sk, on)
  BY <1>2 DEF UpOk
<1> QED BY <1>1, <1>3, <1>4, <1>5, <1>6, <1>7, <1>8, <1>9 DEF Ok, Core

LEMMA HasTunnel ==
  ASSUME NEW inf, NEW asg, NEW A, NEW F, NEW sk, Typed(inf, asg, A, F, sk), IdsOk(inf, asg),
         NEW b \in Browsers, inf[b].state # "none"
  PROVE  /\ inf[b].tunnid \in Tunnids /\ inf[b].tunnid <= asg
         /\ \A c \in Browsers : c # b => inf[c].tunnid # inf[b].tunnid
BY Types DEF IdsOk

\* xlorb is sent something that opens nothing.
LEMMA Speaks ==
  ASSUME NEW inf, NEW asg, NEW A, NEW F, NEW sk, NEW on \in BOOLEAN,
         Ok(inf, asg, A, F, sk, on),
         NEW m \in AdmitMsg, m.op # "OpenTo", m.tid <= asg,
         \A c \in Browsers : inf[c].tunnid = m.tid => inf[c].state \notin Early,
         m.op = "CloseTunnel" => \A c \in Browsers : inf[c].tunnid # m.tid,
         NEW A2, A2 = Queued(A, m, on)
  PROVE  Ok(inf, asg, A2, F, sk, on) /\ Appended(A2, A, m, on)
<1>1. /\ Typed(inf, asg, A, F, sk)
      /\ IdsOk(inf, asg) /\ FreshOk(inf, asg, MsgsIn(A), MsgsIn(F), sk)
      /\ OpenOk(inf, MsgsIn(A), MsgsIn(F), sk) /\ CloseOk(inf, MsgsIn(A))
      /\ TargetOk(inf, sk) /\ DoneOk(MsgsIn(F), sk)
      /\ on => LostOk(inf, MsgsIn(A), MsgsIn(F), sk)
      /\ OnceOk(A) /\ DownOk(inf, F, sk, on)
  BY Parts
<1>2. A \in Seq(AdmitMsg) /\ asg \in Nat
  BY <1>1, Types DEF Typed
<1>3. /\ A2 \in Seq(AdmitMsg) /\ Appended(A2, A, m, on)
      /\ MsgsIn(A) \subseteq MsgsIn(A2) /\ MsgsIn(A2) \subseteq MsgsIn(A) \cup {m}
  BY <1>2, Appending
<1>4. Typed(inf, asg, A2, F, sk)
  BY <1>1, <1>3 DEF Typed
<1>5. FreshOk(inf, asg, MsgsIn(A2), MsgsIn(F), sk)
  <2>1. \A t \in Tunnids : t > asg => t # m.tid
    BY <1>2 DEF Tunnids
  <2>2. \A t : t # m.tid /\ Silent(t, MsgsIn(A), MsgsIn(F), sk) => Silent(t, MsgsIn(A2), MsgsIn(F), sk)
    BY <1>3 DEF Silent
  <2> QED BY <1>1, <2>1, <2>2 DEF FreshOk
<1>6. OpenOk(inf, MsgsIn(A2), MsgsIn(F), sk)
  BY <1>1, <1>3 DEF OpenOk
<1>7. CloseOk(inf, MsgsIn(A2))
  BY <1>1, <1>3 DEF CloseOk
<1>8. on => LostOk(inf, MsgsIn(A2), MsgsIn(F), sk)
  BY <1>1, <1>3 DEF LostOk
<1>9. OnceOk(A2)
  <2>1. CASE ~on
    BY <1>1, <1>3, <2>1 DEF Appended
  <2>2. CASE Grown(A2, A, m)
    <3>1. \A i \in DOMAIN A2 : (i \in DOMAIN A /\ A2[i] = A[i]) \/ A2[i] = m
      BY <2>2 DEF Grown
    <3> QED BY <1>1, <3>1 DEF OnceOk
  <2> QED BY <1>3, <2>1, <2>2 DEF Appended
<1> QED BY <1>1, <1>3, <1>4, <1>5, <1>6, <1>7, <1>8, <1>9 DEF Ok, Core

\* Its tunnel is closed once it has left it.
LEMMA Closes ==
  ASSUME NEW inf, NEW asg, NEW A, NEW F, NEW sk, NEW on \in BOOLEAN,
         Ok(inf, asg, A, F, sk, on),
         NEW t \in Tunnids, t <= asg, \A c \in Browsers : inf[c].tunnid # t,
         NEW A2, A2 = Queued(A, CloseTunnel(t), on)
  PROVE  /\ Ok(inf, asg, A2, F, sk, on)
         /\ UpOk(inf, A, sk, on) => UpOk(inf, A2, sk, on)
<1> DEFINE m == CloseTunnel(t)
<1>1. m \in AdmitMsg /\ m.op = "CloseTunnel" /\ m.tid = t
  BY DEF CloseTunnel, AdmitMsg
<1>2. A2 = Queued(A, m, on)
  OBVIOUS
<1> HIDE DEF m
<1>3. /\ m.op # "OpenTo" /\ m.tid <= asg
      /\ \A c \in Browsers : inf[c].tunnid = m.tid => inf[c].state \notin Early
      /\ m.op = "CloseTunnel" => \A c \in Browsers : inf[c].tunnid # m.tid
  BY <1>1
<1>4. Ok(inf, asg, A2, F, sk, on) /\ Appended(A2, A, m, on)
  BY <1>1, <1>2, <1>3, Speaks
<1>5. ASSUME UpOk(inf, A, sk, on) PROVE UpOk(inf, A2, sk, on)
  <2>1. \A u : ~Carries(m, u)
    BY <1>1 DEF Carries
  <2>2. \A u, base, known, e :
          /\ Chain(A, u, base, known) => Chain(A2, u, base, known)
          /\ EndIs(A, u, base, known, e) => EndIs(A2, u, base, known, e)
    BY <1>4, <2>1, AppendPasses
  <2> QED BY <1>5, <2>2 DEF UpOk
<1> QED BY <1>4, <1>5

\* It sends what is cached.
LEMMA Sends ==
  ASSUME NEW inf, NEW asg, NEW A, NEW F, NEW sk, NEW on \in BOOLEAN,
         Ok(inf, asg, A, F, sk, on),
         NEW b \in Browsers, inf[b].state \in Waiting \cup Proxying,
         NEW inf2 \in [Browsers -> Info], \A c \in Browsers : c # b => inf2[c] = inf[c],
         Same(inf2[b], inf[b]),
         inf2[b].said - inf2[b].cached = inf[b].said,
         NEW A2,
         NEW m, m = Data(inf[b].tunnid, inf[b].said - inf[b].cached + 1, inf[b].said),
         A2 = Queued(A, m, on)
  PROVE  /\ Ok(inf2, asg, A2, F, sk, on)
         /\ UpOk(inf, A, sk, on) => UpOk(inf2, A2, sk, on)
<1> DEFINE t == inf[b].tunnid
           e == inf[b].said - inf[b].cached
<1>1. Typed(inf, asg, A, F, sk) /\ IdsOk(inf, asg) /\ inf[b].state # "none"
  BY Parts, Classes
<1>2. /\ t \in Tunnids /\ t <= asg /\ \A c \in Browsers : c # b => inf[c].tunnid # t
      /\ inf[b].said \in Nat /\ inf[b].cached \in Nat
  BY <1>1, HasTunnel, Types
<1>3. m \in AdmitMsg /\ m.op = "DataTransfer" /\ m.tid = t /\ m.first = e + 1 /\ m.last = inf[b].said
  BY <1>2 DEF Data, AdmitMsg
<1>4. A2 = Queued(A, m, on)
  OBVIOUS
<1>5. \A c \in Browsers : inf[c].tunnid = m.tid => inf[c].state \notin Early
  BY <1>2, <1>3, Classes
<1>6. Ok(inf, asg, A2, F, sk, on) /\ Appended(A2, A, m, on)
  BY <1>2, <1>3, <1>4, <1>5, Speaks
<1>7. inf2[b].tunnid = t
  BY DEF Same
<1> HIDE DEF t
<1>8. Ok(inf2, asg, A2, F, sk, on)
  <2>1. \A c \in Browsers : Same(inf2[c], inf[c])
    BY DEF Same
  <2> QED BY <1>6, <2>1, Resembling
<1>9. ASSUME UpOk(inf, A, sk, on) PROVE UpOk(inf2, A2, sk, on)
  <2>1. CASE ~on
    BY <1>6, <1>9, <2>1 DEF Appended, UpOk
  <2>2. CASE on /\ Grown(A2, A, m)
    <3>1. ASSUME NEW u \in Tunnids, u # t, NEW x
          PROVE  /\ Chain(A2, u, sk[u].heard, sk[u].st # "none")
                 /\ EndIs(A, u, sk[u].heard, sk[u].st # "none", x) =>
                      EndIs(A2, u, sk[u].heard, sk[u].st # "none", x)
      <4>1. ~Carries(m, u)
        BY <1>3, <3>1 DEF Carries
      <4> QED BY <1>9, <2>2, <4>1, ChainPassesEnd DEF UpOk
    <3>2. /\ Chain(A2, t, sk[t].heard, sk[t].st # "none")
          /\ EndIs(A2, t, sk[t].heard, sk[t].st # "none", inf[b].said)
      <4>1. Carries(m, t)
        BY <1>3 DEF Carries
      <4>2. Chain(A, t, sk[t].heard, sk[t].st # "none") /\ EndIs(A, t, sk[t].heard, sk[t].st # "none", e)
        BY <1>2, <1>9, <2>2 DEF UpOk, t
      <4> HIDE DEF e
      <4> QED BY ONLY <1>3, <2>2, <4>1, <4>2, ChainGrows
    <3>3. ASSUME NEW c \in Browsers, c # b, inf2[c].state \in Waiting \cup Proxying
          PROVE  EndIs(A2, inf2[c].tunnid, sk[inf2[c].tunnid].heard,
                       sk[inf2[c].tunnid].st # "none", inf2[c].said - inf2[c].cached)
      <4>1. inf[c].tunnid \in Tunnids /\ inf[c].tunnid # t /\ inf2[c] = inf[c]
        <5>1. inf[c].state # "none"
          BY <3>3, Classes
        <5> QED BY <1>1, <1>2, <3>3, <5>1, HasTunnel
      <4> QED BY <1>9, <2>2, <3>1, <3>3, <4>1 DEF UpOk
    <3> QED BY <1>7, <3>1, <3>2, <3>3 DEF UpOk
  <2> QED BY <1>6, <2>1, <2>2 DEF Appended
<1> QED BY <1>8, <1>9

-----------------------------------------------------------------------------
(* The steps of a message to xlord.                                        *)

\* The connection is there: its browser waits no longer.
LEMMA IsDone ==
  ASSUME NEW inf, NEW asg, NEW A, NEW F, NEW sk, NEW on, Ok(inf, asg, A, F, sk, on),
         NEW b \in Browsers, inf[b].state \in Waiting,
         NEW f \in MsgsIn(F), f.op = "ConnDone", f.tid = inf[b].tunnid,
         NEW inf2 \in [Browsers -> Info], \A c \in Browsers : c # b => inf2[c] = inf[c],
         inf2[b].state \in Proxying, inf2[b].tunnid = inf[b].tunnid,
         inf2[b].target = inf[b].target, inf2[b].heard = inf[b].heard,
         inf2[b].closing = inf[b].closing
  PROVE  /\ Ok(inf2, asg, A, F, sk, on)
         /\ inf2[b].said - inf2[b].cached = inf[b].said - inf[b].cached /\ UpOk(inf, A, sk, on)
              => UpOk(inf2, A, sk, on)
<1>1. /\ Typed(inf, asg, A, F, sk)
      /\ IdsOk(inf, asg) /\ FreshOk(inf, asg, MsgsIn(A), MsgsIn(F), sk)
      /\ OpenOk(inf, MsgsIn(A), MsgsIn(F), sk) /\ CloseOk(inf, MsgsIn(A))
      /\ TargetOk(inf, sk) /\ DoneOk(MsgsIn(F), sk)
      /\ on => LostOk(inf, MsgsIn(A), MsgsIn(F), sk)
      /\ OnceOk(A) /\ DownOk(inf, F, sk, on)
  BY Parts
<1>2. /\ inf2[b].state # "none" /\ inf2[b].state \notin Early /\ inf2[b].state \notin Waiting
      /\ inf[b].state # "none"
  BY Classes
<1>3. \A m \in MsgsIn(A) : m.op = "OpenTo" => m.tid # inf[b].tunnid
  BY <1>1 DEF OpenOk
<1>4. sk[inf[b].tunnid].st \in {"none", "connected"}
  BY <1>1 DEF DoneOk
<1>5. Typed(inf2, asg, A, F, sk)
  BY <1>1 DEF Typed
<1>6. IdsOk(inf2, asg)
  BY <1>1, <1>2 DEF IdsOk
<1>7. FreshOk(inf2, asg, MsgsIn(A), MsgsIn(F), sk)
  BY <1>1, <1>2 DEF FreshOk
<1>8. OpenOk(inf2, MsgsIn(A), MsgsIn(F), sk) 
  BY <1>1, <1>2, <1>3 DEF OpenOk
<1>9. CloseOk(inf2, MsgsIn(A)) /\ TargetOk(inf2, sk)
  BY <1>1, <1>2 DEF CloseOk, TargetOk
<1>10. on => LostOk(inf2, MsgsIn(A), MsgsIn(F), sk)
  <2>1. Ending(inf[b], MsgsIn(F)) => Ending(inf2[b], MsgsIn(F))
    BY DEF Ending
  <2>2. on => Ending(inf2[b], MsgsIn(F)) \/ sk[inf[b].tunnid].st = "connected"
    BY <1>1, <1>3, <1>4, <2>1 DEF LostOk
  <2> QED BY <1>1, <1>2, <2>2 DEF LostOk
<1>11. DownOk(inf2, F, sk, on)
  <2>1. DownTo(inf[b], F, sk[inf[b].tunnid], on)
    BY <1>1, <1>2 DEF DownOk
  <2>2. DownTo(inf2[b], F, sk[inf[b].tunnid], on)
    BY <1>2, <2>1 DEF DownTo
  <2> QED BY <1>1, <2>2 DEF DownOk
<1>12. ASSUME inf2[b].said - inf2[b].cached = inf[b].said - inf[b].cached, UpOk(inf, A, sk, on)
       PROVE  UpOk(inf2, A, sk, on)
  BY <1>12 DEF UpOk
<1> QED BY <1>1, <1>5, <1>6, <1>7, <1>8, <1>9, <1>10, <1>11, <1>12 DEF Ok, Core

LEMMA ToldBefore ==
  ASSUME NEW F2, NEW F, Shifted(F2, F), NEW t, NEW j \in 1 .. Len(F2) + 1, Told(F, t, j + 1),
         ~(F[1].op = "ConnDone" /\ F[1].tid = t /\ F[1].ok)
  PROVE  Told(F2, t, j)
<1>1. /\ Len(F2) \in Nat /\ \A i \in 1 .. Len(F2) : F2[i] = F[i + 1]
  BY DEF Shifted
<1>2. PICK i \in 1 .. (j + 1) - 1 : F[i].op = "ConnDone" /\ F[i].tid = t /\ F[i].ok
  BY DEF Told
<1>3. i # 1
  BY <1>2
<1>4. i - 1 \in 1 .. j - 1 /\ i - 1 \in 1 .. Len(F2) /\ (i - 1) + 1 = i
  BY <1>1, <1>3
<1> QED BY <1>1, <1>2, <1>4 DEF Told

\* xlord has handled a message: nobody needs it any more.
LEMMA Handles ==
  ASSUME NEW inf, NEW asg, NEW A, NEW F, NEW sk, NEW on, Ok(inf, asg, A, F, sk, on),
         F # <<>>, NEW m, m = Head(F),
         \A b \in Browsers : inf[b].tunnid = m.tid =>
           /\ m.op # "DataTransfer"
           /\ inf[b].closing \/ ~(m.op = "ConnAbort" \/ (m.op \in {"RtnOpenTo", "ConnDone"} /\ ~m.ok))
           /\ ~(m.op = "ConnDone" /\ m.ok /\ inf[b].state \in Waiting)
  PROVE  Ok(inf, asg, A, Tail(F), sk, on)
<1> DEFINE F2 == Tail(F)
<1>1. /\ Typed(inf, asg, A, F, sk)
      /\ IdsOk(inf, asg) /\ FreshOk(inf, asg, MsgsIn(A), MsgsIn(F), sk)
      /\ OpenOk(inf, MsgsIn(A), MsgsIn(F), sk) /\ CloseOk(inf, MsgsIn(A))
      /\ TargetOk(inf, sk) /\ DoneOk(MsgsIn(F), sk)
      /\ on => LostOk(inf, MsgsIn(A), MsgsIn(F), sk)
      /\ OnceOk(A) /\ DownOk(inf, F, sk, on)
  BY Parts
<1>2. F \in Seq(FinderMsg)
  BY <1>1 DEF Typed
<1>3. /\ F2 \in Seq(FinderMsg) /\ m = F[1] /\ Shifted(F2, F)
      /\ MsgsIn(F) = MsgsIn(F2) \cup {m}
  BY <1>2, Shifting
<1> HIDE DEF F2
<1>4. Typed(inf, asg, A, F2, sk)
  BY <1>1, <1>3 DEF Typed
<1>5. FreshOk(inf, asg, MsgsIn(A), MsgsIn(F2), sk)
  BY <1>1, <1>3 DEF FreshOk, Silent
<1>6. OpenOk(inf, MsgsIn(A), MsgsIn(F2), sk)
  BY <1>1, <1>3 DEF OpenOk
<1>7. DoneOk(MsgsIn(F2), sk)
  BY <1>1, <1>3 DEF DoneOk
<1>8. on => LostOk(inf, MsgsIn(A), MsgsIn(F2), sk)
  <2>1. \A b \in Browsers : Ending(inf[b], MsgsIn(F)) => Ending(inf[b], MsgsIn(F2))
    BY <1>3 DEF Ending
  <2> QED BY <1>1, <2>1 DEF LostOk
<1>9. DownOk(inf, F2, sk, on)
  <2>1. SUFFICES ASSUME NEW b \in Browsers, inf[b].state # "none", NEW t, t = inf[b].tunnid
        PROVE  /\ Chain(F2, t, inf[b].heard, TRUE)
               /\ inf[b].state \in Waiting => inf[b].heard = 0
               /\ \A j \in DOMAIN F2 : F2[j].tid = t /\ F2[j].op = "DataTransfer" =>
                    /\ F2[j].from = inf[b].target
                    /\ inf[b].state \in Waiting => Told(F2, t, j)
               /\ on /\ sk[t].st # "none" => EndIs(F2, t, inf[b].heard, TRUE, sk[t].said)
               /\ on /\ sk[t].st = "connected" /\ inf[b].state \in Waiting => Told(F2, t, Len(F2) + 1)
    BY DEF DownOk, DownTo
  <2>2. /\ Chain(F, t, inf[b].heard, TRUE)
        /\ inf[b].state \in Waiting => inf[b].heard = 0
        /\ \A j \in DOMAIN F : F[j].tid = t /\ F[j].op = "DataTransfer" =>
             /\ F[j].from = inf[b].target
             /\ inf[b].state \in Waiting => Told(F, t, j)
        /\ on /\ sk[t].st # "none" => EndIs(F, t, inf[b].heard, TRUE, sk[t].said)
        /\ on /\ sk[t].st = "connected" /\ inf[b].state \in Waiting => Told(F, t, Len(F) + 1)
    BY <1>1, <2>1 DEF DownOk, DownTo
  <2>3. ~Carries(F[1], t)
    <3>1. m.op # "OpenTo"
      BY <1>3, <1>2, Shifting DEF FinderMsg
    <3> QED BY <1>3, <2>1, <3>1 DEF Carries
  <2>4. Chain(F2, t, inf[b].heard, TRUE)
    BY <1>3, <2>2, <2>3, ChainPassesHead
  <2>5. on /\ sk[t].st # "none" => EndIs(F2, t, inf[b].heard, TRUE, sk[t].said)
    BY <1>3, <2>2, <2>3, ChainPassesHead
  <2>6. inf[b].state \in Waiting => ~(F[1].op = "ConnDone" /\ F[1].tid = t /\ F[1].ok)
    BY <1>3, <2>1
  <2>7. \A j \in DOMAIN F2 : F2[j] = F[j + 1] /\ j + 1 \in DOMAIN F /\ j \in 1 .. Len(F2) + 1
    BY <1>3 DEF Shifted
  <2>8. Len(F) = Len(F2) + 1 /\ Len(F2) + 1 \in 1 .. Len(F2) + 1
    BY <1>3 DEF Shifted
  <2>9. inf[b].state \in Waiting => \A j \in 1 .. Len(F2) + 1 : Told(F, t, j + 1) => Told(F2, t, j)
    BY <1>3, <2>6, ToldBefore
  <2>10. \A j \in DOMAIN F2 : F2[j].tid = t /\ F2[j].op = "DataTransfer" =>
           /\ F2[j].from = inf[b].target
           /\ inf[b].state \in Waiting => Told(F2, t, j)
    BY <2>2, <2>7, <2>9
  <2>11. on /\ sk[t].st = "connected" /\ inf[b].state \in Waiting => Told(F2, t, Len(F2) + 1)
    BY <2>2, <2>8, <2>9
  <2> QED BY <2>2, <2>4, <2>5, <2>10, <2>11
<1> QED BY <1>1, <1>4, <1>5, <1>6, <1>7, <1>8, <1>9 DEF Ok, Core, F2

\* What the target has sent comes to its browser.
LEMMA Hears ==
  ASSUME NEW inf, NEW asg, NEW A, NEW F, NEW sk, NEW on, Ok(inf, asg, A, F, sk, on),
         F # <<>>, NEW m, m = Head(F), m.op = "DataTransfer",
         NEW b \in Browsers, inf[b].state # "none", inf[b].tunnid = m.tid,
         NEW inf2 \in [Browsers -> Info], \A c \in Browsers : c # b => inf2[c] = inf[c],
         inf2[b].tunnid = inf[b].tunnid, inf2[b].target = inf[b].target,
         inf2[b].state = inf[b].state, inf2[b].closing = inf[b].closing,
         inf2[b].said = inf[b].said, inf2[b].cached = inf[b].cached, inf2[b].heard = m.last
  PROVE  /\ Ok(inf2, asg, A, Tail(F), sk, on)
         /\ UpOk(inf, A, sk, on) => UpOk(inf2, A, sk, on)
<1> DEFINE F2 == Tail(F)
<1>1. /\ Typed(inf, asg, A, F, sk)
      /\ IdsOk(inf, asg) /\ FreshOk(inf, asg, MsgsIn(A), MsgsIn(F), sk)
      /\ OpenOk(inf, MsgsIn(A), MsgsIn(F), sk) /\ CloseOk(inf, MsgsIn(A))
      /\ TargetOk(inf, sk) /\ DoneOk(MsgsIn(F), sk)
      /\ on => LostOk(inf, MsgsIn(A), MsgsIn(F), sk)
      /\ OnceOk(A) /\ DownOk(inf, F, sk, on)
  BY Parts
<1>2. F \in Seq(FinderMsg) /\ inf \in [Browsers -> Info]
  BY <1>1 DEF Typed
<1>3. /\ F2 \in Seq(FinderMsg) /\ m = F[1] /\ m \in FinderMsg /\ Shifted(F2, F)
      /\ MsgsIn(F) = MsgsIn(F2) \cup {m}
  BY <1>2, Shifting
<1>4. m \in MsgsIn(F)
  BY <1>3
<1> HIDE DEF F2
<1>5. inf[b].state \in Proxying /\ inf[b].state \notin Waiting /\ inf[b].state \notin Early
  <2>1. inf[b].state \notin Early
    BY <1>1, <1>4 DEF FreshOk, Silent
  <2>2. ASSUME inf[b].state \in Waiting PROVE FALSE
    <3>1. 1 \in DOMAIN F
      BY <1>3 DEF Shifted
    <3>2. Told(F, m.tid, 1)
      BY <1>1, <1>3, <2>2, <3>1 DEF DownOk, DownTo
    <3>3. 1 .. 1 - 1 = {}
      OBVIOUS
    <3> QED BY <3>2, <3>3 DEF Told
  <2> QED BY <1>1, <2>1, <2>2, Types
<1>6. inf2 \in [Browsers -> Info]
  OBVIOUS
<1>7. inf2[b].heard = m.last
  OBVIOUS
<1>8. \A c \in Browsers :
        /\ inf2[c].tunnid = inf[c].tunnid /\ inf2[c].target = inf[c].target
        /\ inf2[c].state = inf[c].state /\ inf2[c].closing = inf[c].closing
        /\ inf2[c].said = inf[c].said /\ inf2[c].cached = inf[c].cached
        /\ c # b => inf2[c].heard = inf[c].heard
  OBVIOUS
<1>9. Typed(inf2, asg, A, F2, sk)
  BY <1>1, <1>3, <1>6 DEF Typed
<1>10. IdsOk(inf2, asg) /\ CloseOk(inf2, MsgsIn(A)) /\ TargetOk(inf2, sk)
  BY <1>1, <1>8 DEF IdsOk, CloseOk, TargetOk
<1>11. FreshOk(inf2, asg, MsgsIn(A), MsgsIn(F2), sk)
  BY <1>1, <1>3, <1>8 DEF FreshOk, Silent
<1>12. OpenOk(inf2, MsgsIn(A), MsgsIn(F2), sk) /\ DoneOk(MsgsIn(F2), sk)
  BY <1>1, <1>3, <1>8 DEF OpenOk, DoneOk
<1>13. on => LostOk(inf2, MsgsIn(A), MsgsIn(F2), sk)
  <2>1. \A c \in Browsers : Ending(inf[c], MsgsIn(F)) => Ending(inf2[c], MsgsIn(F2))
    BY <1>3, <1>8 DEF Ending
  <2> QED BY <1>1, <1>8, <2>1 DEF LostOk
<1>14. DownOk(inf2, F2, sk, on)
  <2>1. SUFFICES ASSUME NEW c \in Browsers, inf[c].state # "none", NEW t, t = inf[c].tunnid
        PROVE  /\ Chain(F2, t, inf2[c].heard, TRUE)
               /\ inf[c].state \in Waiting => inf2[c].heard = 0
               /\ \A j \in DOMAIN F2 : F2[j].tid = t /\ F2[j].op = "DataTransfer" =>
                    /\ F2[j].from = inf[c].target
                    /\ inf[c].state \in Waiting => Told(F2, t, j)
               /\ on /\ sk[t].st # "none" => EndIs(F2, t, inf2[c].heard, TRUE, sk[t].said)
               /\ on /\ sk[t].st = "connected" /\ inf[c].state \in Waiting => Told(F2, t, Len(F2) + 1)
    <3>1. ASSUME NEW c \in Browsers, inf[c].state # "none"
          PROVE  DownTo(inf2[c], F2, sk[inf[c].tunnid], on)
      BY <1>8, <2>1, <3>1 DEF DownTo
    <3> QED BY <1>8, <3>1 DEF DownOk
  <2>2. /\ Chain(F, t, inf[c].heard, TRUE)
        /\ inf[c].state \in Waiting => inf[c].heard = 0
        /\ \A j \in DOMAIN F : F[j].tid = t /\ F[j].op = "DataTransfer" =>
             /\ F[j].from = inf[c].target
             /\ inf[c].state \in Waiting => Told(F, t, j)
        /\ on /\ sk[t].st # "none" => EndIs(F, t, inf[c].heard, TRUE, sk[t].said)
        /\ on /\ sk[t].st = "connected" /\ inf[c].state \in Waiting => Told(F, t, Len(F) + 1)
    BY <1>1, <2>1 DEF DownOk, DownTo
  <2>3. Chain(F2, t, inf2[c].heard, TRUE)
        /\ (on /\ sk[t].st # "none" => EndIs(F2, t, inf2[c].heard, TRUE, sk[t].said))
    <3>1. CASE c = b
      <4>1. Carries(F[1], t) /\ inf2[c].heard = F[1].last
        BY <1>3, <1>7, <2>1, <3>1 DEF Carries
      <4> QED BY <1>3, <2>2, <4>1, ChainShrinks
    <3>2. CASE c # b
      <4>1. ~Carries(F[1], t) /\ inf2[c].heard = inf[c].heard
        BY <1>1, <1>3, <1>8, <2>1, <3>2, HasTunnel DEF Carries
      <4> QED BY <1>3, <2>2, <4>1, ChainPassesHead
    <3> QED BY <3>1, <3>2
  <2>4. inf[c].state \in Waiting => c # b
    BY <1>5
  <2>5. \A j \in DOMAIN F2 : F2[j] = F[j + 1] /\ j + 1 \in DOMAIN F /\ j \in 1 .. Len(F2) + 1
    BY <1>3 DEF Shifted
  <2>6. Len(F) = Len(F2) + 1 /\ Len(F2) + 1 \in 1 .. Len(F2) + 1
    BY <1>3 DEF Shifted
  <2>7. \A j \in 1 .. Len(F2) + 1 : Told(F, t, j + 1) => Told(F2, t, j)
    BY <1>3, ToldBefore
  <2>8. \A j \in DOMAIN F2 : F2[j].tid = t /\ F2[j].op = "DataTransfer" =>
          /\ F2[j].from = inf[c].target
          /\ inf[c].state \in Waiting => Told(F2, t, j)
    BY <2>2, <2>5, <2>7
  <2>9. on /\ sk[t].st = "connected" /\ inf[c].state \in Waiting => Told(F2, t, Len(F2) + 1)
    BY <2>2, <2>6, <2>7
  <2> QED BY <1>8, <2>2, <2>3, <2>4, <2>8, <2>9
<1>15. UpOk(inf, A, sk, on) => UpOk(inf2, A, sk, on)
  BY <1>8 DEF UpOk
<1> QED BY <1>1, <1>9, <1>10, <1>11, <1>12, <1>13, <1>14, <1>15 DEF Ok, Core, F2

-----------------------------------------------------------------------------
(* The steps of xlorb's sockets.                                           *)

LEMMA ToldStill ==
  ASSUME NEW F2, NEW F, NEW f, NEW on, Appended(F2, F, f, on), NEW t
  PROVE  /\ \A j \in 1 .. Len(F) + 1 : Told(F, t, j) => Told(F2, t, j)
         /\ Told(F, t, Len(F) + 1) => Told(F2, t, Len(F2) + 1)
<1>1. CASE ~on
  BY <1>1 DEF Appended
<1>2. CASE on /\ Grown(F2, F, f)
  <2>1. /\ Len(F) \in Nat /\ Len(F2) = Len(F) + 1
        /\ \A i \in 1 .. Len(F) : F2[i] = F[i]
        /\ F2[Len(F) + 1] = f
    BY <1>2 DEF Grown
  <2>2. \A j \in 1 .. Len(F) + 1 : Told(F, t, j) => Told(F2, t, j)
    <3>1. ASSUME NEW j \in 1 .. Len(F) + 1, Told(F, t, j) PROVE Told(F2, t, j)
      <4>1. PICK i \in 1 .. j - 1 : F[i].op = "ConnDone" /\ F[i].tid = t /\ F[i].ok
        BY <3>1 DEF Told
      <4>2. i \in 1 .. Len(F)
        BY <2>1
      <4> QED BY <2>1, <4>1, <4>2 DEF Told
    <3> QED BY <3>1
  <2>3. Told(F, t, Len(F) + 1) => Told(F2, t, Len(F2) + 1)
    <3>1. ASSUME Told(F, t, Len(F) + 1) PROVE Told(F2, t, Len(F2) + 1)
      <4>1. PICK i \in 1 .. (Len(F) + 1) - 1 : F[i].op = "ConnDone" /\ F[i].tid = t /\ F[i].ok
        BY <3>1 DEF Told
      <4>2. i \in 1 .. Len(F) /\ i \in 1 .. (Len(F2) + 1) - 1
        BY <2>1
      <4> QED BY <2>1, <4>1, <4>2 DEF Told
    <3> QED BY <3>1
  <2> QED BY <2>2, <2>3
<1> QED BY <1>1, <1>2 DEF Appended

LEMMA IsTold ==
  ASSUME NEW F2, NEW F, NEW f, Grown(F2, F, f), f.op = "ConnDone", f.ok
  PROVE  Told(F2, f.tid, Len(F2) + 1)
<1>1. F2[Len(F) + 1] = f /\ Len(F) + 1 \in 1 .. (Len(F2) + 1) - 1
  BY DEF Grown
<1> QED BY <1>1 DEF Told

\* What is on its way is as before, when a message that is not data follows it.
LEMMA DownAppends ==
  ASSUME NEW F2, NEW F, NEW f, NEW on, Appended(F2, F, f, on), f.op \notin {"OpenTo", "DataTransfer"},
         NEW i, NEW s, NEW s2, DownTo(i, F, s, on),
         s2.st # "none" => s.st # "none" /\ s2.said = s.said,
         s2.st = "connected" /\ s.st # "connected" =>
           f.op = "ConnDone" /\ f.tid = i.tunnid /\ f.ok
  PROVE  DownTo(i, F2, s2, on)
<1> DEFINE t == i.tunnid
<1>1. /\ Chain(F, t, i.heard, TRUE)
      /\ i.state \in Waiting => i.heard = 0
      /\ \A j \in DOMAIN F : F[j].tid = t /\ F[j].op = "DataTransfer" =>
           /\ F[j].from = i.target
           /\ i.state \in Waiting => Told(F, t, j)
      /\ on /\ s.st # "none" => EndIs(F, t, i.heard, TRUE, s.said)
      /\ on /\ s.st = "connected" /\ i.state \in Waiting => Told(F, t, Len(F) + 1)
  BY DEF DownTo
<1> HIDE DEF t
<1>2. ~Carries(f, t)
  BY DEF Carries
<1>3. Chain(F2, t, i.heard, TRUE)
  BY <1>1, <1>2, AppendPasses
<1>4. on /\ s2.st # "none" => EndIs(F2, t, i.heard, TRUE, s2.said)
  BY <1>1, <1>2, AppendPasses
<1>5. on /\ s2.st = "connected" /\ i.state \in Waiting => Told(F2, t, Len(F2) + 1)
  <2>1. Told(F, t, Len(F) + 1) => Told(F2, t, Len(F2) + 1)
    BY ToldStill
  <2>2. ASSUME on, f.op = "ConnDone", f.tid = t, f.ok PROVE Told(F2, t, Len(F2) + 1)
    <3>1. Grown(F2, F, f)
      BY <2>2 DEF Appended
    <3>2. Told(F2, f.tid, Len(F2) + 1)
      BY <2>2, <3>1, IsTold
    <3> QED BY <2>2, <3>2
  <2> QED BY <1>1, <2>1, <2>2 DEF t
<1>6. ASSUME NEW j \in DOMAIN F2, F2[j].tid = t, F2[j].op = "DataTransfer"
      PROVE  F2[j].from = i.target /\ (i.state \in Waiting => Told(F2, t, j))
  <2>1. j \in DOMAIN F /\ F2[j] = F[j]
    BY <1>6 DEF Appended, Grown
  <2>2. Told(F, t, j) => Told(F2, t, j)
    <3>1. CASE ~on
      BY <3>1 DEF Appended
    <3>2. CASE Grown(F2, F, f)
      <4>1. j \in 1 .. Len(F) + 1
        BY <2>1, <3>2 DEF Grown
      <4> QED BY <4>1, ToldStill
    <3> QED BY <3>1, <3>2 DEF Appended
  <2> QED BY <1>1, <1>6, <2>1, <2>2
<1> QED BY <1>1, <1>3, <1>4, <1>5, <1>6 DEF DownTo, t

Bad(f) == f.op = "ConnAbort" \/ (f.op \in {"RtnOpenTo", "ConnDone"} /\ ~f.ok)

\* A socket is connected, or ends, or is there, and xlord is told.
LEMMA Reports ==
  ASSUME NEW inf, NEW asg, NEW A, NEW F, NEW sk, NEW on \in BOOLEAN,
         Ok(inf, asg, A, F, sk, on),
         NEW t \in Tunnids, ~Silent(t, MsgsIn(A), MsgsIn(F), sk),
         \A m \in MsgsIn(A) : m.op = "OpenTo" => m.tid # t,
         NEW f \in FinderMsg, f.tid = t, f.op # "DataTransfer",
         NEW F2, F2 = Queued(F, f, on),
         NEW sk2 \in [Tunnids -> Sock], \A u \in Tunnids : u # t => sk2[u] = sk[u],
         sk2[t].st # "none" => /\ sk[t].st # "none" /\ sk2[t].target = sk[t].target
                               /\ sk2[t].said = sk[t].said /\ sk2[t].heard = sk[t].heard,
         f.op = "ConnDone" => sk2[t].st \in {"none", "connected"},
         sk2[t].st \in {"none", "connected"} \/ sk[t].st \notin {"none", "connected"},
         Bad(f) \/ sk2[t].st = sk[t].st
           \/ (sk[t].st = "connecting" /\ sk2[t].st = "connected"),
         sk2[t].st = "connected" /\ sk[t].st # "connected" => f.op = "ConnDone" /\ f.ok
  PROVE  /\ Ok(inf, asg, A, F2, sk2, on)
         /\ UpOk(inf, A, sk, on) => UpOk(inf, A, sk2, on)
<1>1. /\ Typed(inf, asg, A, F, sk)
      /\ IdsOk(inf, asg) /\ FreshOk(inf, asg, MsgsIn(A), MsgsIn(F), sk)
      /\ OpenOk(inf, MsgsIn(A), MsgsIn(F), sk) /\ CloseOk(inf, MsgsIn(A))
      /\ TargetOk(inf, sk) /\ DoneOk(MsgsIn(F), sk)
      /\ on => LostOk(inf, MsgsIn(A), MsgsIn(F), sk)
      /\ OnceOk(A) /\ DownOk(inf, F, sk, on)
  BY Parts
<1>2. /\ F \in Seq(FinderMsg) /\ asg \in Nat
      /\ \A m \in MsgsIn(A) : m.tid \in Tunnids
      /\ \A m \in MsgsIn(F) : m.tid \in Tunnids
  BY <1>1, Types DEF Typed
<1>3. /\ F2 \in Seq(FinderMsg) /\ Appended(F2, F, f, on)
      /\ MsgsIn(F) \subseteq MsgsIn(F2) /\ MsgsIn(F2) \subseteq MsgsIn(F) \cup {f}
      /\ on => f \in MsgsIn(F2)
  BY <1>2, Appending
<1>4. /\ t <= asg
      /\ \A c \in Browsers : inf[c].tunnid = t => inf[c].state \in Waiting \/ inf[c].state \in Proxying
  BY TunnelHas
<1>5. \A c \in Browsers : inf[c].state # "none" => inf[c].tunnid \in Tunnids
  BY <1>1, HasTunnel
<1>6. Typed(inf, asg, A, F2, sk2)
  BY <1>1, <1>3 DEF Typed
<1>7. FreshOk(inf, asg, MsgsIn(A), MsgsIn(F2), sk2)
  <2>1. \A u \in Tunnids : u > asg => u # t
    BY <1>2, <1>4 DEF Tunnids
  <2>2. \A u \in Tunnids : u # t /\ Silent(u, MsgsIn(A), MsgsIn(F), sk)
                             => Silent(u, MsgsIn(A), MsgsIn(F2), sk2)
    BY <1>3 DEF Silent
  <2>3. \A c \in Browsers : inf[c].state \in Early => inf[c].tunnid # t /\ inf[c].tunnid \in Tunnids
    BY <1>4, <1>5, Classes
  <2> QED BY <1>1, <2>1, <2>2, <2>3 DEF FreshOk
<1>8. OpenOk(inf, MsgsIn(A), MsgsIn(F2), sk2)
  BY <1>1, <1>2, <1>3 DEF OpenOk
<1>9. TargetOk(inf, sk2)
  BY <1>1, <1>5 DEF TargetOk
<1>10. DoneOk(MsgsIn(F2), sk2)
  BY <1>1, <1>2, <1>3 DEF DoneOk
<1>11. on => LostOk(inf, MsgsIn(A), MsgsIn(F2), sk2)
  <2>1. \A c \in Browsers : Ending(inf[c], MsgsIn(F)) => Ending(inf[c], MsgsIn(F2))
    BY <1>3 DEF Ending
  <2>2. \A c \in Browsers : on /\ Bad(f) /\ inf[c].tunnid = t => Ending(inf[c], MsgsIn(F2))
    BY <1>3 DEF Ending, Bad
  <2>3. ASSUME on, NEW c \in Browsers, inf[c].tunnid # t
        PROVE  /\ inf[c].state \in Waiting =>
                   \/ Ending(inf[c], MsgsIn(F2))
                   \/ \E m \in MsgsIn(A) : m.op = "OpenTo" /\ m.tid = inf[c].tunnid
                   \/ sk2[inf[c].tunnid].st \in {"resolving", "connecting", "connected"}
               /\ inf[c].state \in Proxying =>
                    Ending(inf[c], MsgsIn(F2)) \/ sk2[inf[c].tunnid].st = "connected"
    BY <1>1, <1>5, <2>1, <2>3, Classes DEF LostOk
  <2>4. ASSUME on, NEW c \in Browsers, inf[c].tunnid = t
        PROVE  /\ inf[c].state \in Waiting =>
                   \/ Ending(inf[c], MsgsIn(F2))
                   \/ sk2[t].st \in {"resolving", "connecting", "connected"}
               /\ inf[c].state \in Proxying =>
                    Ending(inf[c], MsgsIn(F2)) \/ sk2[t].st = "connected"
    BY <1>1, <2>1, <2>2, <2>4 DEF LostOk
  <2> QED BY <2>3, <2>4 DEF LostOk
<1>12. DownOk(inf, F2, sk2, on)
  <2>1. SUFFICES ASSUME NEW c \in Browsers, inf[c].state # "none"
        PROVE  DownTo(inf[c], F2, sk2[inf[c].tunnid], on)
    BY DEF DownOk
  <2>2. DownTo(inf[c], F, sk[inf[c].tunnid], on)
    BY <1>1, <2>1 DEF DownOk
  <2>3. f.op \notin {"OpenTo", "DataTransfer"}
    BY DEF FinderMsg
  <2>4. CASE inf[c].tunnid = t
    BY <1>3, <2>2, <2>3, <2>4, DownAppends
  <2>5. CASE inf[c].tunnid # t
    <3>1. sk2[inf[c].tunnid] = sk[inf[c].tunnid]
      BY <1>5, <2>1, <2>5
    <3> QED BY <1>3, <2>2, <2>3, <3>1, DownAppends
  <2> QED BY <2>4, <2>5
<1>13. ASSUME UpOk(inf, A, sk, on) PROVE UpOk(inf, A, sk2, on)
  <2>1. \A base, other, known, e :
          /\ Chain(A, t, base, known) => Chain(A, t, other, FALSE)
          /\ EndIs(A, t, base, known, e) => EndIs(A, t, other, FALSE, e)
    BY ChainForgets, EndForgets
  <2>2. CASE sk2[t].st # "none"
    BY <1>5, <1>13, <2>2, Classes DEF UpOk
  <2>3. CASE sk2[t].st = "none"
    BY <1>5, <1>13, <2>1, <2>3, Classes DEF UpOk
  <2> QED BY <2>2, <2>3
<1> QED BY <1>1, <1>6, <1>7, <1>8, <1>9, <1>10, <1>11, <1>12, <1>13 DEF Ok, Core

\* A name is resolved, or a disconnect is posted, or it cancels the resolving.
LEMMA Changes ==
  ASSUME NEW inf, NEW asg, NEW A, NEW F, NEW sk, NEW on, Ok(inf, asg, A, F, sk, on),
         NEW t \in Tunnids,
         NEW sk2 \in [Tunnids -> Sock], \A u \in Tunnids : u # t => sk2[u] = sk[u],
         sk2[t].target = sk[t].target, sk2[t].said = sk[t].said,
         \/ sk2[t].st = sk[t].st
         \/ sk[t].st = "resolving" /\ sk2[t].st = "connecting"
         \/ /\ sk[t].st = "resolving" /\ sk2[t].st = "cancelled"
            /\ \A c \in Browsers : inf[c].tunnid # t
  PROVE  /\ Ok(inf, asg, A, F, sk2, on)
         /\ sk2[t].heard = sk[t].heard /\ UpOk(inf, A, sk, on) => UpOk(inf, A, sk2, on)
<1>1. /\ Typed(inf, asg, A, F, sk)
      /\ IdsOk(inf, asg) /\ FreshOk(inf, asg, MsgsIn(A), MsgsIn(F), sk)
      /\ OpenOk(inf, MsgsIn(A), MsgsIn(F), sk) /\ CloseOk(inf, MsgsIn(A))
      /\ TargetOk(inf, sk) /\ DoneOk(MsgsIn(F), sk)
      /\ on => LostOk(inf, MsgsIn(A), MsgsIn(F), sk)
      /\ OnceOk(A) /\ DownOk(inf, F, sk, on)
  BY Parts
<1>2. /\ \A m \in MsgsIn(A) : m.tid \in Tunnids
      /\ \A m \in MsgsIn(F) : m.tid \in Tunnids
      /\ \A c \in Browsers : inf[c].state # "none" => inf[c].tunnid \in Tunnids
  BY <1>1, Types, HasTunnel
<1>3. \A u \in Tunnids :
        /\ (sk2[u].st = "none") = (sk[u].st = "none")
        /\ (sk2[u].st = "connected") = (sk[u].st = "connected")
        /\ sk2[u].target = sk[u].target /\ sk2[u].said = sk[u].said
  OBVIOUS
<1>4. Typed(inf, asg, A, F, sk2)
  BY <1>1 DEF Typed
<1>5. FreshOk(inf, asg, MsgsIn(A), MsgsIn(F), sk2)
  BY <1>1, <1>2, <1>3, Classes DEF FreshOk, Silent
<1>6. OpenOk(inf, MsgsIn(A), MsgsIn(F), sk2)
  BY <1>1, <1>2, <1>3 DEF OpenOk
<1>7. TargetOk(inf, sk2)
  BY <1>1, <1>2, <1>3 DEF TargetOk
<1>8. DoneOk(MsgsIn(F), sk2)
  BY <1>1, <1>2, <1>3 DEF DoneOk
<1>9. on => LostOk(inf, MsgsIn(A), MsgsIn(F), sk2)
  <2>1. \A c \in Browsers :
          inf[c].state # "none" /\ sk[inf[c].tunnid].st \in {"resolving", "connecting", "connected"}
            => sk2[inf[c].tunnid].st \in {"resolving", "connecting", "connected"}
    BY <1>2
  <2> QED BY <1>1, <1>2, <1>3, <2>1, Classes DEF LostOk
<1>10. DownOk(inf, F, sk2, on)
  BY <1>1, <1>2, <1>3 DEF DownOk, DownTo
<1>11. ASSUME sk2[t].heard = sk[t].heard, UpOk(inf, A, sk, on) PROVE UpOk(inf, A, sk2, on)
  <2>1. \A u \in Tunnids : sk2[u].heard = sk[u].heard /\ (sk2[u].st # "none") = (sk[u].st # "none")
    BY <1>3, <1>11
  <2> QED BY <1>2, <1>11, <2>1, Classes DEF UpOk
<1> QED BY <1>1, <1>4, <1>5, <1>6, <1>7, <1>8, <1>9, <1>10, <1>11 DEF Ok, Core

\* The target sends.
LEMMA TargetSends ==
  ASSUME NEW inf, NEW asg, NEW A, NEW F, NEW sk, NEW on \in BOOLEAN,
         Ok(inf, asg, A, F, sk, on),
         NEW t \in Tunnids, sk[t].st = "connected",
         NEW f, f = TargetData(t, sk[t].said + 1, sk[t].target),
         NEW F2, F2 = Queued(F, f, on),
         NEW sk2 \in [Tunnids -> Sock], \A u \in Tunnids : u # t => sk2[u] = sk[u],
         sk2[t].st = sk[t].st, sk2[t].target = sk[t].target, sk2[t].heard = sk[t].heard,
         sk2[t].said = sk[t].said + 1
  PROVE  /\ Ok(inf, asg, A, F2, sk2, on)
         /\ UpOk(inf, A, sk, on) => UpOk(inf, A, sk2, on)
<1> DEFINE n == sk[t].said + 1
<1>1. /\ Typed(inf, asg, A, F, sk)
      /\ IdsOk(inf, asg) /\ FreshOk(inf, asg, MsgsIn(A), MsgsIn(F), sk)
      /\ OpenOk(inf, MsgsIn(A), MsgsIn(F), sk) /\ CloseOk(inf, MsgsIn(A))
      /\ TargetOk(inf, sk) /\ DoneOk(MsgsIn(F), sk)
      /\ on => LostOk(inf, MsgsIn(A), MsgsIn(F), sk)
      /\ OnceOk(A) /\ DownOk(inf, F, sk, on)
  BY Parts
<1>2. /\ F \in Seq(FinderMsg) /\ asg \in Nat /\ sk \in [Tunnids -> Sock]
      /\ \A m \in MsgsIn(A) : m.tid \in Tunnids
      /\ \A m \in MsgsIn(F) : m.tid \in Tunnids
      /\ \A c \in Browsers : inf[c].state # "none" => inf[c].tunnid \in Tunnids
  BY <1>1, Types, HasTunnel DEF Typed
<1>3. sk[t] \in Sock /\ n \in Nat /\ sk[t].target \in Targets \cup {"none"}
  BY <1>2 DEF Sock
<1>4. /\ f \in FinderMsg /\ f.tid = t /\ f.op = "DataTransfer" /\ f.first = n /\ f.last = n
      /\ f.from = sk[t].target
  BY <1>3 DEF TargetData, FinderMsg
<1>5. F2 = Queued(F, f, on)
  OBVIOUS
<1>6. /\ F2 \in Seq(FinderMsg) /\ Appended(F2, F, f, on)
      /\ MsgsIn(F) \subseteq MsgsIn(F2) /\ MsgsIn(F2) \subseteq MsgsIn(F) \cup {f}
  BY <1>2, <1>4, <1>5, Appending
<1>7. /\ sk2 \in [Tunnids -> Sock] /\ \A u \in Tunnids : u # t => sk2[u] = sk[u]
      /\ sk2[t].st = sk[t].st /\ sk2[t].target = sk[t].target /\ sk2[t].heard = sk[t].heard
      /\ sk2[t].said = n
  OBVIOUS
<1>8. /\ t <= asg
      /\ \A c \in Browsers : inf[c].tunnid = t => inf[c].state \in Waiting \/ inf[c].state \in Proxying
  <2>1. ~Silent(t, MsgsIn(A), MsgsIn(F), sk)
    BY DEF Silent
  <2> QED BY <2>1, TunnelHas
<1> HIDE DEF n
<1>9. \A u \in Tunnids : /\ sk2[u].st = sk[u].st /\ sk2[u].target = sk[u].target
                         /\ sk2[u].heard = sk[u].heard
  BY <1>7
<1>10. Typed(inf, asg, A, F2, sk2)
  BY <1>1, <1>6, <1>7 DEF Typed
<1>11. FreshOk(inf, asg, MsgsIn(A), MsgsIn(F2), sk2)
  <2>1. \A u \in Tunnids : u > asg => u # t
    BY <1>2, <1>8 DEF Tunnids
  <2>2. \A u \in Tunnids : u # t /\ Silent(u, MsgsIn(A), MsgsIn(F), sk)
                             => Silent(u, MsgsIn(A), MsgsIn(F2), sk2)
    BY <1>4, <1>6, <1>9 DEF Silent
  <2>3. \A c \in Browsers : inf[c].state \in Early => inf[c].tunnid # t /\ inf[c].tunnid \in Tunnids
    BY <1>2, <1>8, Classes
  <2> QED BY <1>1, <2>1, <2>2, <2>3 DEF FreshOk
<1>12. OpenOk(inf, MsgsIn(A), MsgsIn(F2), sk2)
  <2>1. \A m \in MsgsIn(A) : m.op = "OpenTo" => m.tid # t
    BY <1>1 DEF OpenOk
  <2> QED BY <1>1, <1>2, <1>4, <1>6, <1>9, <2>1 DEF OpenOk
<1>13. TargetOk(inf, sk2) /\ DoneOk(MsgsIn(F2), sk2)
  BY <1>1, <1>2, <1>4, <1>6, <1>9 DEF TargetOk, DoneOk
<1>14. on => LostOk(inf, MsgsIn(A), MsgsIn(F2), sk2)
  <2>1. \A c \in Browsers : Ending(inf[c], MsgsIn(F)) => Ending(inf[c], MsgsIn(F2))
    BY <1>6 DEF Ending
  <2> QED BY <1>1, <1>2, <1>9, <2>1, Classes DEF LostOk
<1>15. DownOk(inf, F2, sk2, on)
  <2>1. SUFFICES ASSUME NEW c \in Browsers, inf[c].state # "none"
        PROVE  DownTo(inf[c], F2, sk2[inf[c].tunnid], on)
    BY DEF DownOk
  <2> DEFINE u == inf[c].tunnid
             i == inf[c]
  <2>2. DownTo(i, F, sk[u], on)
    BY <1>1, <2>1 DEF DownOk
  <2>3. CASE ~on
    <3>1. F2 = F
      BY <1>6, <2>3 DEF Appended
    <3> QED BY <2>2, <2>3, <3>1 DEF DownTo
  <2>4. CASE on /\ Grown(F2, F, f)
    <3>1. /\ Chain(F, u, i.heard, TRUE)
          /\ i.state \in Waiting => i.heard = 0
          /\ \A j \in DOMAIN F : F[j].tid = u /\ F[j].op = "DataTransfer" =>
               /\ F[j].from = i.target
               /\ i.state \in Waiting => Told(F, u, j)
          /\ sk[u].st # "none" => EndIs(F, u, i.heard, TRUE, sk[u].said)
          /\ sk[u].st = "connected" /\ i.state \in Waiting => Told(F, u, Len(F) + 1)
      BY <2>2, <2>4 DEF DownTo
    <3>2. sk2[u].st = sk[u].st
      BY <1>2, <1>9, <2>1
    <3>3. /\ Chain(F2, u, i.heard, TRUE)
          /\ sk2[u].st # "none" => EndIs(F2, u, i.heard, TRUE, sk2[u].said)
      <4>1. CASE u = t
        <5>1. EndIs(F, u, i.heard, TRUE, sk[t].said) /\ f.first = sk[t].said + 1 /\ Carries(f, u)
          BY <1>4, <3>1, <4>1 DEF n, Carries
        <5>2. Chain(F2, u, i.heard, TRUE) /\ EndIs(F2, u, i.heard, TRUE, f.last)
          BY ONLY <2>4, <3>1, <5>1, ChainGrows
        <5> QED BY <1>4, <1>7, <4>1, <5>2
      <4>2. CASE u # t
        <5>1. ~Carries(f, u) /\ sk2[u] = sk[u]
          BY <1>2, <1>4, <1>7, <2>1, <4>2 DEF Carries
        <5> QED BY <2>4, <3>1, <5>1, ChainPassesEnd
      <4> QED BY <4>1, <4>2
    <3>4. \A j \in 1 .. Len(F) + 1 : Told(F, u, j) => Told(F2, u, j)
      BY <1>6, ToldStill
    <3>5. Told(F, u, Len(F) + 1) => Told(F2, u, Len(F2) + 1)
      BY <1>6, ToldStill
    <3>6. ASSUME NEW j \in DOMAIN F2, F2[j].tid = u, F2[j].op = "DataTransfer"
          PROVE  F2[j].from = i.target /\ (i.state \in Waiting => Told(F2, u, j))
      <4>1. CASE j \in DOMAIN F /\ F2[j] = F[j]
        <5>1. j \in 1 .. Len(F) + 1
          BY <2>4, <4>1 DEF Grown
        <5> QED BY <3>1, <3>4, <3>6, <4>1, <5>1
      <4>2. CASE j = Len(F) + 1 /\ F2[j] = f
        <5>1. u = t /\ sk[u].st = "connected"
          BY <1>4, <3>6, <4>2
        <5>2. f.from = i.target
          BY <1>1, <1>4, <2>1, <5>1 DEF TargetOk
        <5>3. j \in 1 .. Len(F) + 1
          BY <2>4, <4>2 DEF Grown
        <5> QED BY <3>1, <3>4, <4>2, <5>1, <5>2, <5>3
      <4>3. (j \in DOMAIN F /\ F2[j] = F[j]) \/ (j = Len(F) + 1 /\ F2[j] = f)
        BY ONLY <2>4, <3>6 DEF Grown
      <4> QED BY <4>1, <4>2, <4>3
    <3> QED BY <3>1, <3>2, <3>3, <3>5, <3>6 DEF DownTo
  <2> QED BY <1>6, <2>3, <2>4 DEF Appended
<1>16. UpOk(inf, A, sk, on) => UpOk(inf, A, sk2, on)
  BY <1>2, <1>9, Classes DEF UpOk
<1> QED BY <1>1, <1>10, <1>11, <1>12, <1>13, <1>14, <1>15, <1>16 DEF Ok, Core

\* xlorb's session ends, and its sockets with it.
LEMMA AllGone ==
  ASSUME NEW inf, NEW asg, NEW A, NEW F, NEW sk, NEW on, Ok(inf, asg, A, F, sk, on),
         NEW sk2 \in [Tunnids -> Sock], \A u \in Tunnids : sk2[u].st = "none"
  PROVE  /\ Ok(inf, asg, A, F, sk2, FALSE)
         /\ UpOk(inf, A, sk, on) => UpOk(inf, A, sk2, FALSE)
<1>1. /\ Typed(inf, asg, A, F, sk)
      /\ IdsOk(inf, asg) /\ FreshOk(inf, asg, MsgsIn(A), MsgsIn(F), sk)
      /\ OpenOk(inf, MsgsIn(A), MsgsIn(F), sk) /\ CloseOk(inf, MsgsIn(A))
      /\ TargetOk(inf, sk) /\ DoneOk(MsgsIn(F), sk)
      /\ OnceOk(A) /\ DownOk(inf, F, sk, on)
  BY Parts
<1>2. /\ \A m \in MsgsIn(A) : m.tid \in Tunnids
      /\ \A m \in MsgsIn(F) : m.tid \in Tunnids
      /\ \A c \in Browsers : inf[c].state # "none" => inf[c].tunnid \in Tunnids
  BY <1>1, Types, HasTunnel
<1>3. Typed(inf, asg, A, F, sk2)
  BY <1>1 DEF Typed
<1>4. FreshOk(inf, asg, MsgsIn(A), MsgsIn(F), sk2)
  BY <1>1, <1>2, Classes DEF FreshOk, Silent
<1>5. OpenOk(inf, MsgsIn(A), MsgsIn(F), sk2) /\ TargetOk(inf, sk2) /\ DoneOk(MsgsIn(F), sk2)
  BY <1>1, <1>2 DEF OpenOk, TargetOk, DoneOk
<1>6. DownOk(inf, F, sk2, FALSE)
  BY <1>1 DEF DownOk, DownTo
<1>7. ASSUME UpOk(inf, A, sk, on) PROVE UpOk(inf, A, sk2, FALSE)
  <2>1. \A t \in Tunnids : Chain(A, t, sk2[t].heard, FALSE)
    BY <1>7, ChainForgets DEF UpOk
  <2> QED BY <2>1 DEF UpOk
<1> QED BY <1>1, <1>3, <1>4, <1>5, <1>6, <1>7 DEF Ok, Core

-----------------------------------------------------------------------------
(* The steps of a message to xlorb.                                        *)

LEMMA FirstOfAdmit ==
  ASSUME NEW A \in Seq(AdmitMsg), A # <<>>, OnceOk(A)
  PROVE  LET m == Head(A)
             A2 == Tail(A)
         IN /\ A2 \in Seq(AdmitMsg) /\ m \in AdmitMsg /\ m = A[1] /\ Shifted(A2, A)
            /\ MsgsIn(A) = MsgsIn(A2) \cup {m} /\ m \in MsgsIn(A)
            /\ OnceOk(A2)
            /\ m.op = "OpenTo" => \A k \in MsgsIn(A2) : k.op = "OpenTo" => k.tid # m.tid
<1> DEFINE m == Head(A)
           A2 == Tail(A)
<1>1. /\ A2 \in Seq(AdmitMsg) /\ m \in AdmitMsg /\ m = A[1] /\ Shifted(A2, A)
      /\ MsgsIn(A) = MsgsIn(A2) \cup {m}
  BY Shifting
<1> HIDE DEF m, A2
<1>2. \A i \in DOMAIN A2 : i + 1 \in DOMAIN A /\ A2[i] = A[i + 1] /\ i + 1 # 1
  BY <1>1 DEF Shifted
<1>3. 1 \in DOMAIN A
  BY <1>1 DEF Shifted
<1>4. OnceOk(A2)
  <2>1. ASSUME NEW i \in DOMAIN A2, NEW j \in DOMAIN A2, A2[i].op = "OpenTo", A2[j].op = "OpenTo",
               A2[i].tid = A2[j].tid
        PROVE  i = j
    <3>1. i + 1 = j + 1
      BY <1>2, <2>1 DEF OnceOk
    <3>2. i \in Nat /\ j \in Nat
      BY <1>1 DEF Shifted
    <3> QED BY <3>1, <3>2
  <2> QED BY <2>1 DEF OnceOk
<1>5. ASSUME m.op = "OpenTo", NEW k \in MsgsIn(A2), k.op = "OpenTo" PROVE k.tid # m.tid
  <2>1. PICK i \in DOMAIN A2 : k = A2[i]
    BY DEF MsgsIn
  <2> QED BY <1>1, <1>2, <1>3, <1>5, <2>1 DEF OnceOk
<1>6. m \in MsgsIn(A)
  BY <1>1
<1> QED BY <1>1, <1>4, <1>5, <1>6 DEF m, A2

\* m is taken from queue A; A2 is left.
Taken(A, m, A2) == A # <<>> /\ m = Head(A) /\ A2 = Tail(A)

\* It takes a message that opens nothing.
LEMMA Takes ==
  ASSUME NEW inf, NEW asg, NEW A, NEW F, NEW sk, NEW on, Ok(inf, asg, A, F, sk, on),
         NEW A2, NEW m, Taken(A, m, A2), m.op # "OpenTo"
  PROVE  /\ Ok(inf, asg, A2, F, sk, on)
         /\ m.op = "CloseTunnel" => (UpOk(inf, A, sk, on) => UpOk(inf, A2, sk, on))
<1>1. /\ Typed(inf, asg, A, F, sk)
      /\ IdsOk(inf, asg) /\ FreshOk(inf, asg, MsgsIn(A), MsgsIn(F), sk)
      /\ OpenOk(inf, MsgsIn(A), MsgsIn(F), sk) /\ CloseOk(inf, MsgsIn(A))
      /\ TargetOk(inf, sk) /\ DoneOk(MsgsIn(F), sk)
      /\ on => LostOk(inf, MsgsIn(A), MsgsIn(F), sk)
      /\ OnceOk(A) /\ DownOk(inf, F, sk, on)
  BY Parts
<1>2. A \in Seq(AdmitMsg)
  BY <1>1 DEF Typed
<1>3. /\ A2 \in Seq(AdmitMsg) /\ m = A[1] /\ Shifted(A2, A)
      /\ MsgsIn(A) = MsgsIn(A2) \cup {m} /\ OnceOk(A2)
  BY <1>1, <1>2, FirstOfAdmit DEF Taken
<1>4. Typed(inf, asg, A2, F, sk)
  BY <1>1, <1>3 DEF Typed
<1>5. FreshOk(inf, asg, MsgsIn(A2), MsgsIn(F), sk)
  BY <1>1, <1>3 DEF FreshOk, Silent
<1>6. OpenOk(inf, MsgsIn(A2), MsgsIn(F), sk) /\ CloseOk(inf, MsgsIn(A2))
  BY <1>1, <1>3 DEF OpenOk, CloseOk
<1>7. on => LostOk(inf, MsgsIn(A2), MsgsIn(F), sk)
  BY <1>1, <1>3 DEF LostOk
<1>8. ASSUME m.op = "CloseTunnel", UpOk(inf, A, sk, on) PROVE UpOk(inf, A2, sk, on)
  <2>1. \A t : ~Carries(A[1], t)
    BY <1>3, <1>8 DEF Carries
  <2>2. \A t, base, known, e :
          /\ Chain(A, t, base, known) => Chain(A2, t, base, known)
          /\ EndIs(A, t, base, known, e) => EndIs(A2, t, base, known, e)
    BY <1>3, <2>1, ChainPassesHead
  <2> QED BY <1>8, <2>2 DEF UpOk
<1> QED BY <1>1, <1>3, <1>4, <1>5, <1>6, <1>7, <1>8 DEF Ok, Core

\* What carries fragments of another tunnel does not matter to those of t.
LEMMA UpOthers ==
  ASSUME NEW A2, NEW A, Shifted(A2, A), NEW t, A[1].tid # t, NEW base, NEW known, NEW e
  PROVE  /\ Chain(A, t, base, known) => Chain(A2, t, base, known)
         /\ EndIs(A, t, base, known, e) => EndIs(A2, t, base, known, e)
<1>1. ~Carries(A[1], t)
  BY DEF Carries
<1> QED BY <1>1, ChainPassesHead

\* Fragments that arrive (now: there is a socket for them).
LEMMA UpArrives ==
  ASSUME NEW inf, NEW A, NEW sk, NEW on,
         \A c \in Browsers : inf[c].state \in Waiting \cup Proxying => inf[c].tunnid \in Tunnids,
         NEW A2, Shifted(A2, A), NEW t \in Tunnids, Carries(A[1], t),
         NEW sk2, \A u \in Tunnids : u # t => sk2[u] = sk[u],
         sk2[t].st # "none" => sk2[t].heard = A[1].last,
         UpOk(inf, A, sk, on)
  PROVE  UpOk(inf, A2, sk2, on)
<1>1. ASSUME NEW u \in Tunnids
      PROVE  Chain(A2, u, sk2[u].heard, sk2[u].st # "none")
  <2>1. Chain(A, u, sk[u].heard, sk[u].st # "none")
    BY DEF UpOk
  <2>2. CASE u = t /\ sk2[t].st # "none"
    BY <2>1, <2>2, ChainShrinks
  <2>3. CASE u = t /\ sk2[t].st = "none"
    <3>1. Chain(A2, u, A[1].last, FALSE)
      BY <2>1, <2>3, ChainShrinks
    <3> QED BY <2>3, <3>1, ChainForgets
  <2>4. CASE u # t
    <3>1. A[1].tid # u /\ sk2[u] = sk[u]
      BY <2>4 DEF Carries
    <3> QED BY <2>1, <3>1, UpOthers
  <2> QED BY <2>2, <2>3, <2>4
<1>2. ASSUME on, NEW c \in Browsers, inf[c].state \in Waiting \cup Proxying
      PROVE  EndIs(A2, inf[c].tunnid, sk2[inf[c].tunnid].heard, sk2[inf[c].tunnid].st # "none",
                   inf[c].said - inf[c].cached)
  <2> DEFINE u == inf[c].tunnid
             e == inf[c].said - inf[c].cached
  <2>1. EndIs(A, u, sk[u].heard, sk[u].st # "none", e) /\ u \in Tunnids
    BY <1>2 DEF UpOk
  <2> HIDE DEF u, e
  <2>2. CASE u = t /\ sk2[t].st # "none"
    <3>1. EndIs(A2, u, A[1].last, sk2[t].st # "none", e)
      BY <2>1, <2>2, ChainShrinks
    <3> QED BY <2>2, <3>1 DEF u, e
  <2>3. CASE u = t /\ sk2[t].st = "none"
    <3>1. EndIs(A2, u, A[1].last, FALSE, e)
      BY <2>1, <2>3, ChainShrinks
    <3>2. EndIs(A2, u, sk2[u].heard, FALSE, e)
      BY <3>1, EndForgets
    <3> QED BY <2>3, <3>2 DEF u, e
  <2>4. CASE u # t
    <3>1. A[1].tid # u /\ sk2[u] = sk[u]
      BY <2>1, <2>4 DEF Carries
    <3>2. EndIs(A2, u, sk[u].heard, sk[u].st # "none", e)
      BY <2>1, <3>1, UpOthers
    <3> QED BY <3>1, <3>2 DEF u, e
  <2> QED BY <2>2, <2>3, <2>4
<1> QED BY <1>1, <1>2 DEF UpOk

\* It takes fragments.
LEMMA Receives ==
  ASSUME NEW inf, NEW asg, NEW A, NEW F, NEW sk, NEW on,
         Ok(inf, asg, A, F, sk, on),
         NEW A2, NEW m, Taken(A, m, A2), m.op = "DataTransfer",
         NEW sk2 \in [Tunnids -> Sock], \A u \in Tunnids : u # m.tid => sk2[u] = sk[u],
         sk2[m.tid].target = sk[m.tid].target, sk2[m.tid].said = sk[m.tid].said,
         sk2[m.tid].st = sk[m.tid].st,
         sk[m.tid].st # "none" => sk2[m.tid].heard = m.last
  PROVE  /\ Ok(inf, asg, A2, F, sk2, on)
         /\ UpOk(inf, A, sk, on) => UpOk(inf, A2, sk2, on)
<1> DEFINE t == m.tid
<1>1. /\ Typed(inf, asg, A, F, sk) /\ IdsOk(inf, asg) /\ OnceOk(A)
      /\ Ok(inf, asg, A2, F, sk, on)
  BY Parts, Takes
<1>2. A \in Seq(AdmitMsg) /\ sk \in [Tunnids -> Sock]
  BY <1>1 DEF Typed
<1>3. A2 \in Seq(AdmitMsg) /\ m = A[1] /\ m \in AdmitMsg /\ Shifted(A2, A)
  BY <1>1, <1>2, FirstOfAdmit DEF Taken
<1>4. t \in Tunnids /\ m.last \in Nat
  BY <1>3 DEF AdmitMsg
<1>5. /\ sk2 \in [Tunnids -> Sock] /\ \A u \in Tunnids : u # t => sk2[u] = sk[u]
      /\ sk2[t].target = sk[t].target /\ sk2[t].said = sk[t].said /\ sk2[t].st = sk[t].st
      /\ sk2[t].st # "none" => sk2[t].heard = m.last
  OBVIOUS
<1> HIDE DEF t
<1>6. Ok(inf, asg, A2, F, sk2, on)
  BY <1>1, <1>4, <1>5, Changes
<1>7. ASSUME UpOk(inf, A, sk, on) PROVE UpOk(inf, A2, sk2, on)
  <2>1. Carries(A[1], t)
    BY <1>3 DEF Carries, t
  <2>2. sk2[t].st # "none" => sk2[t].heard = A[1].last
    BY <1>3, <1>5
  <2>3. \A c \in Browsers : inf[c].state \in Waiting \cup Proxying => inf[c].tunnid \in Tunnids
    BY <1>1, HasTunnel, Classes
  <2>4. \A u \in Tunnids : u # t => sk2[u] = sk[u]
    BY <1>5
  <2> QED BY ONLY <1>3, <1>4, <1>7, <2>1, <2>2, <2>3, <2>4, UpArrives
<1> QED BY <1>6, <1>7

\* It refuses a tunnel.
LEMMA Refuses ==
  ASSUME NEW inf, NEW asg, NEW A, NEW F, NEW sk, NEW on \in BOOLEAN,
         Ok(inf, asg, A, F, sk, on),
         NEW A2, NEW m, Taken(A, m, A2), m.op = "OpenTo",
         NEW f \in FinderMsg, f.op = "RtnOpenTo", f.tid = m.tid, Bad(f),
         NEW F2, F2 = Queued(F, f, on)
  PROVE  /\ Ok(inf, asg, A2, F2, sk, on)
         /\ UpOk(inf, A, sk, on) => UpOk(inf, A2, sk, on)
<1> DEFINE t == m.tid
<1>1. /\ Typed(inf, asg, A, F, sk)
      /\ IdsOk(inf, asg) /\ FreshOk(inf, asg, MsgsIn(A), MsgsIn(F), sk)
      /\ OpenOk(inf, MsgsIn(A), MsgsIn(F), sk) /\ CloseOk(inf, MsgsIn(A))
      /\ TargetOk(inf, sk) /\ DoneOk(MsgsIn(F), sk)
      /\ on => LostOk(inf, MsgsIn(A), MsgsIn(F), sk)
      /\ OnceOk(A) /\ DownOk(inf, F, sk, on)
  BY Parts
<1>2. A \in Seq(AdmitMsg) /\ F \in Seq(FinderMsg) /\ asg \in Nat
  BY <1>1, Types DEF Typed
<1>3. /\ A2 \in Seq(AdmitMsg) /\ m \in AdmitMsg /\ m = A[1] /\ Shifted(A2, A)
      /\ MsgsIn(A) = MsgsIn(A2) \cup {m} /\ m \in MsgsIn(A)
      /\ OnceOk(A2)
      /\ \A k \in MsgsIn(A2) : k.op = "OpenTo" => k.tid # t
  BY <1>1, <1>2, FirstOfAdmit DEF Taken
<1>4. t \in Tunnids
  BY <1>3 DEF AdmitMsg
<1>5. f \in FinderMsg /\ f.op = "RtnOpenTo" /\ f.tid = t /\ ~f.ok
  BY DEF Bad
<1>6. F2 = Queued(F, f, on) /\ on \in BOOLEAN
  OBVIOUS
<1>7. /\ t <= asg
      /\ \A c \in Browsers : inf[c].tunnid = t => inf[c].state \in Waiting \/ inf[c].state \in Proxying
  <2>1. ~Silent(t, MsgsIn(A), MsgsIn(F), sk)
    BY <1>3 DEF Silent
  <2> QED BY <1>4, <2>1, TunnelHas
<1>8. sk[t].st = "none"
  BY <1>1, <1>3 DEF OpenOk
<1> HIDE DEF t
<1>9. /\ F2 \in Seq(FinderMsg) /\ Appended(F2, F, f, on)
      /\ MsgsIn(F) \subseteq MsgsIn(F2) /\ MsgsIn(F2) \subseteq MsgsIn(F) \cup {f}
      /\ on => f \in MsgsIn(F2)
  BY ONLY <1>2, <1>5, <1>6, Appending
<1>10. Typed(inf, asg, A2, F2, sk)
  BY <1>1, <1>3, <1>9 DEF Typed
<1>11. FreshOk(inf, asg, MsgsIn(A2), MsgsIn(F2), sk)
  <2>1. \A u \in Tunnids : u > asg => u # t
    BY <1>2, <1>7 DEF Tunnids
  <2>2. \A u : u # t /\ Silent(u, MsgsIn(A), MsgsIn(F), sk)
                 => Silent(u, MsgsIn(A2), MsgsIn(F2), sk)
    BY <1>3, <1>5, <1>9 DEF Silent
  <2>3. \A c \in Browsers : inf[c].state \in Early => inf[c].tunnid # t
    BY <1>7, Classes
  <2> QED BY <1>1, <2>1, <2>2, <2>3 DEF FreshOk
<1>12. OpenOk(inf, MsgsIn(A2), MsgsIn(F2), sk)
  BY <1>1, <1>3, <1>5, <1>9 DEF OpenOk
<1>13. CloseOk(inf, MsgsIn(A2)) /\ DoneOk(MsgsIn(F2), sk)
  BY <1>1, <1>3, <1>5, <1>9 DEF CloseOk, DoneOk
<1>14. on => LostOk(inf, MsgsIn(A2), MsgsIn(F2), sk)
  <2>1. \A c \in Browsers : Ending(inf[c], MsgsIn(F)) => Ending(inf[c], MsgsIn(F2))
    BY <1>9 DEF Ending
  <2>2. \A c \in Browsers : on /\ inf[c].tunnid = t => Ending(inf[c], MsgsIn(F2))
    BY <1>5, <1>9 DEF Ending
  <2>3. \A c \in Browsers : inf[c].tunnid # t /\ (\E k \in MsgsIn(A) : k.op = "OpenTo" /\ k.tid = inf[c].tunnid)
          => \E k \in MsgsIn(A2) : k.op = "OpenTo" /\ k.tid = inf[c].tunnid
    BY <1>3 DEF t
  <2> QED BY <1>1, <2>1, <2>2, <2>3 DEF LostOk
<1>15. DownOk(inf, F2, sk, on)
  <2>1. f.op \notin {"OpenTo", "DataTransfer"}
    BY <1>5
  <2>2. ASSUME NEW c \in Browsers, inf[c].state # "none"
        PROVE  DownTo(inf[c], F2, sk[inf[c].tunnid], on)
    <3>1. DownTo(inf[c], F, sk[inf[c].tunnid], on)
      BY <1>1, <2>2 DEF DownOk
    <3>2. \A s : /\ s.st # "none" => s.st # "none" /\ s.said = s.said
                 /\ ~(s.st = "connected" /\ s.st # "connected")
      OBVIOUS
    <3> QED BY ONLY <1>9, <2>1, <3>1, <3>2, DownAppends
  <2> QED BY <2>2 DEF DownOk
<1>16. ASSUME UpOk(inf, A, sk, on) PROVE UpOk(inf, A2, sk, on)
  <2>1. Carries(A[1], t) /\ (sk[t].st # "none" => sk[t].heard = A[1].last)
    BY <1>3, <1>8 DEF Carries, t
  <2>2. \A c \in Browsers : inf[c].state \in Waiting \cup Proxying => inf[c].tunnid \in Tunnids
    BY <1>1, HasTunnel, Classes
  <2>3. \A u \in Tunnids : u # t => sk[u] = sk[u]
    OBVIOUS
  <2> QED BY ONLY <1>3, <1>4, <1>16, <2>1, <2>2, <2>3, UpArrives
<1> QED BY <1>1, <1>3, <1>10, <1>11, <1>12, <1>13, <1>14, <1>15, <1>16 DEF Ok, Core

\* It opens one.
LEMMA Opens ==
  ASSUME NEW inf, NEW asg, NEW A, NEW F, NEW sk, NEW on, Ok(inf, asg, A, F, sk, on),
         NEW A2, NEW m, Taken(A, m, A2), m.op = "OpenTo",
         NEW sk2 \in [Tunnids -> Sock], \A u \in Tunnids : u # m.tid => sk2[u] = sk[u],
         sk2[m.tid].st \in {"resolving", "connecting"}, sk2[m.tid].target = m.target,
         sk2[m.tid].heard = m.last, sk2[m.tid].said = 0
  PROVE  /\ Ok(inf, asg, A2, F, sk2, on)
         /\ UpOk(inf, A, sk, on) => UpOk(inf, A2, sk2, on)
<1> DEFINE t == m.tid
<1>1. /\ Typed(inf, asg, A, F, sk)
      /\ IdsOk(inf, asg) /\ FreshOk(inf, asg, MsgsIn(A), MsgsIn(F), sk)
      /\ OpenOk(inf, MsgsIn(A), MsgsIn(F), sk) /\ CloseOk(inf, MsgsIn(A))
      /\ TargetOk(inf, sk) /\ DoneOk(MsgsIn(F), sk)
      /\ on => LostOk(inf, MsgsIn(A), MsgsIn(F), sk)
      /\ OnceOk(A) /\ DownOk(inf, F, sk, on)
  BY Parts
<1>2. /\ A \in Seq(AdmitMsg) /\ asg \in Nat
      /\ \A k \in MsgsIn(A) : k.tid \in Tunnids
      /\ \A k \in MsgsIn(F) : k.tid \in Tunnids
      /\ \A c \in Browsers : inf[c].state # "none" => inf[c].tunnid \in Tunnids
  BY <1>1, Types, HasTunnel DEF Typed
<1>3. /\ A2 \in Seq(AdmitMsg) /\ m \in AdmitMsg /\ m = A[1] /\ Shifted(A2, A)
      /\ MsgsIn(A) = MsgsIn(A2) \cup {m} /\ m \in MsgsIn(A)
      /\ OnceOk(A2)
      /\ \A k \in MsgsIn(A2) : k.op = "OpenTo" => k.tid # t
  <2>1. A # <<>> /\ m = Head(A) /\ A2 = Tail(A) /\ OnceOk(A) /\ A \in Seq(AdmitMsg)
    BY <1>1, <1>2 DEF Taken
  <2>2. /\ A2 \in Seq(AdmitMsg) /\ m \in AdmitMsg /\ m = A[1] /\ Shifted(A2, A)
        /\ MsgsIn(A) = MsgsIn(A2) \cup {m} /\ m \in MsgsIn(A)
        /\ OnceOk(A2)
        /\ m.op = "OpenTo" => \A k \in MsgsIn(A2) : k.op = "OpenTo" => k.tid # m.tid
    BY ONLY <2>1, FirstOfAdmit
  <2> QED BY <2>2
<1>4. t \in Tunnids
  BY <1>2, <1>3
<1>5. /\ t <= asg
      /\ \A c \in Browsers : inf[c].tunnid = t => inf[c].state \in Waiting \/ inf[c].state \in Proxying
  <2>1. ~Silent(t, MsgsIn(A), MsgsIn(F), sk)
    BY <1>3 DEF Silent
  <2> QED BY <1>4, <2>1, TunnelHas
<1>6. /\ sk[t].st = "none" /\ \A f \in MsgsIn(F) : f.tid # t
      /\ \A c \in Browsers : inf[c].tunnid = t => inf[c].state \in Waiting /\ inf[c].target = m.target
  BY <1>1, <1>3 DEF OpenOk
<1>7. /\ \A u \in Tunnids : u # t => sk2[u] = sk[u]
      /\ sk2[t].st \in {"resolving", "connecting"} /\ sk2[t].target = m.target
      /\ sk2[t].heard = m.last /\ sk2[t].said = 0
  OBVIOUS
<1> HIDE DEF t
<1>8. Typed(inf, asg, A2, F, sk2)
  BY <1>1, <1>3 DEF Typed
<1>9. FreshOk(inf, asg, MsgsIn(A2), MsgsIn(F), sk2)
  <2>1. \A u \in Tunnids : u > asg => u # t
    BY <1>2, <1>5 DEF Tunnids
  <2>2. \A u \in Tunnids : u # t /\ Silent(u, MsgsIn(A), MsgsIn(F), sk)
                             => Silent(u, MsgsIn(A2), MsgsIn(F), sk2)
    BY <1>3, <1>7 DEF Silent
  <2>3. \A c \in Browsers : inf[c].state \in Early => inf[c].tunnid # t /\ inf[c].tunnid \in Tunnids
    BY <1>2, <1>5, Classes
  <2> QED BY <1>1, <2>1, <2>2, <2>3 DEF FreshOk
<1>10. OpenOk(inf, MsgsIn(A2), MsgsIn(F), sk2)
  BY <1>1, <1>2, <1>3, <1>7 DEF OpenOk
<1>11. CloseOk(inf, MsgsIn(A2)) /\ DoneOk(MsgsIn(F), sk2) /\ TargetOk(inf, sk2)
  <2>1. CloseOk(inf, MsgsIn(A2))
    BY <1>1, <1>3 DEF CloseOk
  <2>2. DoneOk(MsgsIn(F), sk2)
    BY <1>1, <1>2, <1>6, <1>7 DEF DoneOk
  <2>3. TargetOk(inf, sk2)
    BY <1>1, <1>2, <1>6, <1>7 DEF TargetOk
  <2> QED BY <2>1, <2>2, <2>3
<1>12. on => LostOk(inf, MsgsIn(A2), MsgsIn(F), sk2)
  <2>1. \A c \in Browsers : inf[c].tunnid # t /\ (\E k \in MsgsIn(A) : k.op = "OpenTo" /\ k.tid = inf[c].tunnid)
          => \E k \in MsgsIn(A2) : k.op = "OpenTo" /\ k.tid = inf[c].tunnid
    BY <1>3 DEF t
  <2>2. \A c \in Browsers : inf[c].state # "none" /\ inf[c].tunnid # t =>
          sk2[inf[c].tunnid] = sk[inf[c].tunnid]
    BY <1>2, <1>7
  <2>3. \A c \in Browsers : inf[c].tunnid = t => inf[c].state \notin Proxying
    BY <1>6, Classes
  <2> QED BY <1>1, <1>7, <2>1, <2>2, <2>3, Classes DEF LostOk
<1>13. DownOk(inf, F, sk2, on)
  <2>1. ASSUME NEW c \in Browsers, inf[c].state # "none", inf[c].tunnid # t
        PROVE  DownTo(inf[c], F, sk2[inf[c].tunnid], on)
    BY <1>1, <1>2, <1>7, <2>1 DEF DownOk
  <2>2. ASSUME NEW c \in Browsers, inf[c].state # "none", inf[c].tunnid = t
        PROVE  DownTo(inf[c], F, sk2[inf[c].tunnid], on)
    <3>1. /\ Chain(F, t, inf[c].heard, TRUE)
          /\ inf[c].heard = 0
      BY <1>1, <1>6, <2>2 DEF DownOk, DownTo
    <3>2. EndIs(F, t, inf[c].heard, TRUE, 0)
      BY <1>6, <3>1, ChainOfNone
    <3>3. \A j \in DOMAIN F : F[j].tid # t
      BY <1>6 DEF MsgsIn
    <3> QED BY <1>7, <2>2, <3>1, <3>2, <3>3 DEF DownTo
  <2> QED BY <2>1, <2>2 DEF DownOk
<1>14. ASSUME UpOk(inf, A, sk, on) PROVE UpOk(inf, A2, sk2, on)
  <2>1. Carries(A[1], t) /\ (sk2[t].st # "none" => sk2[t].heard = A[1].last)
    BY <1>3, <1>7 DEF Carries, t
  <2>2. \A c \in Browsers : inf[c].state \in Waiting \cup Proxying => inf[c].tunnid \in Tunnids
    BY <1>2, Classes
  <2> QED BY ONLY <1>3, <1>4, <1>7, <1>14, <2>1, <2>2, UpArrives
<1> QED BY <1>1, <1>3, <1>8, <1>9, <1>10, <1>11, <1>12, <1>13, <1>14 DEF Ok, Core

-----------------------------------------------------------------------------
(* What the proxy assistant makes of what a browser sends.                 *)

\* It keeps it, asks for the target, sends it, or changes the tunnel.
KeepsIt(r, i) ==
  r.send = <<>> /\ r.assigner = tunnidAssigner /\ r.ok \in BOOLEAN /\ Alike(r.info, i)

Requests(j) == j.state \in Waiting /\ j.target \in Targets /\ j.cached = 0 /\ j.heard = 0

AsksForIt(r, i) ==
  /\ i.state \in Early /\ Requests(r.info) /\ r.info.tunnid = i.tunnid
  /\ r.assigner = tunnidAssigner /\ r.ok \in BOOLEAN
  /\ r.send = <<OpenTo(i.tunnid, r.info.target, r.info.said)>>

SendsIt(r, i) ==
  /\ i.state \in Waiting \cup Proxying /\ Same(r.info, i)
  /\ r.info.said - r.info.cached = i.said
  /\ r.assigner = tunnidAssigner /\ r.ok \in BOOLEAN
  /\ r.send = <<Data(i.tunnid, i.said - i.cached + 1, i.said)>>

ChangesIt(r, i) ==
  /\ i.state \in Proxying /\ Requests(r.info)
  /\ tunnidAssigner < MaxTunnid /\ r.info.tunnid = tunnidAssigner + 1
  /\ r.assigner = tunnidAssigner + 1 /\ r.ok \in BOOLEAN
  /\ r.send = <<CloseTunnel(i.tunnid), OpenTo(r.info.tunnid, r.info.target, r.info.said)>>

LEMMA RequestingIs ==
  ASSUME NEW i \in Info, NEW kind \in {"FORWARD"} \cup Kinds,
         NEW tar \in Targets, NEW large \in BOOLEAN
  PROVE  LET j == Requesting(i, kind, tar, large)
             n == IF kind = "HTTP" THEN 1 ELSE 0
         IN /\ j = [state |-> WaitState(large), proxyType |-> kind, tunnid |-> i.tunnid,
                    target |-> tar, said |-> n, cached |-> 0, heard |-> 0,
                    reading |-> i.reading, closing |-> i.closing]
            /\ j \in Info /\ j.state \in Waiting
<1> DEFINE j == Requesting(i, kind, tar, large)
           w == WaitState(large)
           n == IF kind = "HTTP" THEN 1 ELSE 0
<1>1. w \in Waiting /\ n \in Nat
  BY DEF WaitState, Waiting
<1>2. j = [i EXCEPT !.state = w, !.proxyType = kind, !.target = tar,
                    !.said = n, !.cached = 0, !.heard = 0]
  BY DEF Requesting
<1> HIDE DEF w, n
<1>3. j = [state |-> w, proxyType |-> kind, tunnid |-> i.tunnid, target |-> tar, said |-> n,
           cached |-> 0, heard |-> 0, reading |-> i.reading, closing |-> i.closing]
  BY <1>2 DEF Info
<1>4. i.tunnid \in 0 .. MaxTunnid /\ i.reading \in BOOLEAN /\ i.closing \in BOOLEAN
  BY DEF Info
<1> HIDE DEF j
<1>5. j \in Info
  BY <1>1, <1>3, <1>4 DEF Info
<1> QED BY <1>1, <1>3, <1>5 DEF j, w, n

LEMMA OpenedAsks ==
  ASSUME NEW i \in Info, i.state \in Early, NEW kind \in {"FORWARD"} \cup Kinds,
         NEW tar \in Targets, NEW large \in BOOLEAN
  PROVE  /\ Opened(i, kind, tar, large).info \in Info
         /\ AsksForIt(Opened(i, kind, tar, large), i)
<1> DEFINE j == Requesting(i, kind, tar, large)
<1>1. /\ j \in Info /\ j.tunnid = i.tunnid /\ j.state \in Waiting /\ j.target = tar
      /\ j.cached = 0 /\ j.heard = 0
  BY RequestingIs
<1> HIDE DEF j
<1>2. Opened(i, kind, tar, large) = Outcome(j, <<OpenTo(i.tunnid, tar, j.said)>>, TRUE)
  BY DEF Opened, j
<1> QED BY <1>1, <1>2 DEF AsksForIt, Requests, Outcome

LEMMA ChangedChanges ==
  ASSUME NEW i \in Info, i.state \in Proxying, "HTTP" \in Kinds, tunnidAssigner \in Nat,
         tunnidAssigner < MaxTunnid, NEW tar \in Targets, NEW large \in BOOLEAN
  PROVE  /\ Changed(i, tar, large).info \in Info
         /\ ChangesIt(Changed(i, tar, large), i)
<1> DEFINE t == tunnidAssigner + 1
           k == Requesting(i, "HTTP", tar, large)
           j == [k EXCEPT !.tunnid = t]
<1>1. t \in 0 .. MaxTunnid
  BY TunnelAssumption
<1>2. /\ k \in Info /\ k.state \in Waiting /\ k.target = tar
      /\ k.cached = 0 /\ k.heard = 0 /\ k.said = 1
  BY RequestingIs
<1> HIDE DEF k, t
<1>3. /\ j \in Info /\ j.tunnid = t /\ j.state \in Waiting /\ j.target = tar
      /\ j.cached = 0 /\ j.heard = 0 /\ j.said = 1
  BY <1>1, <1>2 DEF Info
<1>4. /\ Changed(i, tar, large).info = j
      /\ Changed(i, tar, large).send = <<CloseTunnel(i.tunnid), OpenTo(t, tar, 1)>>
      /\ Changed(i, tar, large).assigner = t /\ Changed(i, tar, large).ok = TRUE
  BY DEF Changed, Outcome, NextTunnid, k, t
<1> HIDE DEF j
<1> QED BY <1>3, <1>4 DEF ChangesIt, Requests, t

LEMMA SentSends ==
  ASSUME NEW i \in Info, NEW state,
         \/ i.state \in Waiting /\ state \in Waiting
         \/ i.state \in Proxying /\ state \in Proxying
  PROVE  Sent(i, state).info \in Info /\ SendsIt(Sent(i, state), i)
<1> DEFINE j == [i EXCEPT !.state = state, !.cached = 0]
<1>1. /\ j \in Info /\ j.tunnid = i.tunnid /\ j.state = state /\ j.target = i.target
      /\ j.cached = 0 /\ j.heard = i.heard /\ j.said = i.said /\ j.closing = i.closing
      /\ i.said \in Nat
  BY DEF Info
<1> HIDE DEF j
<1>2. Sent(i, state) = Outcome(j, <<Data(i.tunnid, i.said - i.cached + 1, i.said)>>, TRUE)
  BY DEF Sent, j
<1>3. Same(j, i)
  BY <1>1, Classes DEF Same
<1>4. j.said - j.cached = i.said
  BY <1>1
<1> QED BY <1>1, <1>2, <1>3, <1>4 DEF SendsIt, Outcome

Resaid(i, n, c) == [i EXCEPT !.said = n, !.cached = c]

LEMMA ResaidIs ==
  ASSUME NEW i \in Info, NEW n \in Nat, NEW c \in Nat
  PROVE  /\ Resaid(i, n, c) \in Info /\ Same(Resaid(i, n, c), i)
         /\ Resaid(i, n, c).said = n /\ Resaid(i, n, c).cached = c
<1> DEFINE j == Resaid(i, n, c)
<1>1. j \in Info
  BY DEF Info, Resaid
<1>2. /\ j.said = n /\ j.cached = c /\ j.tunnid = i.tunnid /\ j.target = i.target
      /\ j.heard = i.heard /\ j.state = i.state /\ j.closing = i.closing
  BY DEF Info, Resaid
<1> HIDE DEF j
<1>3. Same(j, i)
  BY <1>2 DEF Same
<1> QED BY <1>1, <1>2, <1>3 DEF j

LEMMA LargePostSends ==
  ASSUME NEW i \in Info, i.state \in {"WaitOpenToLargePost", "ProxyToLargePost"},
         NEW r \in LargePost(i)
  PROVE  r.info \in Info /\ SendsIt(r, i)
<1> DEFINE done == IF i.state = "ProxyToLargePost" THEN "ProxyTo" ELSE "WaitOpenTo"
           s == Sent(i, done)
           j == [s.info EXCEPT !.said = i.said + 1, !.cached = 1]
           x == [s EXCEPT !.info.said = i.said + 1, !.info.cached = 1]
<1>1. \/ i.state \in Waiting /\ done \in Waiting
      \/ i.state \in Proxying /\ done \in Proxying
  BY DEF Waiting, Proxying
<1>2. (i.state \in Waiting \/ i.state \in Proxying) /\ i.said \in Nat
  BY <1>1 DEF Info
<1> HIDE DEF done
<1>3. s.info \in Info /\ SendsIt(s, i)
  BY <1>1, SentSends
<1>4. Sent(i, i.state).info \in Info /\ SendsIt(Sent(i, i.state), i)
  BY <1>2, SentSends
<1>5. x.info = j /\ x.send = s.send /\ x.assigner = s.assigner /\ x.ok = s.ok
  BY DEF Sent, Outcome
<1> HIDE DEF s, x
<1>6. /\ j \in Info /\ Same(j, s.info) /\ j.said - j.cached = i.said
  <2>1. i.said + 1 \in Nat /\ 1 \in Nat
    BY <1>2
  <2>2. j \in Info /\ Same(j, s.info) /\ j.said = i.said + 1 /\ j.cached = 1
    <3>1. j = Resaid(s.info, i.said + 1, 1)
      BY DEF Resaid
    <3> QED BY <1>3, <2>1, <3>1, ResaidIs
  <2> QED BY <1>2, <2>2
<1>7. r = Sent(i, i.state) \/ r = s \/ r = x
  BY DEF LargePost, done, s, x
<1> HIDE DEF j
<1>8. x.info \in Info /\ SendsIt(x, i)
  BY <1>3, <1>5, <1>6 DEF SendsIt, Same
<1> QED BY <1>3, <1>4, <1>7, <1>8

LEMMA KeepingKeeps ==
  ASSUME NEW i \in Info
  PROVE  /\ KeepsIt(Outcome(i, <<>>, TRUE), i) /\ Outcome(i, <<>>, TRUE).info \in Info
         /\ \A r \in Refused(i) : KeepsIt(r, i) /\ r.info \in Info
<1>1. KeepsIt(Outcome(i, <<>>, TRUE), i) /\ Outcome(i, <<>>, TRUE).info \in Info
  BY DEF KeepsIt, Outcome, Alike, Same
<1>2. /\ Closed(i) \in Info /\ Closed(i).tunnid = i.tunnid /\ Closed(i).target = i.target
      /\ Closed(i).heard = i.heard /\ Closed(i).state = i.state /\ Closed(i).closing
      /\ Closed(i).said = i.said /\ Closed(i).cached = i.cached
  BY DEF Closed, Info
<1>3. Alike(Closed(i), i)
  BY <1>2 DEF Alike, Same
<1>4. ASSUME NEW r \in Refused(i) PROVE KeepsIt(r, i) /\ r.info \in Info
  <2>1. r = Outcome(Closed(i), <<>>, FALSE)
    BY DEF Refused
  <2>2. r.info = Closed(i) /\ r.send = <<>> /\ r.ok = FALSE /\ r.assigner = tunnidAssigner
    BY <2>1 DEF Outcome
  <2> QED BY <1>2, <1>3, <2>2 DEF KeepsIt
<1> QED BY <1>1, <1>4

OneOf(r, i) ==
  r.info \in Info /\ (KeepsIt(r, i) \/ AsksForIt(r, i) \/ SendsIt(r, i) \/ ChangesIt(r, i))

LEMMA ProxyRecvIs ==
  ASSUME NEW i \in Info, i.state # "none", tunnidAssigner \in Nat, NEW r \in OnProxyRecv(i)
  PROVE  OneOf(r, i)
<1>1. \/ i.state \in Early \/ i.state \in Waiting \/ i.state \in Proxying
  BY DEF Info
<1>2. CASE i.state \in Early
  <2>1. i.state \notin Waiting \cup Proxying
    BY <1>2, Classes
  <2>2. OnProxyRecv(i) = HandleProxyHead(i)
    BY <2>1 DEF OnProxyRecv, Waiting, Proxying
  <2>3. PICK k \in Kinds : r \in IF k = "SOCK" THEN HandleProxyHeadSOCK(i) ELSE HandleProxyHeadHTTP(i, k)
    BY <2>2 DEF HandleProxyHead
  <2>4. CASE k = "SOCK"
    <3>1. r \in Refused(i) \cup {Opened(i, "SOCK", tar, FALSE) : tar \in Targets}
            \cup (IF i.state = "WaitTarget"
                  THEN {Outcome([i EXCEPT !.state = "HandShakeOK"], <<>>, TRUE)} ELSE {})
      BY <2>3, <2>4 DEF HandleProxyHeadSOCK
    <3>2. CASE r \in Refused(i)
      BY <3>2, KeepingKeeps DEF OneOf
    <3>3. CASE r \in {Opened(i, "SOCK", tar, FALSE) : tar \in Targets}
      BY <1>2, <2>4, <3>3, OpenedAsks DEF OneOf
    <3>4. CASE r = Outcome([i EXCEPT !.state = "HandShakeOK"], <<>>, TRUE)
      <4> DEFINE j == [i EXCEPT !.state = "HandShakeOK"]
      <4>1. /\ j \in Info /\ j.tunnid = i.tunnid /\ j.state = "HandShakeOK" /\ j.target = i.target
            /\ j.cached = i.cached /\ j.heard = i.heard /\ j.said = i.said /\ j.closing = i.closing
        BY DEF Info, Early
      <4> HIDE DEF j
      <4>2. j.state \in Early
        BY <4>1 DEF Early
      <4>3. Alike(j, i)
        BY <1>2, <4>1, <4>2, Classes DEF Alike, Same
      <4> QED BY <3>4, <4>1, <4>3 DEF OneOf, KeepsIt, Outcome, j
    <3> QED BY <3>1, <3>2, <3>3, <3>4
  <2>5. CASE k # "SOCK"
    <3>1. i.state \notin Proxying
      BY <2>1
    <3> DEFINE L == IF k = "HTTP" THEN BOOLEAN ELSE {FALSE}
               S == {Opened(i, k, tar, large) : tar \in Targets, large \in L}
    <3>2. L \subseteq BOOLEAN
      OBVIOUS
    <3>3. HandleProxyHeadHTTP(i, k) = {Outcome(i, <<>>, TRUE)} \cup Refused(i) \cup S
      BY <3>1 DEF HandleProxyHeadHTTP
    <3> HIDE DEF L
    <3>4. ASSUME r \in S PROVE OneOf(r, i)
      <4>1. PICK tar \in Targets, large \in L : r = Opened(i, k, tar, large)
        BY <3>4
      <4> QED BY <1>2, <3>2, <4>1, OpenedAsks DEF OneOf
    <3>5. ASSUME r \in {Outcome(i, <<>>, TRUE)} \cup Refused(i) PROVE OneOf(r, i)
      BY <3>5, KeepingKeeps DEF OneOf
    <3> HIDE DEF S
    <3> QED BY <2>3, <2>5, <3>3, <3>4, <3>5
  <2> QED BY <2>4, <2>5
<1>3. CASE i.state \in Waiting
  <2>1. CASE i.state = "WaitOpenTo"
    <3>1. r = Outcome(i, <<>>, TRUE)
      BY <2>1 DEF OnProxyRecv, Waiting, Proxying
    <3> QED BY <3>1, KeepingKeeps DEF OneOf
  <2>2. CASE i.state = "WaitOpenToLargePost"
    <3>1. r \in LargePost(i)
      BY <2>2 DEF OnProxyRecv, Waiting, Proxying
    <3> QED BY <2>2, <3>1, LargePostSends DEF OneOf
  <2> QED BY <1>3, <2>1, <2>2 DEF Waiting
<1>4. CASE i.state \in Proxying
  <2>1. CASE i.state = "ProxyToLargePost"
    <3>1. r \in LargePost(i)
      BY <2>1 DEF OnProxyRecv, Waiting, Proxying
    <3> QED BY <2>1, <3>1, LargePostSends DEF OneOf
  <2>2. CASE i.state = "ProxyTo" /\ i.proxyType # "HTTP"
    <3>1. r = Sent(i, "ProxyTo")
      BY <2>2 DEF OnProxyRecv, Waiting, Proxying
    <3> QED BY <1>4, <2>2, <3>1, SentSends DEF OneOf, Proxying
  <2>3. CASE i.state = "ProxyTo" /\ i.proxyType = "HTTP"
    <3>1. OnProxyRecv(i) = HandleProxyHeadHTTP(i, "HTTP")
      BY <2>3 DEF OnProxyRecv, Waiting, Proxying
    <3>2. "HTTP" \in Kinds
      BY <2>3 DEF Info
    <3> DEFINE K == {Outcome(i, <<>>, TRUE)} \cup Refused(i)
               S == {Sent(i, ProxyState(large)) : large \in BOOLEAN}
               C == {Changed(i, tar, large) : tar \in Targets \ {i.target}, large \in BOOLEAN}
               E == {Opened(i, "HTTP", tar, large) :
                       tar \in Targets, large \in IF "HTTP" = "HTTP" THEN BOOLEAN ELSE {FALSE}}
    <3>3. HandleProxyHeadHTTP(i, "HTTP") =
            K \cup (IF i.state \notin Proxying THEN E
                    ELSE S \cup (IF tunnidAssigner < MaxTunnid THEN C ELSE {}))
      BY DEF HandleProxyHeadHTTP
    <3>4. ASSUME r \in K PROVE OneOf(r, i)
      BY <3>4, KeepingKeeps DEF OneOf
    <3>5. ASSUME r \in S PROVE OneOf(r, i)
      <4>1. PICK large \in BOOLEAN : r = Sent(i, ProxyState(large))
        BY <3>5
      <4>2. ProxyState(large) \in Proxying
        BY DEF ProxyState, Proxying
      <4> QED BY <1>4, <4>1, <4>2, SentSends DEF OneOf
    <3>6. ASSUME r \in C, tunnidAssigner < MaxTunnid PROVE OneOf(r, i)
      <4>1. PICK tar \in Targets \ {i.target}, large \in BOOLEAN : r = Changed(i, tar, large)
        BY <3>6
      <4> QED BY <1>4, <3>2, <3>6, <4>1, ChangedChanges DEF OneOf
    <3> HIDE DEF K, S, C, E
    <3> QED BY <1>4, <3>1, <3>3, <3>4, <3>5, <3>6
  <2> QED BY <1>4, <2>1, <2>2, <2>3 DEF Proxying
<1> QED BY <1>1, <1>2, <1>3, <1>4

LEMMA TwoAtOnce ==
  ASSUME NEW S, NEW A \in Seq(S), NEW x \in S, NEW y \in S
  PROVE  A \o <<x, y>> = (A \o <<x>>) \o <<y>>
<1>1. <<x>> \in Seq(S) /\ <<y>> \in Seq(S) /\ <<x, y>> \in Seq(S)
  OBVIOUS
<1>2. <<x>> \o <<y>> = <<x, y>>
  <2> DEFINE p == <<x>> \o <<y>>
             q == <<x, y>>
  <2>1. p \in Seq(S) /\ Len(p) = 2 /\ p[1] = x /\ p[2] = y
    <3>1. Len(<<x>>) = 1 /\ Len(<<y>>) = 1 /\ <<x>>[1] = x /\ <<y>>[1] = y
      OBVIOUS
    <3> QED BY <1>1, <3>1, ConcatProperties
  <2>2. q \in Seq(S) /\ Len(q) = 2 /\ q[1] = x /\ q[2] = y
    BY <1>1
  <2>3. \A k \in 1 .. Len(p) : p[k] = q[k]
    BY <2>1, <2>2
  <2> HIDE DEF p, q
  <2>4. p = q
    BY <2>1, <2>2, <2>3, SeqEqual
  <2> QED BY <2>4 DEF p, q
<1>3. (A \o <<x>>) \o <<y>> = A \o (<<x>> \o <<y>>)
  BY <1>1, ConcatAssociative
<1> QED BY <1>2, <1>3

\* inf2 is inf, but that browser b has j.
Put(inf2, inf, b, j) ==
  /\ inf2 \in [Browsers -> Info]
  /\ inf2[b] = j /\ \A c \in Browsers : c # b => inf2[c] = inf[c]

LEMMA Putting ==
  ASSUME NEW inf \in [Browsers -> Info], NEW b \in Browsers, NEW j \in Info
  PROVE  Put([inf EXCEPT ![b] = j], inf, b, j)
BY DEF Put

LEMMA NoInfoIs ==
  /\ NoInfo \in Info /\ NoInfo.state = "none" /\ NoInfo.tunnid = 0
  /\ \A t \in 0 .. MaxTunnid :
       LET j == [NoInfo EXCEPT !.state = "WaitTarget", !.tunnid = t]
       IN j \in Info /\ j.state \in Early /\ j.tunnid = t
<1>1. 0 \in 0 .. MaxTunnid /\ "WaitTarget" \in Early
  BY TunnelAssumption DEF Early
<1>2. NoInfo \in Info /\ NoInfo.state = "none" /\ NoInfo.tunnid = 0
  BY <1>1 DEF NoInfo, Info
<1>3. ASSUME NEW t \in 0 .. MaxTunnid
      PROVE  LET j == [NoInfo EXCEPT !.state = "WaitTarget", !.tunnid = t]
             IN j \in Info /\ j.state \in Early /\ j.tunnid = t
  BY <1>1, <1>2 DEF Info
<1> QED BY <1>2, <1>3

\* The outcome of a browser's input keeps the invariant.
LEMMA OutcomeKeeps ==
  ASSUME NEW inf, NEW A, NEW F, NEW sk, NEW on \in BOOLEAN,
         Ok(inf, tunnidAssigner, A, F, sk, on),
         NEW b \in Browsers, inf[b].state # "none", NEW r, OneOf(r, inf[b]),
         NEW inf2, Put(inf2, inf, b, r.info),
         NEW A2, A2 = Sending(A, r.send, on)
  PROVE  /\ Ok(inf2, r.assigner, A2, F, sk, on)
         /\ UpOk(inf, A, sk, on) => UpOk(inf2, A2, sk, on)
<1> DEFINE i == inf[b]
           j == r.info
           asg == tunnidAssigner
<1>1. Typed(inf, asg, A, F, sk) /\ IdsOk(inf, asg)
  BY Parts
<1>2. /\ inf \in [Browsers -> Info] /\ A \in Seq(AdmitMsg) /\ i \in Info
      /\ asg \in Nat /\ i.tunnid \in Tunnids /\ i.tunnid <= asg
      /\ \A c \in Browsers : c # b => inf[c].tunnid # i.tunnid
  BY <1>1, Types, HasTunnel DEF Typed
<1>3. /\ inf2 \in [Browsers -> Info] /\ inf2[b] = j /\ j \in Info
      /\ \A c \in Browsers : c # b => inf2[c] = inf[c]
  BY DEF Put, OneOf
<1>4. CASE KeepsIt(r, i)
  <2>1. r.send = <<>> /\ r.assigner = asg /\ Alike(j, i)
    BY <1>4 DEF KeepsIt
  <2>2. A2 = A
    BY <1>2, <2>1, ConcatEmptySeq DEF Sending
  <2>3. \A c \in Browsers : Alike(inf2[c], inf[c])
    BY <1>3, <2>1 DEF Alike, Same
  <2>4. on => on
    OBVIOUS
  <2>5. /\ Ok(inf2, asg, A, F, sk, on)
        /\ UpOk(inf, A, sk, on) => UpOk(inf2, A, sk, on)
    BY <1>3, <2>3, <2>4, Kept
  <2> QED BY <2>1, <2>2, <2>5
<1>5. CASE AsksForIt(r, i)
  <2>1. /\ i.state \in Early /\ j.tunnid = i.tunnid /\ r.assigner = asg
        /\ j.state \in Waiting /\ j.target \in Targets /\ j.cached = 0 /\ j.heard = 0
        /\ r.send = <<OpenTo(i.tunnid, j.target, j.said)>>
    BY <1>5 DEF AsksForIt, Requests
  <2>2. A2 = Queued(A, OpenTo(inf[b].tunnid, inf2[b].target, inf2[b].said), on)
    BY <1>3, <2>1 DEF Queued
  <2>3. /\ Ok(inf2, asg, A2, F, sk, on)
        /\ UpOk(inf, A, sk, on) => UpOk(inf2, A2, sk, on)
    BY <1>3, <2>1, <2>2, Asks
  <2> QED BY <2>1, <2>3
<1>6. CASE SendsIt(r, i)
  <2>1. /\ i.state \in Waiting \cup Proxying /\ Same(j, i) /\ j.said - j.cached = i.said
        /\ r.assigner = asg /\ r.send = <<Data(i.tunnid, i.said - i.cached + 1, i.said)>>
    BY <1>6 DEF SendsIt
  <2>2. A2 = Queued(A, Data(inf[b].tunnid, inf[b].said - inf[b].cached + 1, inf[b].said), on)
    BY <2>1 DEF Queued
  <2>3. /\ Ok(inf2, asg, A2, F, sk, on)
        /\ UpOk(inf, A, sk, on) => UpOk(inf2, A2, sk, on)
    BY <1>3, <2>1, <2>2, Sends
  <2> QED BY <2>1, <2>3
<1>7. CASE ChangesIt(r, i)
  <2> DEFINE t == asg + 1
             x == CloseTunnel(i.tunnid)
             y == OpenTo(t, j.target, j.said)
             w == [NoInfo EXCEPT !.state = "WaitTarget", !.tunnid = t]
             inf3 == [inf EXCEPT ![b] = NoInfo]
             inf4 == [inf3 EXCEPT ![b] = w]
             A3 == Queued(A, x, on)
  <2>1. /\ i.state \in Proxying /\ asg < MaxTunnid /\ j.tunnid = t /\ r.assigner = t
        /\ j.state \in Waiting /\ j.target \in Targets /\ j.cached = 0 /\ j.heard = 0
        /\ r.send = <<x, y>>
    BY <1>7 DEF ChangesIt, Requests
  <2>2. t \in Tunnids /\ t \in 0 .. MaxTunnid
    BY <1>2, <2>1, TunnelAssumption DEF Tunnids
  <2>3. /\ w \in Info /\ w.state \in Early /\ w.tunnid = t
        /\ NoInfo \in Info /\ NoInfo.state = "none" /\ NoInfo.tunnid = 0
    BY <2>2, NoInfoIs
  <2>4. j.said \in Nat
    BY <1>3 DEF Info
  <2>5. x \in AdmitMsg /\ y \in AdmitMsg
    BY <1>2, <2>1, <2>2, <2>4 DEF CloseTunnel, OpenTo, AdmitMsg
  <2>6. A2 = Queued(A3, y, on)
    <3>1. A \o <<x, y>> = (A \o <<x>>) \o <<y>>
      BY <1>2, <2>5, TwoAtOnce
    <3> QED BY <2>1, <3>1 DEF Sending, Queued
  <2>7. Put(inf3, inf, b, NoInfo)
    BY <1>2, <2>3, Putting
  <2>8. Put(inf4, inf3, b, w)
    <3>1. inf3 \in [Browsers -> Info]
      BY <2>7 DEF Put
    <3> HIDE DEF inf3, w
    <3> QED BY <2>3, <3>1, Putting
  <2> HIDE DEF inf3, inf4, A3, w, x, y
  <2>9. /\ Ok(inf3, asg, A, F, sk, on)
        /\ UpOk(inf, A, sk, on) => UpOk(inf3, A, sk, on)
    BY <2>3, <2>7, Leaves DEF Put
  <2>10. /\ Ok(inf3, asg, A3, F, sk, on)
         /\ UpOk(inf3, A, sk, on) => UpOk(inf3, A3, sk, on)
    <3>1. \A c \in Browsers : inf3[c].tunnid # i.tunnid
      BY <1>2, <2>3, <2>7 DEF Put, Tunnids
    <3>2. A3 = Queued(A, CloseTunnel(i.tunnid), on)
      BY DEF A3, x
    <3> HIDE DEF i
    <3> QED BY <1>2, <2>9, <3>1, <3>2, Closes
  <2>11. /\ Ok(inf4, t, A3, F, sk, on)
         /\ UpOk(inf3, A3, sk, on) => UpOk(inf4, A3, sk, on)
    BY <2>1, <2>3, <2>7, <2>8, <2>10, Comes DEF Put
  <2>12. /\ Ok(inf2, t, A2, F, sk, on)
         /\ UpOk(inf4, A3, sk, on) => UpOk(inf2, A2, sk, on)
    <3>1. /\ inf4[b].state \in Early /\ inf4[b].tunnid = t
          /\ \A c \in Browsers : c # b => inf2[c] = inf4[c]
          /\ inf2[b].tunnid = inf4[b].tunnid
      BY <1>3, <2>1, <2>3, <2>7, <2>8 DEF Put
    <3>2. A2 = Queued(A3, OpenTo(inf4[b].tunnid, inf2[b].target, inf2[b].said), on)
      BY <1>3, <2>6, <3>1 DEF y
    <3> HIDE DEF t
    <3> QED BY <1>3, <2>1, <2>11, <3>1, <3>2, Asks
  <2> QED BY <2>1, <2>9, <2>10, <2>11, <2>12
<1> QED BY <1>4, <1>5, <1>6, <1>7 DEF OneOf

-----------------------------------------------------------------------------
(* The steps of the program.                                               *)

IInv == Ok(info, tunnidAssigner, toAdmit, toFinder, tunnSock, On)
UInv == UpOk(info, toAdmit, tunnSock, On)

\* What a step keeps.  (A SOCK reply takes the place of what is cached.)
Keeps == IInv' /\ ("SOCK" \notin Kinds /\ UInv => UInv')

LEMMA Facts ==
  ASSUME IInv
  PROVE  /\ Ok(info, tunnidAssigner, toAdmit, toFinder, tunnSock, On) /\ On \in BOOLEAN
         /\ info \in [Browsers -> Info] /\ tunnidAssigner \in Nat
         /\ toAdmit \in Seq(AdmitMsg) /\ toFinder \in Seq(FinderMsg)
         /\ tunnSock \in [Tunnids -> Sock]
         /\ UInv = UpOk(info, toAdmit, tunnSock, On)
<1>1. Typed(info, tunnidAssigner, toAdmit, toFinder, tunnSock)
  BY Parts DEF IInv
<1>2. tunnidAssigner \in Nat
  BY <1>1, Types
<1> QED BY <1>1, <1>2 DEF IInv, UInv, Typed, On

LEMMA SendIs ==
  ASSUME NEW ms
  PROVE  /\ SendToAdmit(ms) => toAdmit' = Sending(toAdmit, ms, On)
         /\ SendToFinder(ms) => toFinder' = Sending(toFinder, ms, On)
BY DEF SendToAdmit, SendToFinder, Sending, On

LEMMA ClosedIs ==
  ASSUME NEW i \in Info
  PROVE  Closed(i) \in Info /\ Closed(i).closing /\ Alike(Closed(i), i)
<1>1. /\ Closed(i) \in Info /\ Closed(i).tunnid = i.tunnid /\ Closed(i).target = i.target
      /\ Closed(i).heard = i.heard /\ Closed(i).state = i.state /\ Closed(i).closing
      /\ Closed(i).said = i.said /\ Closed(i).cached = i.cached
  BY DEF Closed, Info
<1> QED BY <1>1 DEF Alike, Same

LEMMA InitOk == Init => IInv /\ UInv
<1> SUFFICES ASSUME Init PROVE IInv /\ UInv
  OBVIOUS
<1>1. /\ info = [b \in Browsers |-> NoInfo] /\ tunnidAssigner = 0
      /\ toAdmit = <<>> /\ toFinder = <<>> /\ tunnSock = [t \in Tunnids |-> NoSock]
  BY DEF Init
<1>2. NoInfo \in Info /\ NoInfo.state = "none" /\ NoInfo.tunnid = 0
  BY NoInfoIs
<1>3. NoSock \in Sock /\ NoSock.st = "none"
  BY DEF NoSock, Sock
<1>4. /\ info \in [Browsers -> Info] /\ tunnSock \in [Tunnids -> Sock]
      /\ \A b \in Browsers : info[b].state = "none" /\ info[b].tunnid = 0
      /\ \A t \in Tunnids : tunnSock[t].st = "none"
  BY <1>1, <1>2, <1>3
<1>5. MsgsIn(toAdmit) = {} /\ MsgsIn(toFinder) = {} /\ DOMAIN toAdmit = {}
  BY <1>1 DEF MsgsIn
<1>6. Typed(info, tunnidAssigner, toAdmit, toFinder, tunnSock)
  BY <1>1, <1>4, TunnelAssumption DEF Typed
<1>7. IdsOk(info, tunnidAssigner)
  BY <1>1, <1>4 DEF IdsOk
<1>8. \A s \in Early \cup Waiting \cup Proxying : s # "none"
  BY Classes
<1>9. Core(info, tunnidAssigner, {}, {}, tunnSock, On)
  BY <1>4, <1>7, <1>8
     DEF Core, FreshOk, Silent, OpenOk, CloseOk, TargetOk, DoneOk, LostOk, Tunnids
<1>10. OnceOk(toAdmit) /\ DownOk(info, toFinder, tunnSock, On)
  BY <1>4, <1>5 DEF OnceOk, DownOk
<1>11. UInv
  BY <1>4, <1>5, <1>8 DEF UInv, UpOk, Chain
<1> QED BY <1>5, <1>6, <1>9, <1>10, <1>11 DEF IInv, Ok

\* The program does nothing, or only what does not matter here.
LEMMA StutterKeeps ==
  ASSUME IInv, UNCHANGED vars
  PROVE  Keeps
BY DEF vars, Keeps, IInv, UInv, On

LEMMA AcceptedIs ==
  ASSUME NEW t \in 0 .. MaxTunnid
  PROVE  Accepted(t) \in Info /\ Accepted(t).state \in Early /\ Accepted(t).tunnid = t
<1>1. "WaitTarget" \in Early /\ NoInfo \in Info
  BY NoInfoIs DEF Early
<1> QED BY <1>1 DEF Accepted, Info

LEMMA AcceptKeeps ==
  ASSUME IInv, NEW b \in Browsers, OnAccept(b)
  PROVE  Keeps
<1> DEFINE t == tunnidAssigner + 1
           w == Accepted(t)
           inf3 == [info EXCEPT ![b] = w]
<1>1. /\ Ok(info, tunnidAssigner, toAdmit, toFinder, tunnSock, On) /\ On \in BOOLEAN
      /\ info \in [Browsers -> Info] /\ tunnidAssigner \in Nat
      /\ UInv = UpOk(info, toAdmit, tunnSock, On)
  BY Facts
<1>2. /\ info[b].state = "none" /\ tunnidAssigner < MaxTunnid
      /\ tunnidAssigner' = t /\ UNCHANGED <<toFinder, tunnSock, finder, admit>>
      /\ \/ info' = inf3 /\ UNCHANGED toAdmit
         \/ \E tar \in Forwards :
              LET r == Opened(w, "FORWARD", tar, FALSE)
              IN info' = [info EXCEPT ![b] = r.info] /\ SendToAdmit(r.send)
  BY DEF OnAccept, Present, NextTunnid
<1>3. On' = On
  BY <1>2 DEF On
<1>4. w \in Info /\ w.state \in Early /\ w.tunnid = t
  <2>1. t \in 0 .. MaxTunnid
    BY <1>1, <1>2, TunnelAssumption
  <2> QED BY <2>1, AcceptedIs
<1> HIDE DEF w
<1>5. Put(inf3, info, b, w)
  BY <1>1, <1>4, Putting
<1> HIDE DEF inf3
<1>6. /\ Ok(inf3, t, toAdmit, toFinder, tunnSock, On)
      /\ UpOk(info, toAdmit, tunnSock, On) => UpOk(inf3, toAdmit, tunnSock, On)
  BY <1>1, <1>2, <1>4, <1>5, Comes DEF Put
<1>7. CASE info' = inf3 /\ UNCHANGED toAdmit
  BY <1>1, <1>2, <1>3, <1>6, <1>7 DEF Keeps, IInv, UInv
<1>8. ASSUME NEW tar \in Forwards,
             info' = [info EXCEPT ![b] = Opened(w, "FORWARD", tar, FALSE).info],
             SendToAdmit(Opened(w, "FORWARD", tar, FALSE).send)
      PROVE  Keeps
  <2> DEFINE r == Opened(w, "FORWARD", tar, FALSE)
             j == r.info
  <2>1. /\ j \in Info /\ j.tunnid = t /\ j.state \in Waiting /\ j.target \in Targets
        /\ j.cached = 0 /\ j.heard = 0 /\ r.send = <<OpenTo(t, j.target, j.said)>>
    <3>1. tar \in Targets
      BY TunnelAssumption
    <3>2. j \in Info /\ AsksForIt(r, w)
      BY <1>4, <3>1, OpenedAsks
    <3> HIDE DEF r
    <3> QED BY <1>4, <3>2 DEF AsksForIt, Requests
  <2>2. toAdmit' = Queued(toAdmit, OpenTo(t, j.target, j.said), On)
    BY <1>8, <2>1, SendIs DEF Queued
  <2> HIDE DEF r
  <2>3. Put(info', info, b, j)
    <3>1. info' = [info EXCEPT ![b] = j]
      BY <1>8 DEF r
    <3> HIDE DEF j
    <3> QED BY <1>1, <2>1, <3>1, Putting
  <2> HIDE DEF j, t
  <2>4. /\ info' \in [Browsers -> Info] /\ info'[b] = j
        /\ \A c \in Browsers : c # b => info'[c] = inf3[c]
        /\ inf3[b] = w
    BY <1>5, <2>3 DEF Put
  <2>5. /\ Ok(info', t, toAdmit', toFinder, tunnSock, On)
        /\ UpOk(inf3, toAdmit, tunnSock, On) => UpOk(info', toAdmit', tunnSock, On)
    <3>1. toAdmit' = Queued(toAdmit, OpenTo(inf3[b].tunnid, info'[b].target, info'[b].said), On)
      BY <1>4, <2>2, <2>4
    <3> QED BY <1>1, <1>4, <1>6, <2>1, <2>4, <3>1, Asks
  <2> QED BY <1>1, <1>2, <1>3, <1>6, <2>5 DEF Keeps, IInv, UInv
<1> HIDE DEF t
<1> QED BY <1>2, <1>7, <1>8

\* A fragment is counted.
LEMMA GivenIs ==
  ASSUME NEW i \in Info
  PROVE  Given(i) \in Info /\ Alike(Given(i), i) /\ (Given(i).state = "none" => i.state = "none")
<1>1. CASE i.state \in Waiting \cup Proxying
  <2> DEFINE n == i.said + 1
             c == i.cached + 1
             j == Resaid(i, n, c)
  <2>1. n \in Nat /\ c \in Nat /\ i.said \in Nat /\ i.cached \in Nat
    BY DEF Info
  <2>2. Given(i) = j
    BY <1>1 DEF Given, Resaid
  <2>3. n - c = i.said - i.cached
    BY <2>1
  <2> HIDE DEF n, c
  <2>4. j \in Info /\ Same(j, i) /\ j.said = n /\ j.cached = c
    <3>1. i \in Info
      OBVIOUS
    <3>2. Resaid(i, n, c) \in Info /\ Same(Resaid(i, n, c), i)
      BY ONLY <2>1, <3>1, ResaidIs
    <3>3. Resaid(i, n, c).said = n /\ Resaid(i, n, c).cached = c
      BY <2>1, <3>1 DEF Resaid, Info
    <3> QED BY <3>2, <3>3
  <2> HIDE DEF j
  <2> QED BY <2>2, <2>3, <2>4 DEF Alike, Same
<1>2. CASE i.state \notin Waiting \cup Proxying
  BY <1>2 DEF Given, Alike, Same
<1> QED BY <1>1, <1>2

LEMMA RecvKeeps ==
  ASSUME IInv, NEW b \in Browsers, OnRecv(b)
  PROVE  Keeps
<1> DEFINE g == Given(info[b])
           inf3 == [info EXCEPT ![b] = g]
<1>1. /\ Ok(info, tunnidAssigner, toAdmit, toFinder, tunnSock, On) /\ On \in BOOLEAN
      /\ info \in [Browsers -> Info] /\ tunnidAssigner \in Nat
      /\ UInv = UpOk(info, toAdmit, tunnSock, On)
  BY Facts
<1>2. info[b].state # "none" /\ UNCHANGED <<toFinder, tunnSock, finder, admit>>
  BY DEF OnRecv, Present
<1>3. On' = On
  BY <1>2 DEF On
<1>4. PICK r \in OnProxyRecv(g) :
        /\ info' = [info EXCEPT ![b] = [r.info EXCEPT !.reading = r.ok]]
        /\ tunnidAssigner' = r.assigner /\ SendToAdmit(r.send)
  BY DEF OnRecv
<1>5. g \in Info /\ Alike(g, info[b]) /\ g.state # "none"
  BY <1>1, <1>2, GivenIs
<1> HIDE DEF g
<1>6. Put(inf3, info, b, g)
  BY <1>1, <1>5, Putting
<1> HIDE DEF inf3
<1>7. inf3 \in [Browsers -> Info] /\ inf3[b] = g /\ \A c \in Browsers : c # b => inf3[c] = info[c]
  BY <1>6 DEF Put
<1>8. /\ Ok(inf3, tunnidAssigner, toAdmit, toFinder, tunnSock, On)
      /\ UpOk(info, toAdmit, tunnSock, On) => UpOk(inf3, toAdmit, tunnSock, On)
  <2>1. \A c \in Browsers : Alike(inf3[c], info[c])
    BY <1>5, <1>7 DEF Alike, Same
  <2>2. On => On
    OBVIOUS
  <2> QED BY ONLY <1>1, <1>7, <2>1, <2>2, Kept
<1>9. OneOf(r, g)
  BY <1>1, <1>5, ProxyRecvIs
<1>10. r.info \in Info /\ r.ok \in BOOLEAN
  BY <1>9 DEF OneOf, KeepsIt, AsksForIt, SendsIt, ChangesIt
<1> DEFINE j == r.info
           k == [j EXCEPT !.reading = r.ok]
           inf4 == [inf3 EXCEPT ![b] = j]
<1>11. Put(inf4, inf3, b, j)
  BY <1>7, <1>10, Putting
<1>12. k \in Info /\ Alike(k, j)
  <2>1. /\ k \in Info /\ k.tunnid = j.tunnid /\ k.target = j.target /\ k.heard = j.heard
        /\ k.state = j.state /\ k.closing = j.closing /\ k.said = j.said /\ k.cached = j.cached
    BY <1>10 DEF Info
  <2> QED BY <2>1 DEF Alike, Same
<1> HIDE DEF inf4, k
<1>13. Put(info', info, b, k)
  <2>1. info' = [info EXCEPT ![b] = k]
    BY <1>4 DEF k
  <2> QED BY <1>1, <1>12, <2>1, Putting
<1>14. toAdmit' = Sending(toAdmit, r.send, On)
  BY <1>4, SendIs
<1>15. /\ Ok(inf4, r.assigner, toAdmit', toFinder, tunnSock, On)
       /\ UpOk(inf3, toAdmit, tunnSock, On) => UpOk(inf4, toAdmit', tunnSock, On)
  <2>1. b \in Browsers /\ OneOf(r, inf3[b]) /\ inf3[b].state # "none" /\ Put(inf4, inf3, b, r.info)
    BY <1>5, <1>7, <1>9, <1>11
  <2>2. On \in BOOLEAN /\ Ok(inf3, tunnidAssigner, toAdmit, toFinder, tunnSock, On)
    BY <1>1, <1>8
  <2> QED BY ONLY <1>14, <2>1, <2>2, OutcomeKeeps
<1>16. /\ Ok(info', r.assigner, toAdmit', toFinder, tunnSock, On)
       /\ UpOk(inf4, toAdmit', tunnSock, On) => UpOk(info', toAdmit', tunnSock, On)
  <2>1. info' \in [Browsers -> Info] /\ \A c \in Browsers : Alike(info'[c], inf4[c])
    BY <1>7, <1>11, <1>12, <1>13 DEF Put, Alike, Same
  <2>2. On => On
    OBVIOUS
  <2> QED BY ONLY <1>15, <2>1, <2>2, Kept
<1> QED BY <1>1, <1>2, <1>3, <1>4, <1>8, <1>15, <1>16 DEF Keeps, IInv, UInv

\* A browser disconnects, and the other end is told if it was asked for the tunnel.
LEMMA DisconnectKeeps ==
  ASSUME IInv, NEW b \in Browsers, NEW byRemote \in BOOLEAN, OnDisconnect(b, byRemote)
  PROVE  Keeps
<1> DEFINE t == info[b].tunnid
           says == byRemote /\ info[b].state \in Waiting \cup Proxying
<1>1. /\ Ok(info, tunnidAssigner, toAdmit, toFinder, tunnSock, On) /\ On \in BOOLEAN
      /\ info \in [Browsers -> Info] /\ tunnidAssigner \in Nat /\ toAdmit \in Seq(AdmitMsg)
      /\ UInv = UpOk(info, toAdmit, tunnSock, On)
  BY Facts
<1>2. /\ info[b].state # "none" /\ info' = [info EXCEPT ![b] = NoInfo]
      /\ SendToAdmit(IF says THEN <<CloseTunnel(t)>> ELSE <<>>)
      /\ UNCHANGED <<tunnidAssigner, toFinder, tunnSock, finder, admit>>
  BY DEF OnDisconnect, Present
<1>3. On' = On
  BY <1>2 DEF On
<1>4. NoInfo \in Info /\ NoInfo.state = "none" /\ NoInfo.tunnid = 0
  BY NoInfoIs
<1>5. Put(info', info, b, NoInfo)
  BY <1>1, <1>2, <1>4, Putting
<1>6. /\ t \in Tunnids /\ t <= tunnidAssigner /\ \A c \in Browsers : c # b => info[c].tunnid # t
  BY <1>1, <1>2, Parts, HasTunnel
<1>7. \A c \in Browsers : info'[c].tunnid # t
  BY <1>4, <1>5, <1>6 DEF Put, Tunnids
<1> HIDE DEF t, says
<1>8. /\ Ok(info', tunnidAssigner, toAdmit, toFinder, tunnSock, On)
      /\ UpOk(info, toAdmit, tunnSock, On) => UpOk(info', toAdmit, tunnSock, On)
  BY <1>1, <1>4, <1>5, Leaves DEF Put
<1>9. CASE says
  <2>1. toAdmit' = Queued(toAdmit, CloseTunnel(t), On)
    BY <1>2, <1>9, SendIs DEF Queued
  <2>2. /\ Ok(info', tunnidAssigner, toAdmit', toFinder, tunnSock, On)
        /\ UpOk(info', toAdmit, tunnSock, On) => UpOk(info', toAdmit', tunnSock, On)
    BY <1>1, <1>6, <1>7, <1>8, <2>1, Closes
  <2> QED BY <1>1, <1>2, <1>3, <1>8, <2>2 DEF Keeps, IInv, UInv
<1>10. CASE ~says
  <2>1. toAdmit' = Sending(toAdmit, <<>>, On)
    BY <1>2, <1>10, SendIs
  <2>2. toAdmit' = toAdmit
    BY <1>1, <2>1, ConcatEmptySeq DEF Sending
  <2> QED BY <1>1, <1>2, <1>3, <1>8, <2>2 DEF Keeps, IInv, UInv
<1> QED BY <1>9, <1>10

\* The browser of a message that ends its tunnel is disconnected.
LEMMA EndKeeps ==
  ASSUME IInv, toFinder # <<>>, NEW m, m = Head(toFinder), m.op # "DataTransfer",
         NEW b \in Browsers, info[b].state # "none", info[b].tunnid = m.tid,
         ~(m.op = "ConnDone" /\ m.ok /\ info[b].state \in Waiting),
         info' = [info EXCEPT ![b] = Closed(info[b])], toFinder' = Tail(toFinder),
         UNCHANGED <<tunnidAssigner, toAdmit, tunnSock, finder, admit>>
  PROVE  Keeps
<1> DEFINE j == Closed(info[b])
<1>1. /\ Ok(info, tunnidAssigner, toAdmit, toFinder, tunnSock, On) /\ On \in BOOLEAN
      /\ info \in [Browsers -> Info] /\ tunnidAssigner \in Nat
      /\ UInv = UpOk(info, toAdmit, tunnSock, On)
  BY Facts
<1>2. On' = On
  BY DEF On
<1>3. \A c \in Browsers : c # b => info[c].tunnid # m.tid
  BY <1>1, Parts, HasTunnel
<1>4. j \in Info /\ j.closing /\ Alike(j, info[b])
  BY <1>1, ClosedIs
<1> HIDE DEF j
<1>5. Put(info', info, b, j)
  <2>1. info' = [info EXCEPT ![b] = j]
    BY DEF j
  <2> QED BY <1>1, <1>4, <2>1, Putting
<1>6. /\ info' \in [Browsers -> Info] /\ \A c \in Browsers : Alike(info'[c], info[c])
      /\ info'[b].closing /\ \A c \in Browsers : c # b => info'[c].tunnid # m.tid
  BY <1>3, <1>4, <1>5 DEF Put, Alike, Same
<1>7. /\ Ok(info', tunnidAssigner, toAdmit, toFinder, tunnSock, On)
      /\ UpOk(info, toAdmit, tunnSock, On) => UpOk(info', toAdmit, tunnSock, On)
  <2>1. On => On
    OBVIOUS
  <2> QED BY ONLY <1>1, <1>6, <2>1, Kept
<1>8. \A c \in Browsers : info'[c].tunnid = m.tid =>
        /\ m.op # "DataTransfer"
        /\ info'[c].closing \/ ~(m.op = "ConnAbort" \/ (m.op \in {"RtnOpenTo", "ConnDone"} /\ ~m.ok))
        /\ ~(m.op = "ConnDone" /\ m.ok /\ info'[c].state \in Waiting)
  <2>1. info'[b].state \in Waiting <=> info[b].state \in Waiting
    BY <1>6 DEF Alike, Same
  <2> QED BY <1>6, <2>1
<1>9. Ok(info', tunnidAssigner, toAdmit, Tail(toFinder), tunnSock, On)
  BY <1>7, <1>8, Handles
<1> QED BY <1>1, <1>2, <1>7, <1>9 DEF Keeps, IInv, UInv

LEMMA DoneIs ==
  ASSUME NEW i \in Info, i.state \in Waiting
  PROVE  /\ Done(i) \in Info /\ Done(i).state \in Proxying /\ Done(i).tunnid = i.tunnid
         /\ Done(i).target = i.target /\ Done(i).heard = i.heard /\ Done(i).closing = i.closing
         /\ Done(i).said = i.said
         /\ "SOCK" \notin Kinds => Done(i).cached = i.cached
<1> DEFINE s == ProxyState(i.state = "WaitOpenToLargePost")
           n == IF i.proxyType = "SOCK" THEN 0 ELSE i.cached
<1>1. s \in Proxying /\ n \in Nat
  BY DEF Info, ProxyState, Proxying
<1>2. "SOCK" \notin Kinds => n = i.cached
  BY DEF Info
<1>3. Done(i) = [i EXCEPT !.state = s, !.cached = n]
  BY DEF Done
<1> HIDE DEF s, n
<1> QED BY <1>1, <1>2, <1>3 DEF Info

\* A connection that is reported makes its browser's socket a proxy; what it has
\* sent meanwhile is handled.
LEMMA DoneKeeps ==
  ASSUME IInv, toFinder # <<>>, NEW m, m = Head(toFinder), m.op = "ConnDone", m.ok,
         NEW b \in Browsers, info[b].state \in Waiting, info[b].tunnid = m.tid,
         NEW r \in Flushed(Done(info[b])),
         info' = [info EXCEPT ![b] = r.info], tunnidAssigner' = r.assigner, SendToAdmit(r.send),
         toFinder' = Tail(toFinder), UNCHANGED <<tunnSock, finder, admit>>
  PROVE  Keeps
<1> DEFINE d == Done(info[b])
           inf3 == [info EXCEPT ![b] = d]
           F2 == Tail(toFinder)
<1>1. /\ Ok(info, tunnidAssigner, toAdmit, toFinder, tunnSock, On) /\ On \in BOOLEAN
      /\ info \in [Browsers -> Info] /\ tunnidAssigner \in Nat
      /\ toFinder \in Seq(FinderMsg)
      /\ UInv = UpOk(info, toAdmit, tunnSock, On)
  BY Facts
<1>2. On' = On
  BY DEF On
<1>3. /\ info[b].state # "none"
      /\ \A c \in Browsers : c # b => info[c].tunnid # m.tid
  <2>1. info[b].state # "none"
    BY Classes
  <2> QED BY <1>1, <2>1, Parts, HasTunnel
<1>4. /\ d \in Info /\ d.state \in Proxying /\ d.tunnid = info[b].tunnid
      /\ d.target = info[b].target /\ d.heard = info[b].heard /\ d.closing = info[b].closing
      /\ "SOCK" \notin Kinds => d.said - d.cached = info[b].said - info[b].cached
  BY <1>1, DoneIs
<1>5. OneOf(r, d)
  <2>1. d.state # "none"
    BY <1>4, Classes
  <2>2. r \in OnProxyRecv(d) \/ r = Outcome(d, <<>>, TRUE)
    BY DEF Flushed
  <2> HIDE DEF d
  <2>3. CASE r \in OnProxyRecv(d)
    BY <1>1, <1>4, <2>1, <2>3, ProxyRecvIs
  <2>4. CASE r = Outcome(d, <<>>, TRUE)
    BY <1>4, <2>4, KeepingKeeps DEF OneOf
  <2> QED BY <2>2, <2>3, <2>4
<1> HIDE DEF d
<1>6. Put(inf3, info, b, d)
  BY <1>1, <1>4, Putting
<1> HIDE DEF inf3
<1>7. inf3 \in [Browsers -> Info] /\ inf3[b] = d /\ \A c \in Browsers : c # b => inf3[c] = info[c]
  BY <1>6 DEF Put
<1>8. /\ Ok(inf3, tunnidAssigner, toAdmit, toFinder, tunnSock, On)
      /\ "SOCK" \notin Kinds /\ UpOk(info, toAdmit, tunnSock, On)
           => UpOk(inf3, toAdmit, tunnSock, On)
  <2>1. m \in MsgsIn(toFinder)
    BY <1>1, Shifting
  <2> QED BY <1>1, <1>4, <1>7, <2>1, IsDone
<1>9. Ok(inf3, tunnidAssigner, toAdmit, F2, tunnSock, On)
  <2>1. \A c \in Browsers : inf3[c].tunnid = m.tid =>
          /\ m.op # "DataTransfer"
          /\ inf3[c].closing \/ ~(m.op = "ConnAbort" \/ (m.op \in {"RtnOpenTo", "ConnDone"} /\ ~m.ok))
          /\ ~(m.op = "ConnDone" /\ m.ok /\ inf3[c].state \in Waiting)
    BY <1>3, <1>4, <1>7, Classes
  <2> QED BY <1>8, <2>1, Handles
<1>10. /\ Ok(info', r.assigner, toAdmit', F2, tunnSock, On)
       /\ UpOk(inf3, toAdmit, tunnSock, On) => UpOk(info', toAdmit', tunnSock, On)
  <2>1. toAdmit' = Sending(toAdmit, r.send, On)
    BY SendIs
  <2>2. r.info \in Info
    BY <1>5 DEF OneOf
  <2>3. Put(info', info, b, r.info)
    <3> DEFINE j == r.info
    <3>1. info' = [info EXCEPT ![b] = j] /\ j \in Info
      BY <2>2
    <3> HIDE DEF j
    <3>2. Put(info', info, b, j)
      BY <1>1, <3>1, Putting
    <3> QED BY <3>2 DEF j
  <2>4. Put(info', inf3, b, r.info)
    BY <1>7, <2>3 DEF Put
  <2>5. b \in Browsers /\ inf3[b].state # "none" /\ OneOf(r, inf3[b])
    BY <1>4, <1>5, <1>7, Classes
  <2>6. On \in BOOLEAN
    BY <1>1
  <2> QED BY ONLY <1>9, <2>1, <2>4, <2>5, <2>6, OutcomeKeeps
<1> QED BY <1>1, <1>2, <1>8, <1>10 DEF Keeps, IInv, UInv

LEMMA FinderMessageKeeps ==
  ASSUME IInv, OnFinderMessage
  PROVE  Keeps
<1> DEFINE m == Head(toFinder)
           F2 == Tail(toFinder)
<1>1. /\ Ok(info, tunnidAssigner, toAdmit, toFinder, tunnSock, On) /\ On \in BOOLEAN
      /\ info \in [Browsers -> Info] /\ tunnidAssigner \in Nat
      /\ toFinder \in Seq(FinderMsg)
      /\ UInv = UpOk(info, toAdmit, tunnSock, On)
  BY Facts
<1>2. toFinder # <<>> /\ toFinder' = F2 /\ UNCHANGED <<tunnSock, finder, admit>>
  BY DEF OnFinderMessage
<1>3. On' = On
  BY <1>2 DEF On
<1>4. m \in FinderMsg /\ m.tid \in Tunnids
  BY <1>1, <1>2, Shifting DEF FinderMsg
<1>5. \/ /\ \A b \in Browsers : ~ToBrowser(m, b)
         /\ UNCHANGED <<info, tunnidAssigner, toAdmit>>
      \/ \E b \in Browsers :
           /\ ToBrowser(m, b)
           /\ \/ m.op = "RtnOpenTo" /\ OnFinderRtnOpenTo(m, b)
              \/ m.op = "ConnDone" /\ OnFinderConnDone(m, b)
              \/ m.op = "ConnAbort" /\ OnFinderConnAbort(m, b)
              \/ m.op = "DataTransfer" /\ OnFinderDataTransfer(m, b)
  BY DEF OnFinderMessage
<1> HIDE DEF F2
<1>6. CASE (\A b \in Browsers : ~ToBrowser(m, b)) /\ UNCHANGED <<info, tunnidAssigner, toAdmit>>
  <2>1. \A b \in Browsers : info[b].tunnid # m.tid
    BY <1>1, <1>4, <1>6, Parts DEF ToBrowser, Present, IdsOk, Tunnids
  <2>2. Ok(info, tunnidAssigner, toAdmit, F2, tunnSock, On)
    BY <1>1, <1>2, <2>1, Handles DEF F2
  <2> QED BY <1>1, <1>2, <1>3, <1>6, <2>2 DEF Keeps, IInv, UInv
<1>7. ASSUME NEW b \in Browsers, ToBrowser(m, b),
             \/ m.op = "RtnOpenTo" /\ OnFinderRtnOpenTo(m, b)
             \/ m.op = "ConnDone" /\ OnFinderConnDone(m, b)
             \/ m.op = "ConnAbort" /\ OnFinderConnAbort(m, b)
             \/ m.op = "DataTransfer" /\ OnFinderDataTransfer(m, b)
      PROVE  Keeps
  <2>1. info[b].state # "none" /\ info[b].tunnid = m.tid
    BY <1>7 DEF ToBrowser, Present
  <2>2. \A c \in Browsers : c # b => info[c].tunnid # m.tid
    BY <1>1, <2>1, Parts, HasTunnel
  <2>3. ASSUME m.op # "DataTransfer", ~(m.op = "ConnDone" /\ m.ok /\ info[b].state \in Waiting),
               info' = [info EXCEPT ![b] = Closed(info[b])], UNCHANGED <<tunnidAssigner, toAdmit>>
        PROVE  Keeps
    BY <1>2, <2>1, <2>3, EndKeeps DEF F2
  <2>4. CASE m.op = "RtnOpenTo" /\ OnFinderRtnOpenTo(m, b)
    <3>1. UNCHANGED <<tunnidAssigner, toAdmit>>
      BY <2>4 DEF OnFinderRtnOpenTo
    <3>2. CASE m.ok /\ info[b].state \in Waiting
      <4>1. info' = info
        BY <2>4, <3>2 DEF OnFinderRtnOpenTo
      <4>2. Ok(info, tunnidAssigner, toAdmit, F2, tunnSock, On)
        BY <1>1, <1>2, <2>2, <2>4, <3>2, Handles DEF F2
      <4> QED BY <1>1, <1>2, <1>3, <3>1, <4>1, <4>2 DEF Keeps, IInv, UInv
    <3>3. CASE ~(m.ok /\ info[b].state \in Waiting)
      <4>1. info' = [info EXCEPT ![b] = Closed(info[b])]
        BY <2>4, <3>3 DEF OnFinderRtnOpenTo
      <4> QED BY <2>3, <2>4, <3>1, <4>1
    <3> QED BY <3>2, <3>3
  <2>5. CASE m.op = "ConnDone" /\ OnFinderConnDone(m, b)
    <3>1. CASE info[b].state \in Waiting /\ m.ok
      <4>1. PICK r \in Flushed(Done(info[b])) :
              info' = [info EXCEPT ![b] = r.info] /\ tunnidAssigner' = r.assigner /\ SendToAdmit(r.send)
        BY <2>5, <3>1 DEF OnFinderConnDone
      <4> QED BY <1>2, <2>1, <2>5, <3>1, <4>1, DoneKeeps DEF F2
    <3>2. CASE ~(info[b].state \in Waiting /\ m.ok)
      <4>1. info' = [info EXCEPT ![b] = Closed(info[b])] /\ UNCHANGED <<tunnidAssigner, toAdmit>>
        BY <2>5, <3>2 DEF OnFinderConnDone
      <4> QED BY <2>3, <2>5, <3>2, <4>1
    <3> QED BY <3>1, <3>2
  <2>6. CASE m.op = "ConnAbort" /\ OnFinderConnAbort(m, b)
    BY <2>3, <2>6 DEF OnFinderConnAbort
  <2>7. CASE m.op = "DataTransfer" /\ OnFinderDataTransfer(m, b)
    <3> DEFINE i == info[b]
               n == m.last
               j == [i EXCEPT !.heard = n]
    <3>1. info' = [info EXCEPT ![b] = j] /\ UNCHANGED <<tunnidAssigner, toAdmit>>
      BY <2>7 DEF OnFinderDataTransfer
    <3>2. n \in Nat /\ i \in Info
      BY <1>1, <1>4, <2>7 DEF FinderMsg
    <3> HIDE DEF i, n
    <3>3. /\ j \in Info /\ j.tunnid = i.tunnid /\ j.target = i.target /\ j.state = i.state
          /\ j.closing = i.closing /\ j.said = i.said /\ j.cached = i.cached /\ j.heard = n
      BY <3>2 DEF Info
    <3> HIDE DEF j
    <3>4. Put(info', info, b, j)
      BY <1>1, <3>1, <3>3, Putting
    <3>5. /\ info' \in [Browsers -> Info] /\ \A c \in Browsers : c # b => info'[c] = info[c]
          /\ info'[b] = j
      BY <3>4 DEF Put
    <3>6. /\ Ok(info', tunnidAssigner, toAdmit, F2, tunnSock, On)
          /\ UpOk(info, toAdmit, tunnSock, On) => UpOk(info', toAdmit, tunnSock, On)
      BY <1>1, <1>2, <2>1, <2>7, <3>3, <3>5, Hears DEF F2, i, n
    <3> QED BY <1>1, <1>2, <1>3, <3>1, <3>6 DEF Keeps, IInv, UInv
  <2> QED BY <1>7, <2>4, <2>5, <2>6, <2>7
<1> QED BY <1>5, <1>6, <1>7

LEMMA FinderCloseKeeps ==
  ASSUME IInv, FinderClose
  PROVE  Keeps
<1>1. /\ Ok(info, tunnidAssigner, toAdmit, toFinder, tunnSock, On)
      /\ info \in [Browsers -> Info]
      /\ UInv = UpOk(info, toAdmit, tunnSock, On)
  BY Facts
<1>2. /\ info' = [b \in Browsers |-> IF Present(b) THEN Closed(info[b]) ELSE info[b]]
      /\ UNCHANGED <<tunnidAssigner, toAdmit, toFinder, tunnSock, admit>> /\ finder' = "closed"
  BY DEF FinderClose
<1>3. On' = FALSE
  BY <1>2 DEF On
<1>4. \A b \in Browsers : info'[b] = Closed(info[b]) \/ info'[b] = info[b]
  BY <1>2
<1>5. \A b \in Browsers : info'[b] \in Info /\ Alike(info'[b], info[b])
  <2>1. \A b \in Browsers : Closed(info[b]) \in Info /\ Alike(Closed(info[b]), info[b])
    BY <1>1, ClosedIs
  <2>2. \A b \in Browsers : info[b] \in Info /\ Alike(info[b], info[b])
    BY <1>1 DEF Alike, Same
  <2> QED BY <1>4, <2>1, <2>2
<1>6. info' \in [Browsers -> Info]
  BY <1>2, <1>5
<1>7. /\ Ok(info', tunnidAssigner, toAdmit, toFinder, tunnSock, FALSE)
      /\ UpOk(info, toAdmit, tunnSock, On) => UpOk(info', toAdmit, tunnSock, FALSE)
  <2>1. FALSE => On
    OBVIOUS
  <2>2. \A b \in Browsers : Alike(info'[b], info[b])
    BY <1>5
  <2> QED BY ONLY <1>1, <1>6, <2>1, <2>2, Kept
<1> QED BY <1>1, <1>2, <1>3, <1>7 DEF Keeps, IInv, UInv

\* sk2 is sk, but that socket t is s.
PutSock(sk2, sk, t, s) ==
  /\ sk2 \in [Tunnids -> Sock]
  /\ sk2[t] = s /\ \A u \in Tunnids : u # t => sk2[u] = sk[u]

LEMMA PuttingSock ==
  ASSUME NEW sk \in [Tunnids -> Sock], NEW t \in Tunnids, NEW s \in Sock
  PROVE  PutSock([sk EXCEPT ![t] = s], sk, t, s)
BY DEF PutSock

LEMMA NoSockIs == NoSock \in Sock /\ NoSock.st = "none" /\ NoSock.said = 0
BY DEF NoSock, Sock

\* A socket changes, and xlord is told with a message f.
LEMMA ReportKeeps ==
  ASSUME IInv, NEW t \in Tunnids, tunnSock[t].st # "none", NEW s \in Sock,
         NEW f \in FinderMsg, f.tid = t, f.op # "DataTransfer", SockStep(t, s, <<f>>),
         s.st # "none" => s.target = tunnSock[t].target /\ s.said = tunnSock[t].said
                            /\ s.heard = tunnSock[t].heard,
         \/ s.st = "none" /\ Bad(f)
         \/ /\ tunnSock[t].st = "connecting" /\ s.st = "connected"
            /\ f.op = "ConnDone" /\ f.ok
  PROVE  Keeps
<1>1. /\ Ok(info, tunnidAssigner, toAdmit, toFinder, tunnSock, On) /\ On \in BOOLEAN
      /\ tunnSock \in [Tunnids -> Sock]
      /\ UInv = UpOk(info, toAdmit, tunnSock, On)
  BY Facts
<1>2. /\ tunnSock' = [tunnSock EXCEPT ![t] = s] /\ toFinder' = Queued(toFinder, f, On)
      /\ UNCHANGED <<info, tunnidAssigner, toAdmit, finder, admit>>
  BY SendIs DEF SockStep, Queued
<1>3. On' = On
  BY <1>2 DEF On
<1>4. PutSock(tunnSock', tunnSock, t, s)
  BY <1>1, <1>2, PuttingSock
<1>5. ~Silent(t, MsgsIn(toAdmit), MsgsIn(toFinder), tunnSock)
  BY DEF Silent
<1>6. \A m \in MsgsIn(toAdmit) : m.op = "OpenTo" => m.tid # t
  BY <1>1, Parts DEF OpenOk
<1>7. /\ tunnSock' \in [Tunnids -> Sock] /\ tunnSock'[t] = s
      /\ \A u \in Tunnids : u # t => tunnSock'[u] = tunnSock[u]
  BY <1>4 DEF PutSock
<1>8. /\ Ok(info, tunnidAssigner, toAdmit, toFinder', tunnSock', On)
      /\ UpOk(info, toAdmit, tunnSock, On) => UpOk(info, toAdmit, tunnSock', On)
  <2>1. On \in BOOLEAN /\ Ok(info, tunnidAssigner, toAdmit, toFinder, tunnSock, On)
    BY <1>1
  <2>2. t \in Tunnids /\ f \in FinderMsg /\ f.tid = t /\ f.op # "DataTransfer"
    OBVIOUS
  <2>3. toFinder' = Queued(toFinder, f, On)
    BY <1>2
  <2>4. /\ tunnSock'[t].st # "none" =>
             /\ tunnSock[t].st # "none" /\ tunnSock'[t].target = tunnSock[t].target
             /\ tunnSock'[t].said = tunnSock[t].said /\ tunnSock'[t].heard = tunnSock[t].heard
        /\ f.op = "ConnDone" => tunnSock'[t].st \in {"none", "connected"}
        /\ tunnSock'[t].st \in {"none", "connected"} \/ tunnSock[t].st \notin {"none", "connected"}
        /\ Bad(f) \/ tunnSock'[t].st = tunnSock[t].st
             \/ (tunnSock[t].st = "connecting" /\ tunnSock'[t].st = "connected")
        /\ tunnSock'[t].st = "connected" /\ tunnSock[t].st # "connected" => f.op = "ConnDone" /\ f.ok
    BY <1>7
  <2> QED BY ONLY <1>5, <1>6, <1>7, <2>1, <2>2, <2>3, <2>4, Reports
<1> QED BY <1>1, <1>2, <1>3, <1>8 DEF Keeps, IInv, UInv

LEMMA DnsParsedKeeps ==
  ASSUME IInv, NEW t \in Tunnids, OnDnsParsed(t)
  PROVE  Keeps
<1>1. /\ Ok(info, tunnidAssigner, toAdmit, toFinder, tunnSock, On) /\ On \in BOOLEAN
      /\ tunnSock \in [Tunnids -> Sock] /\ toFinder \in Seq(FinderMsg)
      /\ UInv = UpOk(info, toAdmit, tunnSock, On)
  BY Facts
<1>2. CASE SockStep(t, NoSock, <<ConnAbort(t)>>)
  <2>1. ConnAbort(t) \in FinderMsg /\ ConnAbort(t).tid = t /\ ConnAbort(t).op = "ConnAbort"
    BY DEF ConnAbort, FinderMsg
  <2>2. tunnSock[t].st # "none"
    BY DEF OnDnsParsed
  <2> QED BY <1>2, <2>1, <2>2, NoSockIs, ReportKeeps DEF Bad
<1>3. CASE SockStep(t, [tunnSock[t] EXCEPT !.st = "connecting"], <<>>)
  <2> DEFINE k == tunnSock[t]
             s == [k EXCEPT !.st = "connecting"]
  <2>1. /\ tunnSock' = [tunnSock EXCEPT ![t] = s] /\ toFinder' = Sending(toFinder, <<>>, On)
        /\ UNCHANGED <<info, tunnidAssigner, toAdmit, finder, admit>>
    BY <1>3, SendIs DEF SockStep
  <2>2. toFinder' = toFinder
    BY <1>1, <2>1, ConcatEmptySeq DEF Sending
  <2>3. On' = On
    BY <2>1 DEF On
  <2>4. k \in Sock /\ k.st = "resolving"
    BY <1>1 DEF OnDnsParsed
  <2> HIDE DEF k
  <2>5. /\ s \in Sock /\ s.st = "connecting" /\ s.target = k.target
        /\ s.said = k.said /\ s.heard = k.heard
    BY <2>4 DEF Sock
  <2> HIDE DEF s
  <2>6. PutSock(tunnSock', tunnSock, t, s)
    BY <1>1, <2>1, <2>5, PuttingSock
  <2>7. /\ Ok(info, tunnidAssigner, toAdmit, toFinder, tunnSock', On)
        /\ UpOk(info, toAdmit, tunnSock, On) => UpOk(info, toAdmit, tunnSock', On)
    BY <1>1, <2>4, <2>5, <2>6, Changes DEF PutSock, k
  <2> QED BY <1>1, <2>1, <2>2, <2>3, <2>7 DEF Keeps, IInv, UInv
<1> QED BY <1>2, <1>3 DEF OnDnsParsed

LEMMA ConnectKeeps ==
  ASSUME IInv, NEW t \in Tunnids, NEW success \in BOOLEAN, OnConnect(t, success)
  PROVE  Keeps
<1> DEFINE k == tunnSock[t]
           s == [k EXCEPT !.st = "connected"]
           f == ConnDone(t, success)
<1>1. k \in Sock /\ k.st = "connecting"
  BY Facts DEF OnConnect
<1>2. f \in FinderMsg /\ f.tid = t /\ f.op = "ConnDone" /\ f.ok = success
  BY DEF ConnDone, FinderMsg
<1>3. SockStep(t, IF success THEN s ELSE NoSock, <<f>>)
  BY DEF OnConnect
<1> HIDE DEF k, f
<1>4. /\ s \in Sock /\ s.st = "connected" /\ s.target = k.target
      /\ s.said = k.said /\ s.heard = k.heard
  BY <1>1 DEF Sock
<1> HIDE DEF s
<1>5. CASE success
  BY <1>1, <1>2, <1>3, <1>4, <1>5, ReportKeeps DEF k
<1>6. CASE ~success
  BY <1>1, <1>2, <1>3, <1>6, NoSockIs, ReportKeeps DEF k, Bad
<1> QED BY <1>5, <1>6

LEMMA TargetDisconnectKeeps ==
  ASSUME IInv, NEW t \in Tunnids, NEW byRemote \in BOOLEAN, OnTargetDisconnect(t, byRemote)
  PROVE  Keeps
<1>1. tunnSock[t].st # "none" /\ SockStep(t, NoSock, <<ConnAbort(t)>>)
  BY DEF OnTargetDisconnect
<1>2. ConnAbort(t) \in FinderMsg /\ ConnAbort(t).tid = t /\ ConnAbort(t).op = "ConnAbort"
  BY DEF ConnAbort, FinderMsg
<1> QED BY <1>1, <1>2, NoSockIs, ReportKeeps DEF Bad

LEMMA TargetRecvKeeps ==
  ASSUME IInv, NEW t \in Tunnids, OnTargetRecv(t)
  PROVE  Keeps
<1> DEFINE k == tunnSock[t]
           n == k.said + 1
           s == [k EXCEPT !.said = n]
           f == TargetData(t, n, k.target)
<1>1. /\ Ok(info, tunnidAssigner, toAdmit, toFinder, tunnSock, On) /\ On \in BOOLEAN
      /\ tunnSock \in [Tunnids -> Sock]
      /\ UInv = UpOk(info, toAdmit, tunnSock, On)
  BY Facts
<1>2. k.st = "connected" /\ SockStep(t, s, <<f>>)
  BY DEF OnTargetRecv
<1>3. k \in Sock /\ n \in Nat
  BY <1>1 DEF Sock
<1>4. /\ tunnSock' = [tunnSock EXCEPT ![t] = s] /\ toFinder' = Queued(toFinder, f, On)
      /\ UNCHANGED <<info, tunnidAssigner, toAdmit, finder, admit>>
  BY <1>2, SendIs DEF SockStep, Queued
<1>5. On' = On
  BY <1>4 DEF On
<1> HIDE DEF k, n, f
<1>6. /\ s \in Sock /\ s.st = k.st /\ s.target = k.target
      /\ s.said = n /\ s.heard = k.heard
  BY <1>3 DEF Sock
<1> HIDE DEF s
<1>7. PutSock(tunnSock', tunnSock, t, s)
  BY <1>1, <1>4, <1>6, PuttingSock
<1>8. /\ Ok(info, tunnidAssigner, toAdmit, toFinder', tunnSock', On)
      /\ UpOk(info, toAdmit, tunnSock, On) => UpOk(info, toAdmit, tunnSock', On)
  <2>1. f = TargetData(t, tunnSock[t].said + 1, tunnSock[t].target) /\ tunnSock[t].st = "connected"
    BY <1>2 DEF f, k, n
  <2>2. /\ tunnSock' \in [Tunnids -> Sock] /\ \A u \in Tunnids : u # t => tunnSock'[u] = tunnSock[u]
        /\ tunnSock'[t].st = tunnSock[t].st /\ tunnSock'[t].target = tunnSock[t].target
        /\ tunnSock'[t].heard = tunnSock[t].heard /\ tunnSock'[t].said = tunnSock[t].said + 1
    BY <1>6, <1>7 DEF PutSock, k, n
  <2>3. On \in BOOLEAN /\ t \in Tunnids /\ Ok(info, tunnidAssigner, toAdmit, toFinder, tunnSock, On)
    BY <1>1
  <2>4. toFinder' = Queued(toFinder, f, On)
    BY <1>4
  <2> QED BY ONLY <2>1, <2>2, <2>3, <2>4, TargetSends
<1> QED BY <1>1, <1>4, <1>5, <1>8 DEF Keeps, IInv, UInv

LEMMA AdmitCloseKeeps ==
  ASSUME IInv, AdmitClose
  PROVE  Keeps
<1>1. /\ Ok(info, tunnidAssigner, toAdmit, toFinder, tunnSock, On)
      /\ UInv = UpOk(info, toAdmit, tunnSock, On)
  BY Facts
<1>2. /\ tunnSock' = [t \in Tunnids |-> NoSock] /\ admit' = "closed"
      /\ UNCHANGED <<info, tunnidAssigner, toAdmit, toFinder, finder>>
  BY DEF AdmitClose
<1>3. On' = FALSE
  BY <1>2 DEF On
<1>4. tunnSock' \in [Tunnids -> Sock] /\ \A u \in Tunnids : tunnSock'[u].st = "none"
  BY <1>2, NoSockIs
<1>5. /\ Ok(info, tunnidAssigner, toAdmit, toFinder, tunnSock', FALSE)
      /\ UpOk(info, toAdmit, tunnSock, On) => UpOk(info, toAdmit, tunnSock', FALSE)
  BY <1>1, <1>4, AllGone
<1> QED BY <1>1, <1>2, <1>3, <1>5 DEF Keeps, IInv, UInv

\* A message of the other end: a request that is refused, one that is not, data, a close.
LEMMA RefuseKeeps ==
  ASSUME IInv, toAdmit # <<>>, NEW m, m = Head(toAdmit), m.op = "OpenTo",
         toAdmit' = Tail(toAdmit), SendToFinder(<<RtnOpenTo(m.tid, FALSE)>>),
         admit' = admit \/ admit' = "dropped",
         UNCHANGED <<info, tunnidAssigner, tunnSock, finder>>
  PROVE  Keeps
<1>1. /\ Ok(info, tunnidAssigner, toAdmit, toFinder, tunnSock, On) /\ On \in BOOLEAN
      /\ info \in [Browsers -> Info] /\ toAdmit \in Seq(AdmitMsg)
      /\ UInv = UpOk(info, toAdmit, tunnSock, On)
  BY Facts
<1> DEFINE f == RtnOpenTo(m.tid, FALSE)
<1>2. toFinder' = Queued(toFinder, f, On)
  BY SendIs DEF Queued
<1>3. /\ Ok(info, tunnidAssigner, toAdmit', toFinder', tunnSock, On)
      /\ UpOk(info, toAdmit, tunnSock, On) => UpOk(info, toAdmit', tunnSock, On)
  <2>1. On \in BOOLEAN /\ Ok(info, tunnidAssigner, toAdmit, toFinder, tunnSock, On)
    BY <1>1
  <2>2. Taken(toAdmit, m, toAdmit') /\ m.op = "OpenTo"
    BY DEF Taken
  <2>3. f \in FinderMsg /\ f.op = "RtnOpenTo" /\ f.tid = m.tid /\ Bad(f)
    <3>1. m \in AdmitMsg
      BY <1>1, Shifting
    <3> QED BY <3>1 DEF RtnOpenTo, FinderMsg, AdmitMsg, Bad
  <2> HIDE DEF f
  <2> QED BY ONLY <1>2, <2>1, <2>2, <2>3, Refuses
<1>4. On' => On
  BY DEF On
<1>5. /\ Ok(info, tunnidAssigner, toAdmit', toFinder', tunnSock, On')
      /\ UpOk(info, toAdmit', tunnSock, On) => UpOk(info, toAdmit', tunnSock, On')
  <2>1. \A b \in Browsers : Alike(info[b], info[b])
    BY DEF Alike, Same
  <2> QED BY ONLY <1>1, <1>3, <1>4, <2>1, Kept
<1> QED BY <1>1, <1>3, <1>5 DEF Keeps, IInv, UInv

\* The answer to a request that was accepted.
LEMMA Answers ==
  ASSUME NEW inf, NEW asg, NEW A, NEW F, NEW sk, NEW on \in BOOLEAN,
         Ok(inf, asg, A, F, sk, on),
         NEW t \in Tunnids, sk[t].st \notin {"none", "connected"},
         \A m \in MsgsIn(A) : m.op = "OpenTo" => m.tid # t,
         NEW F2, NEW f \in FinderMsg, f = RtnOpenTo(t, TRUE), F2 = Queued(F, f, on)
  PROVE  Ok(inf, asg, A, F2, sk, on)
<1>1. f.tid = t /\ f.op = "RtnOpenTo"
  BY DEF RtnOpenTo
<1>2. sk \in [Tunnids -> Sock]
  BY Parts DEF Typed
<1>3. ~Silent(t, MsgsIn(A), MsgsIn(F), sk)
  BY DEF Silent
<1>4. /\ sk[t].st # "none" =>
           sk[t].st # "none" /\ sk[t].target = sk[t].target
             /\ sk[t].said = sk[t].said /\ sk[t].heard = sk[t].heard
      /\ f.op = "ConnDone" => sk[t].st \in {"none", "connected"}
      /\ sk[t].st \in {"none", "connected"} \/ sk[t].st \notin {"none", "connected"}
      /\ Bad(f) \/ sk[t].st = sk[t].st \/ (sk[t].st = "connecting" /\ sk[t].st = "connected")
      /\ sk[t].st = "connected" /\ sk[t].st # "connected" => f.op = "ConnDone" /\ f.ok
      /\ \A u \in Tunnids : u # t => sk[u] = sk[u]
  BY <1>1
<1>5. /\ on \in BOOLEAN /\ Ok(inf, asg, A, F, sk, on) /\ t \in Tunnids
      /\ \A m \in MsgsIn(A) : m.op = "OpenTo" => m.tid # t
      /\ f \in FinderMsg /\ F2 = Queued(F, f, on)
      /\ f.tid = t /\ f.op # "DataTransfer"
  BY <1>1
<1> QED BY ONLY <1>2, <1>3, <1>4, <1>5, Reports

\* The socket of a tunnel that is asked for.
OpenSock(st, m) == [NoSock EXCEPT !.st = st, !.target = m.target, !.heard = m.last]

LEMMA OpenSockIs ==
  ASSUME NEW m \in AdmitMsg, m.op = "OpenTo", NEW st \in {"resolving", "connecting", "deleted"}
  PROVE  /\ OpenSock(st, m) \in Sock /\ OpenSock(st, m).st = st
         /\ OpenSock(st, m).target = m.target /\ OpenSock(st, m).heard = m.last
         /\ OpenSock(st, m).said = 0
<1>1. m.target \in Targets /\ m.last \in Nat
  BY DEF AdmitMsg
<1> QED BY <1>1 DEF OpenSock, NoSock, Sock

LEMMA OpenKeeps ==
  ASSUME IInv, toAdmit # <<>>, NEW m, m = Head(toAdmit), m.op = "OpenTo",
         toAdmit' = Tail(toAdmit), NEW st, st = Connecting(m.target), st # "failed",
         tunnSock' = [tunnSock EXCEPT ![m.tid] = OpenSock(st, m)],
         SendToFinder((IF st = "deleted" THEN <<ConnAbort(m.tid)>> ELSE <<>>)
                      \o <<RtnOpenTo(m.tid, TRUE)>>),
         UNCHANGED <<info, tunnidAssigner, finder, admit>>
  PROVE  Keeps
<1> DEFINE t == m.tid
           x == ConnAbort(t)
           y == RtnOpenTo(t, TRUE)
           s == OpenSock(st, m)
           A2 == Tail(toAdmit)
<1>1. /\ Ok(info, tunnidAssigner, toAdmit, toFinder, tunnSock, On) /\ On \in BOOLEAN
      /\ tunnSock \in [Tunnids -> Sock] /\ toAdmit \in Seq(AdmitMsg) /\ toFinder \in Seq(FinderMsg)
      /\ UInv = UpOk(info, toAdmit, tunnSock, On)
  BY Facts
<1>2. On' = On
  BY DEF On
<1>3. /\ m \in AdmitMsg /\ t \in Tunnids
      /\ \A k \in MsgsIn(A2) : k.op = "OpenTo" => k.tid # t
  <2>1. OnceOk(toAdmit)
    BY <1>1, Parts
  <2>2. m \in AdmitMsg /\ \A k \in MsgsIn(A2) : k.op = "OpenTo" => k.tid # t
    BY <1>1, <2>1, FirstOfAdmit
  <2> QED BY <2>2 DEF AdmitMsg
<1>4. st \in {"resolving", "connecting", "deleted"}
  BY DEF Connecting
<1>5. /\ x \in FinderMsg /\ x.tid = t /\ x.op = "ConnAbort"
      /\ y \in FinderMsg /\ y.tid = t /\ y.op = "RtnOpenTo" /\ y.ok
  BY <1>3 DEF ConnAbort, RtnOpenTo, FinderMsg
<1>6. s \in Sock /\ s.st = st /\ s.target = m.target /\ s.heard = m.last /\ s.said = 0
  BY <1>3, <1>4, OpenSockIs
<1> HIDE DEF x, y, s, t
<1>7. PutSock(tunnSock', tunnSock, t, s)
  <2>1. tunnSock' = [tunnSock EXCEPT ![t] = s]
    BY DEF t, s
  <2>2. tunnSock \in [Tunnids -> Sock] /\ t \in Tunnids /\ s \in Sock
    BY <1>1, <1>3, <1>6
  <2> QED BY ONLY <2>1, <2>2, PuttingSock
<1>8. CASE st # "deleted"
  <2>1. toFinder' = Queued(toFinder, y, On)
    <3>1. toFinder' = Sending(toFinder, <<>> \o <<y>>, On)
      BY <1>8, SendIs DEF t, y
    <3>2. <<>> \o <<y>> = <<y>>
      BY <1>5, ConcatEmptySeq
    <3> QED BY <3>1, <3>2 DEF Queued
  <2>2. /\ Ok(info, tunnidAssigner, A2, toFinder, tunnSock', On)
        /\ UpOk(info, toAdmit, tunnSock, On) => UpOk(info, A2, tunnSock', On)
    <3>1. Ok(info, tunnidAssigner, toAdmit, toFinder, tunnSock, On)
      BY <1>1
    <3>2. Taken(toAdmit, m, A2) /\ m.op = "OpenTo"
      BY DEF Taken
    <3>3. /\ tunnSock' \in [Tunnids -> Sock]
          /\ \A u \in Tunnids : u # m.tid => tunnSock'[u] = tunnSock[u]
          /\ tunnSock'[m.tid].st \in {"resolving", "connecting"}
          /\ tunnSock'[m.tid].target = m.target
          /\ tunnSock'[m.tid].heard = m.last /\ tunnSock'[m.tid].said = 0
      BY <1>4, <1>6, <1>7, <1>8 DEF PutSock, t
    <3> QED BY ONLY <3>1, <3>2, <3>3, Opens
  <2>3. Ok(info, tunnidAssigner, A2, toFinder', tunnSock', On)
    <3>1. tunnSock'[t].st \notin {"none", "connected"}
      BY <1>4, <1>6, <1>7 DEF PutSock
    <3>2. On \in BOOLEAN /\ t \in Tunnids /\ y \in FinderMsg /\ y = RtnOpenTo(t, TRUE)
      BY <1>1, <1>3, <1>5 DEF y
    <3> QED BY ONLY <1>3, <2>1, <2>2, <3>1, <3>2, Answers
  <2> QED BY <1>1, <1>2, <2>2, <2>3 DEF Keeps, IInv, UInv
<1>9. CASE st = "deleted"
  <2> DEFINE c == OpenSock("connecting", m)
             sk3 == [tunnSock EXCEPT ![t] = c]
             F3 == Queued(toFinder, x, On)
  <2>1. c \in Sock /\ c.st = "connecting" /\ c.target = m.target /\ c.heard = m.last /\ c.said = 0
    BY <1>3, OpenSockIs
  <2> HIDE DEF c
  <2>2. PutSock(sk3, tunnSock, t, c)
    BY <1>1, <1>3, <2>1, PuttingSock
  <2>3. toFinder' = Queued(F3, y, On)
    <3>1. toFinder' = Sending(toFinder, <<x>> \o <<y>>, On)
      BY <1>9, SendIs DEF t, x, y
    <3>2. toFinder \o (<<x>> \o <<y>>) = (toFinder \o <<x>>) \o <<y>>
      <4>1. <<x>> \in Seq(FinderMsg) /\ <<y>> \in Seq(FinderMsg)
        BY <1>5
      <4> QED BY <1>1, <4>1, ConcatAssociative
    <3> QED BY <3>1, <3>2 DEF Queued, Sending
  <2> HIDE DEF sk3, F3
  <2>4. /\ Ok(info, tunnidAssigner, A2, toFinder, sk3, On)
        /\ UpOk(info, toAdmit, tunnSock, On) => UpOk(info, A2, sk3, On)
    <3>1. Ok(info, tunnidAssigner, toAdmit, toFinder, tunnSock, On)
      BY <1>1
    <3>2. Taken(toAdmit, m, A2) /\ m.op = "OpenTo"
      BY DEF Taken
    <3>3. /\ sk3 \in [Tunnids -> Sock]
          /\ \A u \in Tunnids : u # m.tid => sk3[u] = tunnSock[u]
          /\ sk3[m.tid].st \in {"resolving", "connecting"}
          /\ sk3[m.tid].target = m.target
          /\ sk3[m.tid].heard = m.last /\ sk3[m.tid].said = 0
      BY <2>1, <2>2 DEF PutSock, t
    <3> QED BY ONLY <3>1, <3>2, <3>3, Opens
  <2>5. /\ Ok(info, tunnidAssigner, A2, F3, tunnSock', On)
        /\ UpOk(info, A2, sk3, On) => UpOk(info, A2, tunnSock', On)
    <3>1. /\ sk3[t].st = "connecting" /\ tunnSock'[t].st = "deleted"
          /\ tunnSock'[t].target = sk3[t].target /\ tunnSock'[t].said = sk3[t].said
          /\ tunnSock'[t].heard = sk3[t].heard /\ tunnSock' \in [Tunnids -> Sock]
          /\ \A u \in Tunnids : u # t => tunnSock'[u] = sk3[u]
      BY <1>6, <1>7, <1>9, <2>1, <2>2 DEF PutSock
    <3>2. ~Silent(t, MsgsIn(A2), MsgsIn(toFinder), sk3)
      BY <3>1 DEF Silent
    <3>3. Bad(x)
      BY <1>5 DEF Bad
    <3>4. F3 = Queued(toFinder, x, On)
      BY DEF F3
    <3>5. On \in BOOLEAN /\ t \in Tunnids /\ x \in FinderMsg /\ x.tid = t /\ x.op = "ConnAbort"
      BY <1>1, <1>3, <1>5
    <3>6. \A k \in MsgsIn(A2) : k.op = "OpenTo" => k.tid # t
      BY <1>3
    <3> QED BY ONLY <2>4, <3>1, <3>2, <3>3, <3>4, <3>5, <3>6, Reports
  <2>6. Ok(info, tunnidAssigner, A2, toFinder', tunnSock', On)
    <3>1. tunnSock'[t].st \notin {"none", "connected"}
      BY <1>6, <1>7, <1>9 DEF PutSock
    <3>2. On \in BOOLEAN /\ t \in Tunnids /\ y \in FinderMsg /\ y = RtnOpenTo(t, TRUE)
      BY <1>1, <1>3, <1>5 DEF y
    <3> QED BY ONLY <1>3, <2>3, <2>5, <3>1, <3>2, Answers
  <2> QED BY <1>1, <1>2, <2>4, <2>5, <2>6 DEF Keeps, IInv, UInv
<1> QED BY <1>8, <1>9

LEMMA ReceiveKeeps ==
  ASSUME IInv, toAdmit # <<>>, NEW m, m = Head(toAdmit), m.op = "DataTransfer",
         toAdmit' = Tail(toAdmit), OnAdmitDataTransfer(m),
         UNCHANGED <<info, tunnidAssigner, finder>>
  PROVE  Keeps
<1> DEFINE t == m.tid
           k == tunnSock[t]
           n == m.last
           s == IF Has(t) THEN [k EXCEPT !.heard = n] ELSE k
<1>1. /\ Ok(info, tunnidAssigner, toAdmit, toFinder, tunnSock, On) /\ On \in BOOLEAN
      /\ tunnSock \in [Tunnids -> Sock] /\ toAdmit \in Seq(AdmitMsg)
      /\ UInv = UpOk(info, toAdmit, tunnSock, On)
  BY Facts
<1>2. UNCHANGED <<toFinder, admit>> /\ On' = On
  BY DEF On, OnAdmitDataTransfer
<1>3. t \in Tunnids /\ n \in Nat
  <2>1. m \in AdmitMsg
    BY <1>1, Shifting
  <2> QED BY <2>1 DEF AdmitMsg
<1>4. tunnSock' = [tunnSock EXCEPT ![t] = s]
  BY <1>1, <1>3 DEF OnAdmitDataTransfer
<1>5. k \in Sock /\ (Has(t) <=> k.st # "none")
  BY <1>1, <1>3 DEF Has
<1> HIDE DEF n, t, k
<1>6. /\ s \in Sock /\ s.st = k.st /\ s.target = k.target /\ s.said = k.said
      /\ k.st # "none" => s.heard = n
  BY <1>3, <1>5 DEF Sock
<1> HIDE DEF s
<1>7. PutSock(tunnSock', tunnSock, t, s)
  BY <1>1, <1>3, <1>4, <1>6, PuttingSock
<1>8. /\ Ok(info, tunnidAssigner, toAdmit', toFinder, tunnSock', On)
      /\ UpOk(info, toAdmit, tunnSock, On) => UpOk(info, toAdmit', tunnSock', On)
  <2>1. /\ tunnSock' \in [Tunnids -> Sock]
        /\ \A u \in Tunnids : u # m.tid => tunnSock'[u] = tunnSock[u]
        /\ tunnSock'[m.tid].target = tunnSock[m.tid].target
        /\ tunnSock'[m.tid].said = tunnSock[m.tid].said
        /\ tunnSock'[m.tid].st = tunnSock[m.tid].st
        /\ tunnSock[m.tid].st # "none" => tunnSock'[m.tid].heard = m.last
    BY <1>6, <1>7 DEF PutSock, t, k, n
  <2>2. Ok(info, tunnidAssigner, toAdmit, toFinder, tunnSock, On)
    BY <1>1
  <2>3. Taken(toAdmit, m, toAdmit') /\ m.op = "DataTransfer"
    BY DEF Taken
  <2> QED BY ONLY <2>1, <2>2, <2>3, Receives
<1> QED BY <1>1, <1>2, <1>8 DEF Keeps, IInv, UInv

LEMMA CloseKeeps ==
  ASSUME IInv, toAdmit # <<>>, NEW m, m = Head(toAdmit), m.op = "CloseTunnel",
         toAdmit' = Tail(toAdmit), OnAdmitCloseTunnel(m),
         UNCHANGED <<info, tunnidAssigner, finder>>
  PROVE  Keeps
<1> DEFINE t == m.tid
           k == tunnSock[t]
           s == CASE k.st = "none" -> k
                  [] k.st = "resolving" -> [k EXCEPT !.st = "cancelled"]
                  [] OTHER -> [k EXCEPT !.closing = TRUE]
<1>1. /\ Ok(info, tunnidAssigner, toAdmit, toFinder, tunnSock, On) /\ On \in BOOLEAN
      /\ tunnSock \in [Tunnids -> Sock] /\ toAdmit \in Seq(AdmitMsg)
      /\ UInv = UpOk(info, toAdmit, tunnSock, On)
  BY Facts
<1>2. UNCHANGED <<toFinder, admit>> /\ On' = On
  BY DEF On, OnAdmitCloseTunnel
<1>3. t \in Tunnids /\ \A c \in Browsers : info[c].tunnid # t
  <2>1. m \in AdmitMsg /\ m \in MsgsIn(toAdmit)
    BY <1>1, Shifting
  <2>2. CloseOk(info, MsgsIn(toAdmit))
    BY <1>1, Parts
  <2> QED BY <2>1, <2>2 DEF AdmitMsg, CloseOk
<1>4. tunnSock' = [tunnSock EXCEPT ![t] = s]
  BY <1>1, <1>3 DEF OnAdmitCloseTunnel
<1>5. k \in Sock
  BY <1>1, <1>3
<1> HIDE DEF t, k
<1>6. /\ s \in Sock /\ s.target = k.target /\ s.said = k.said /\ s.heard = k.heard
      /\ s.st = k.st \/ (k.st = "resolving" /\ s.st = "cancelled")
  <2>1. CASE k.st = "none"
    BY <1>5, <2>1
  <2>2. CASE k.st = "resolving"
    <3>1. s = [k EXCEPT !.st = "cancelled"]
      BY <2>2
    <3> HIDE DEF s
    <3> QED BY <1>5, <2>2, <3>1 DEF Sock
  <2>3. CASE k.st \notin {"none", "resolving"}
    <3>1. s = [k EXCEPT !.closing = TRUE]
      BY <2>3
    <3> HIDE DEF s
    <3> QED BY <1>5, <3>1 DEF Sock
  <2> QED BY <2>1, <2>2, <2>3
<1> HIDE DEF s
<1>7. PutSock(tunnSock', tunnSock, t, s)
  BY <1>1, <1>3, <1>4, <1>6, PuttingSock
<1>8. /\ Ok(info, tunnidAssigner, toAdmit', toFinder, tunnSock, On)
      /\ UpOk(info, toAdmit, tunnSock, On) => UpOk(info, toAdmit', tunnSock, On)
  BY <1>1, Takes DEF Taken
<1>9. /\ Ok(info, tunnidAssigner, toAdmit', toFinder, tunnSock', On)
      /\ UpOk(info, toAdmit', tunnSock, On) => UpOk(info, toAdmit', tunnSock', On)
  BY <1>3, <1>6, <1>7, <1>8, Changes DEF PutSock, k
<1> QED BY <1>1, <1>2, <1>8, <1>9 DEF Keeps, IInv, UInv

LEMMA AdmitMessageKeeps ==
  ASSUME IInv, OnAdmitMessage
  PROVE  Keeps
<1> DEFINE m == Head(toAdmit)
<1>1. /\ toAdmit # <<>> /\ toAdmit' = Tail(toAdmit) /\ UNCHANGED <<info, tunnidAssigner, finder>>
      /\ \/ m.op = "OpenTo" /\ OnAdmitOpenTo(m)
         \/ m.op = "DataTransfer" /\ OnAdmitDataTransfer(m)
         \/ m.op = "CloseTunnel" /\ OnAdmitCloseTunnel(m)
  BY DEF OnAdmitMessage
<1> HIDE DEF m
<1>2. m = Head(toAdmit)
  BY DEF m
<1>3. CASE m.op = "OpenTo" /\ OnAdmitOpenTo(m)
  <2>1. CASE /\ SendToFinder(<<RtnOpenTo(m.tid, FALSE)>>) /\ UNCHANGED tunnSock
             /\ admit' = admit \/ admit' = "dropped"
    BY <1>1, <1>2, <1>3, <2>1, RefuseKeeps
  <2>2. CASE /\ Connecting(m.target) # "failed"
             /\ tunnSock' = [tunnSock EXCEPT ![m.tid] = OpenSock(Connecting(m.target), m)]
             /\ SendToFinder((IF Connecting(m.target) = "deleted" THEN <<ConnAbort(m.tid)>> ELSE <<>>)
                             \o <<RtnOpenTo(m.tid, TRUE)>>)
             /\ UNCHANGED admit
    BY <1>1, <1>2, <1>3, <2>2, OpenKeeps
  <2> QED BY <1>3, <2>1, <2>2 DEF OnAdmitOpenTo, OpenSock
<1>4. CASE m.op = "DataTransfer" /\ OnAdmitDataTransfer(m)
  BY <1>1, <1>2, <1>4, ReceiveKeeps
<1>5. CASE m.op = "CloseTunnel" /\ OnAdmitCloseTunnel(m)
  BY <1>1, <1>2, <1>5, CloseKeeps
<1> QED BY <1>1, <1>3, <1>4, <1>5

-----------------------------------------------------------------------------
(* The properties.                                                         *)

LEMMA NextKeeps ==
  ASSUME IInv, [Next]_vars
  PROVE  Keeps
<1>1. CASE UNCHANGED vars
  BY <1>1, StutterKeeps
<1>2. CASE \E b \in Browsers :
             OnAccept(b) \/ OnRecv(b) \/ \E byRemote \in BOOLEAN : OnDisconnect(b, byRemote)
  BY <1>2, AcceptKeeps, RecvKeeps, DisconnectKeeps
<1>3. CASE OnFinderMessage \/ FinderClose
  BY <1>3, FinderMessageKeeps, FinderCloseKeeps
<1>4. CASE OnAdmitMessage \/ AdmitClose
  BY <1>4, AdmitMessageKeeps, AdmitCloseKeeps
<1>5. CASE \E t \in Tunnids :
             \/ OnDnsParsed(t) \/ OnTargetRecv(t)
             \/ \E success \in BOOLEAN : OnConnect(t, success)
             \/ \E byRemote \in BOOLEAN : OnTargetDisconnect(t, byRemote)
  BY <1>5, DnsParsedKeeps, TargetRecvKeeps, ConnectKeeps, TargetDisconnectKeeps
<1> QED BY <1>1, <1>2, <1>3, <1>4, <1>5 DEF Next

\* What an end can be.
EndsOk == finder \in {"up", "closed"} /\ admit \in {"up", "dropped", "closed"}

LEMMA EndsKeep ==
  ASSUME EndsOk, [Next]_vars
  PROVE  EndsOk'
<1>1. CASE UNCHANGED vars
  BY <1>1 DEF vars, EndsOk
<1>2. CASE \E b \in Browsers :
             OnAccept(b) \/ OnRecv(b) \/ \E byRemote \in BOOLEAN : OnDisconnect(b, byRemote)
  BY <1>2 DEF OnAccept, OnRecv, OnDisconnect, EndsOk
<1>3. CASE OnFinderMessage \/ FinderClose
  BY <1>3 DEF OnFinderMessage, FinderClose, EndsOk
<1>4. CASE OnAdmitMessage \/ AdmitClose
  BY <1>4 DEF OnAdmitMessage, OnAdmitOpenTo, OnAdmitDataTransfer, OnAdmitCloseTunnel,
              AdmitClose, EndsOk
<1>5. CASE \E t \in Tunnids :
             \/ OnDnsParsed(t) \/ OnTargetRecv(t)
             \/ \E success \in BOOLEAN : OnConnect(t, success)
             \/ \E byRemote \in BOOLEAN : OnTargetDisconnect(t, byRemote)
  BY <1>5 DEF OnDnsParsed, OnTargetRecv, OnConnect, OnTargetDisconnect, SockStep, EndsOk
<1> QED BY <1>1, <1>2, <1>3, <1>4, <1>5 DEF Next

LEMMA InvIsInductive == Spec => [](IInv /\ EndsOk)
<1>1. Init => IInv /\ EndsOk
  BY InitOk DEF Init, EndsOk
<1>2. IInv /\ EndsOk /\ [Next]_vars => (IInv /\ EndsOk)'
  BY NextKeeps, EndsKeep DEF Keeps
<1> QED BY <1>1, <1>2, PTL DEF Spec

LEMMA InvTypes ==
  ASSUME IInv, EndsOk
  PROVE  TypeOK
<1>1. Typed(info, tunnidAssigner, toAdmit, toFinder, tunnSock)
  BY Parts DEF IInv
<1>2. \A i \in DOMAIN toAdmit : toAdmit[i] \in AdmitMsg
  BY <1>1 DEF Typed
<1>3. \A i \in DOMAIN toFinder : toFinder[i] \in FinderMsg
  BY <1>1 DEF Typed
<1>4. /\ \A m \in AdmitMsg :
           m.op \in {"OpenTo", "DataTransfer", "CloseTunnel"} /\ m.tid \in Tunnids
      /\ \A m \in FinderMsg :
           m.op \in {"RtnOpenTo", "ConnDone", "ConnAbort", "DataTransfer"} /\ m.tid \in Tunnids
  BY DEF AdmitMsg, FinderMsg
<1>5. Info \subseteq [state : {"none", "WaitTarget", "HandShakeOK"} \cup Waiting \cup Proxying,
                      proxyType : {"none", "HTTP", "HTTPS", "FORWARD", "SOCK"},
                      tunnid : 0..MaxTunnid, target : Targets \cup {"none"},
                      said : Nat, cached : Nat, heard : Nat, reading : BOOLEAN, closing : BOOLEAN]
  BY TunnelAssumption DEF Info, Early
<1>6. info \in [Browsers ->
        [state : {"none", "WaitTarget", "HandShakeOK"} \cup Waiting \cup Proxying,
         proxyType : {"none", "HTTP", "HTTPS", "FORWARD", "SOCK"},
         tunnid : 0..MaxTunnid, target : Targets \cup {"none"},
         said : Nat, cached : Nat, heard : Nat, reading : BOOLEAN, closing : BOOLEAN]]
  BY <1>1, <1>5 DEF Typed
<1>7. \A i \in DOMAIN toAdmit :
        toAdmit[i].op \in {"OpenTo", "DataTransfer", "CloseTunnel"} /\ toAdmit[i].tid \in Tunnids
  BY <1>2, <1>4
<1>8. \A i \in DOMAIN toFinder :
        /\ toFinder[i].op \in {"RtnOpenTo", "ConnDone", "ConnAbort", "DataTransfer"}
        /\ toFinder[i].tid \in Tunnids
  BY <1>3, <1>4
<1> QED BY <1>1, <1>6, <1>7, <1>8 DEF TypeOK, Typed, Sock, EndsOk

LEMMA InvForgetsNobody ==
  ASSUME IInv
  PROVE  NobodyForgotten
<1> SUFFICES ASSUME On, NEW b \in Browsers
             PROVE  LET t == info[b].tunnid
                        bad == \/ info[b].closing
                               \/ InFlight(toFinder, "ConnAbort", t)
                               \/ \E i \in DOMAIN toFinder :
                                    /\ toFinder[i].op \in {"RtnOpenTo", "ConnDone"}
                                    /\ toFinder[i].tid = t /\ ~toFinder[i].ok
                    IN /\ info[b].state \in Waiting =>
                            \/ bad
                            \/ InFlight(toAdmit, "OpenTo", t)
                            \/ tunnSock[t].st \in {"resolving", "connecting"}
                            \/ InFlight(toFinder, "ConnDone", t)
                       /\ info[b].state \in Proxying => bad \/ tunnSock[t].st = "connected"
  BY DEF NobodyForgotten, On
<1> DEFINE t == info[b].tunnid
           bad == \/ info[b].closing
                  \/ InFlight(toFinder, "ConnAbort", t)
                  \/ \E i \in DOMAIN toFinder :
                       /\ toFinder[i].op \in {"RtnOpenTo", "ConnDone"}
                       /\ toFinder[i].tid = t /\ ~toFinder[i].ok
<1>1. /\ LostOk(info, MsgsIn(toAdmit), MsgsIn(toFinder), tunnSock)
      /\ DownOk(info, toFinder, tunnSock, On)
      /\ Typed(info, tunnidAssigner, toAdmit, toFinder, tunnSock)
  BY Parts DEF IInv
<1>2. Ending(info[b], MsgsIn(toFinder)) => bad
  BY DEF Ending, MsgsIn, InFlight
<1>3. (\E m \in MsgsIn(toAdmit) : m.op = "OpenTo" /\ m.tid = t) => InFlight(toAdmit, "OpenTo", t)
  BY DEF MsgsIn, InFlight
<1>4. ASSUME info[b].state \in Waiting, tunnSock[t].st = "connected"
      PROVE  InFlight(toFinder, "ConnDone", t)
  <2>1. Told(toFinder, t, Len(toFinder) + 1)
    BY <1>1, <1>4, Classes DEF DownOk, DownTo
  <2>2. PICK i \in 1 .. (Len(toFinder) + 1) - 1 :
          toFinder[i].op = "ConnDone" /\ toFinder[i].tid = t /\ toFinder[i].ok
    BY <2>1 DEF Told
  <2>3. i \in DOMAIN toFinder
    BY <1>1, <2>2 DEF Typed
  <2> QED BY <2>2, <2>3 DEF InFlight
<1>5. info[b].state \in Waiting =>
        \/ Ending(info[b], MsgsIn(toFinder))
        \/ \E m \in MsgsIn(toAdmit) : m.op = "OpenTo" /\ m.tid = t
        \/ tunnSock[t].st \in {"resolving", "connecting", "connected"}
  BY <1>1 DEF LostOk
<1>6. info[b].state \in Proxying =>
        Ending(info[b], MsgsIn(toFinder)) \/ tunnSock[t].st = "connected"
  BY <1>1 DEF LostOk
<1> HIDE DEF t, bad
<1>7. /\ info[b].state \in Waiting =>
           \/ bad
           \/ InFlight(toAdmit, "OpenTo", t)
           \/ tunnSock[t].st \in {"resolving", "connecting"}
           \/ InFlight(toFinder, "ConnDone", t)
      /\ info[b].state \in Proxying => bad \/ tunnSock[t].st = "connected"
  BY <1>2, <1>3, <1>4, <1>5, <1>6
<1> QED BY <1>7 DEF t, bad

LEMMA FirstOfChain ==
  ASSUME NEW S, NEW Q \in Seq(S), Q # <<>>, NEW t, NEW base, Chain(Q, t, base, TRUE),
         Head(Q).tid = t, Head(Q).op = "DataTransfer"
  PROVE  1 \in DOMAIN Q /\ Head(Q) = Q[1] /\ Head(Q).first = base + 1
<1>1. 1 \in DOMAIN Q /\ Head(Q) = Q[1] /\ 1 .. 1 - 1 = {}
  OBVIOUS
<1> QED BY <1>1 DEF Chain

\* Nobody who waits is forgotten: TunnelInv is an invariant of xlord and xlorb for any
\* number of browsers, targets, tunnels and sockets, and whatever the network loses.
THEOREM NobodyIsForgotten == Spec => []TunnelInv
<1>1. IInv /\ EndsOk => TunnelInv
  BY InvTypes, InvForgetsNobody DEF TunnelInv
<1> QED BY <1>1, InvIsInductive, PTL

\* What a target says comes to its browser in order and complete, after the answer to
\* the request (OnFinderDataTransfer, xlord.cpp), for all values of the constants.
THEOREM DownStreamInOrder == Spec => []DownInOrder
<1>1. ASSUME IInv PROVE DownInOrder
  <2> DEFINE m == Head(toFinder)
  <2> SUFFICES ASSUME finder = "up", toFinder # <<>>, m.op = "DataTransfer",
                      NEW b \in Browsers, ToBrowser(m, b)
               PROVE  /\ info[b].state \in Proxying
                      /\ m.from = info[b].target /\ m.first = info[b].heard + 1
    BY DEF DownInOrder
  <2>1. /\ Typed(info, tunnidAssigner, toAdmit, toFinder, tunnSock)
        /\ FreshOk(info, tunnidAssigner, MsgsIn(toAdmit), MsgsIn(toFinder), tunnSock)
        /\ DownOk(info, toFinder, tunnSock, On)
    BY <1>1, Parts DEF IInv
  <2>2. info[b].state # "none" /\ info[b].tunnid = m.tid
    BY DEF ToBrowser, Present
  <2>3. toFinder \in Seq(FinderMsg) /\ m \in MsgsIn(toFinder)
    BY <2>1, Shifting DEF Typed
  <2>4. DownTo(info[b], toFinder, tunnSock[info[b].tunnid], On)
    BY <2>1, <2>2 DEF DownOk
  <2>5. /\ Chain(toFinder, m.tid, info[b].heard, TRUE)
        /\ \A j \in DOMAIN toFinder : toFinder[j].tid = m.tid /\ toFinder[j].op = "DataTransfer" =>
             /\ toFinder[j].from = info[b].target
             /\ info[b].state \in Waiting => Told(toFinder, m.tid, j)
    BY <2>2, <2>4 DEF DownTo
  <2> HIDE DEF m
  <2>6. 1 \in DOMAIN toFinder /\ m = toFinder[1] /\ m.first = info[b].heard + 1
    BY <2>3, <2>5, FirstOfChain DEF m
  <2>7. info[b].state \notin Early
    BY <2>1, <2>2, <2>3 DEF FreshOk, Silent
  <2>8. info[b].state \notin Waiting
    <3>1. ~Told(toFinder, m.tid, 1)
      BY DEF Told
    <3> QED BY <2>5, <2>6, <3>1
  <2>9. info[b].state \in Proxying
    BY <2>1, <2>2, <2>7, <2>8, Types
  <2> QED BY <2>5, <2>6, <2>9
<1> QED BY <1>1, InvIsInductive, PTL

\* What a browser says comes to its target once and in order (OnAdmitDataTransfer,
\* xlorb.cpp), unless a SOCK reply is made up in the place of what is cached.
THEOREM UpStreamInOrder ==
  ASSUME "SOCK" \notin Kinds
  PROVE  Spec => []UpInOrder
<1>1. Init => IInv /\ UInv
  BY InitOk
<1>2. IInv /\ UInv /\ [Next]_vars => (IInv /\ UInv)'
  BY NextKeeps DEF Keeps
<1>3. ASSUME IInv, UInv PROVE UpInOrder
  <2> DEFINE m == Head(toAdmit)
             t == m.tid
             base == tunnSock[t].heard
  <2> SUFFICES ASSUME toAdmit # <<>>, m.op = "DataTransfer", Has(t)
               PROVE  m.first = base + 1
    BY DEF UpInOrder
  <2>1. toAdmit \in Seq(AdmitMsg)
    BY <1>3, Facts
  <2>2. t \in Tunnids
    <3>1. m \in AdmitMsg
      BY <2>1, Shifting
    <3> QED BY <3>1 DEF AdmitMsg
  <2>3. Chain(toAdmit, t, base, TRUE)
    <3>1. Chain(toAdmit, t, base, tunnSock[t].st # "none")
      BY <1>3, <2>2 DEF UInv, UpOk
    <3> QED BY <3>1 DEF Has, Chain
  <2> HIDE DEF base
  <2> QED BY <2>1, <2>3, FirstOfChain
<1> QED BY <1>1, <1>2, <1>3, PTL DEF Spec

\* No tunnel costs the session: xlorb finds no id taken when it is asked for
\* (OnAdmitOpenTo), and doConnect does not fail at once if every target that cannot be
\* connected to is asked for by its name.
THEOREM NoTunnelCostsTheSession ==
  ASSUME Unreachable \subseteq Names
  PROVE  Spec => []SessionStays
<1>1. Init => SessionStays
  BY DEF Init, SessionStays
<1>2. ASSUME IInv, SessionStays, [Next]_vars PROVE SessionStays'
  <2>1. CASE UNCHANGED vars
    BY <1>2, <2>1 DEF vars, SessionStays
  <2>2. CASE \E b \in Browsers :
               OnAccept(b) \/ OnRecv(b) \/ \E byRemote \in BOOLEAN : OnDisconnect(b, byRemote)
    BY <1>2, <2>2 DEF OnAccept, OnRecv, OnDisconnect, SessionStays
  <2>3. CASE OnFinderMessage \/ FinderClose
    BY <1>2, <2>3 DEF OnFinderMessage, FinderClose, SessionStays
  <2>4. CASE AdmitClose
    BY <2>4 DEF AdmitClose, SessionStays
  <2>5. CASE OnAdmitMessage
    <3> DEFINE m == Head(toAdmit)
    <3>1. CASE m.op = "OpenTo" /\ OnAdmitOpenTo(m)
      <4>1. m \in MsgsIn(toAdmit)
        <5>1. toAdmit # <<>>
          BY <2>5 DEF OnAdmitMessage
        <5> QED BY <1>2, <5>1, Facts, Shifting
      <4>2. ~Has(m.tid)
        <5>1. OpenOk(info, MsgsIn(toAdmit), MsgsIn(toFinder), tunnSock)
          BY <1>2, Parts DEF IInv
        <5> QED BY <3>1, <4>1, <5>1 DEF OpenOk, Has
      <4>3. Connecting(m.target) # "failed"
        BY DEF Connecting
      <4> QED BY <1>2, <3>1, <4>2, <4>3 DEF OnAdmitOpenTo, SessionStays
    <3>2. CASE OnAdmitDataTransfer(m)
      BY <1>2, <3>2 DEF OnAdmitDataTransfer, SessionStays
    <3>3. CASE OnAdmitCloseTunnel(m)
      BY <1>2, <3>3 DEF OnAdmitCloseTunnel, SessionStays
    <3> QED BY <2>5, <3>1, <3>2, <3>3 DEF OnAdmitMessage
  <2>6. CASE \E t \in Tunnids :
               \/ OnDnsParsed(t) \/ OnTargetRecv(t)
               \/ \E success \in BOOLEAN : OnConnect(t, success)
               \/ \E byRemote \in BOOLEAN : OnTargetDisconnect(t, byRemote)
    BY <1>2, <2>6
       DEF OnDnsParsed, OnTargetRecv, OnConnect, OnTargetDisconnect, SockStep, SessionStays
  <2> QED BY <1>2, <2>1, <2>2, <2>3, <2>4, <2>5, <2>6 DEF Next
<1> QED BY <1>1, <1>2, InvIsInductive, PTL DEF Spec
=============================================================================
