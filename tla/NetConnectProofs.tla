-------------------------- MODULE NetConnectProofs --------------------------
(***************************************************************************)
(* Proofs about NetConnect, for any peers, names and packets: nobody waits *)
(* in vain but those whose answer is lost in a way that the model names,   *)
(* and what a ConnID is told is about its own peer.                        *)
(***************************************************************************)
EXTENDS NetConnect, SequenceTheorems, TLAPS

-----------------------------------------------------------------------------
(* What is in the queue.                                                   *)

SpecIn(q, d) == \E k \in DOMAIN q : q[k].type = "SPECIFIC" /\ q[k].id = d

\* No name fails twice.
SpecOnce(q) ==
  \A k, j \in DOMAIN q :
    q[k].type = "SPECIFIC" /\ q[j].type = "SPECIFIC" /\ q[k].id = q[j].id => k = j

Ends(p, a) == p.type = "ENDED" /\ p.sa = a
Lists(p, a) == p.type \in {"ACCEPTED", "INCOMING"} /\ p.sa = a

NoEnd(q, a) == \A k \in DOMAIN q : ~Ends(q[k], a)
ListsLast(q, a) ==
  \E j \in DOMAIN q : Lists(q[j], a) /\ \A k \in DOMAIN q : k >= j => ~Ends(q[k], a)

\* The helper's refusals come after a result about the helper itself.
Refusal(p) == p.type = "NAT_FAILED" /\ p.sa = Aid
Behind(q) ==
  \A j \in DOMAIN q : Refusal(q[j]) => \E k \in DOMAIN q : k < j /\ Result(q[k], Aid)

IsNat(p, t) == p.type \in {"SUCCEEDED", "NAT_FAILED"} /\ p.id = t
IsSpec(p, d) == p.type = "SPECIFIC" /\ p.id = d

PacketOk(p) ==
  \/ p.type = "SPECIFIC" /\ p.sa = NULL /\ p.id \in Domains
  \/ p.type = "NAT_FAILED" /\ p.id \in Targets /\ p.sa \in {p.id, Aid}
  \/ p.type = "SUCCEEDED" /\ p.id \in Targets /\ p.sa = p.id
  \/ p.type \in {"ACCEPTED", "FAILED", "REFUSED", "INCOMING", "ENDED"} /\ p.sa \in Addrs /\ p.id = p.sa

QueueOk(q) == \A k \in DOMAIN q : PacketOk(q[k])

\* q2 is q with m at its end, or in front of it.
Grown(q2, q, m) ==
  /\ QueueOk(q) /\ PacketOk(m) => QueueOk(q2)
  /\ \A a : ResultIn(q2, a) <=> ResultIn(q, a) \/ Result(m, a)
  /\ \A a : TwoIn(q2, a) <=> TwoIn(q, a) \/ (ResultIn(q, a) /\ Result(m, a))
  /\ \A t : NatIn(q2, t) <=> NatIn(q, t) \/ IsNat(m, t)
  /\ \A d : SpecIn(q2, d) <=> SpecIn(q, d) \/ IsSpec(m, d)
  /\ SpecOnce(q) /\ (m.type = "SPECIFIC" => ~SpecIn(q, m.id)) => SpecOnce(q2)
  /\ \A a : NoEnd(q, a) /\ ~Ends(m, a) => NoEnd(q2, a)

Order(q2, q, m) ==
  /\ \A a : ListsLast(q, a) /\ ~Ends(m, a) => ListsLast(q2, a)
  /\ \A a : Lists(m, a) => ListsLast(q2, a)
  /\ Behind(q) /\ (Refusal(m) => ResultIn(q, Aid)) => Behind(q2)

\* Where i is the place of m, and at[k] that of the packet that was at k.
Placed(q2, q, m, i, at) ==
  /\ i \in DOMAIN q2 /\ q2[i] = m
  /\ \A x \in DOMAIN q2 : x = i \/ \E k \in DOMAIN q : x = at[k]
  /\ \A k \in DOMAIN q : at[k] \in DOMAIN q2 /\ q2[at[k]] = q[k] /\ at[k] # i
  /\ \A k, j \in DOMAIN q : at[k] = at[j] => k = j

LEMMA GrownBy ==
  ASSUME NEW q, NEW q2, NEW m, NEW i, NEW at, Placed(q2, q, m, i, at)
  PROVE  Grown(q2, q, m)
<1> USE DEF Placed
<1>1. QueueOk(q) /\ PacketOk(m) => QueueOk(q2)
  BY DEF QueueOk
<1>2. \A a : ResultIn(q2, a) <=> ResultIn(q, a) \/ Result(m, a)
  BY DEF ResultIn
<1>3. ASSUME NEW a PROVE TwoIn(q2, a) <=> TwoIn(q, a) \/ (ResultIn(q, a) /\ Result(m, a))
  <2>1. ASSUME TwoIn(q2, a) PROVE TwoIn(q, a) \/ (ResultIn(q, a) /\ Result(m, a))
    BY <2>1 DEF TwoIn, ResultIn
  <2>2. ASSUME TwoIn(q, a) PROVE TwoIn(q2, a)
    BY <2>2 DEF TwoIn
  <2>3. ASSUME ResultIn(q, a), Result(m, a) PROVE TwoIn(q2, a)
    BY <2>3 DEF TwoIn, ResultIn
  <2> QED BY <2>1, <2>2, <2>3
<1>4. \A t : NatIn(q2, t) <=> NatIn(q, t) \/ IsNat(m, t)
  BY DEF NatIn, IsNat
<1>5. \A d : SpecIn(q2, d) <=> SpecIn(q, d) \/ IsSpec(m, d)
  BY DEF SpecIn, IsSpec
<1>6. \A a : NoEnd(q, a) /\ ~Ends(m, a) => NoEnd(q2, a)
  BY DEF NoEnd
<1>7. SpecOnce(q) /\ (m.type = "SPECIFIC" => ~SpecIn(q, m.id)) => SpecOnce(q2)
  BY DEF SpecOnce, SpecIn
<1> QED BY <1>1, <1>2, <1>3, <1>4, <1>5, <1>6, <1>7 DEF Grown

LEMMA Appending ==
  ASSUME NEW S, NEW q \in Seq(S), NEW m \in S
  PROVE  /\ Append(q, m) \in Seq(S) /\ q \o <<m>> = Append(q, m)
         /\ Grown(Append(q, m), q, m) /\ Order(Append(q, m), q, m)
<1> DEFINE q2 == Append(q, m)
           n == Len(q)
           at == [k \in DOMAIN q |-> k]
<1>1. /\ q2 \in Seq(S) /\ q \o <<m>> = q2 /\ n \in Nat
      /\ DOMAIN q = 1 .. n /\ DOMAIN q2 = 1 .. n + 1
      /\ q2[n + 1] = m
  OBVIOUS
<1>2. \A k \in 1 .. n : q2[k] = q[k]
  OBVIOUS
<1> HIDE DEF q2, n
<1>3. \A k \in DOMAIN q :
        at[k] \in DOMAIN q2 /\ q2[at[k]] = q[k] /\ at[k] # n + 1 /\ at[k] = k
  BY <1>1, <1>2
<1>4. \A x \in DOMAIN q2 : x = n + 1 \/ \E k \in DOMAIN q : x = at[k]
  BY <1>1
<1> HIDE DEF at
<1>5. Grown(q2, q, m)
  <2>1. n + 1 \in DOMAIN q2 /\ \A k, j \in DOMAIN q : at[k] = at[j] => k = j
    BY <1>1, <1>3
  <2>2. Placed(q2, q, m, n + 1, at)
    BY <1>1, <1>3, <1>4, <2>1 DEF Placed
  <2> QED BY <2>2, GrownBy
<1>6. Order(q2, q, m)
  <2>1. ASSUME NEW a, ListsLast(q, a), ~Ends(m, a) PROVE ListsLast(q2, a)
    <3>1. PICK j \in DOMAIN q : Lists(q[j], a) /\ \A k \in DOMAIN q : k >= j => ~Ends(q[k], a)
      BY <2>1 DEF ListsLast
    <3>2. j \in DOMAIN q2 /\ Lists(q2[j], a)
      BY <1>1, <1>2, <3>1
    <3>3. \A k \in DOMAIN q2 : k >= j => ~Ends(q2[k], a)
      BY <1>1, <1>2, <2>1, <3>1
    <3> QED BY <3>2, <3>3 DEF ListsLast
  <2>2. ASSUME NEW a, Lists(m, a) PROVE ListsLast(q2, a)
    <3>1. ~Ends(m, a)
      BY <2>2 DEF Lists, Ends
    <3> QED BY <1>1, <2>2, <3>1 DEF ListsLast
  <2>3. ASSUME Behind(q), Refusal(m) => ResultIn(q, Aid) PROVE Behind(q2)
    <3> SUFFICES ASSUME NEW j \in DOMAIN q2, Refusal(q2[j])
                 PROVE  \E k \in DOMAIN q2 : k < j /\ Result(q2[k], Aid)
      BY DEF Behind
    <3>1. CASE j = n + 1
      BY <1>1, <1>2, <2>3, <3>1 DEF ResultIn
    <3>2. CASE j \in 1 .. n
      BY <1>1, <1>2, <2>3, <3>2 DEF Behind
    <3> QED BY <1>1, <3>1, <3>2
  <2> QED BY <2>1, <2>2, <2>3 DEF Order
<1> QED BY <1>1, <1>5, <1>6 DEF q2

LEMMA Fronting ==
  ASSUME NEW S, NEW q \in Seq(S), NEW m \in S
  PROVE  /\ <<m>> \o q \in Seq(S)
         /\ Grown(<<m>> \o q, q, m)
         /\ \A a : ListsLast(q, a) => ListsLast(<<m>> \o q, a)
         /\ Behind(q) /\ ~Refusal(m) => Behind(<<m>> \o q)
<1> DEFINE u == <<m>>
           q2 == u \o q
           n == Len(q)
           at == [k \in DOMAIN q |-> k + 1]
<1>1. u \in Seq(S) /\ Len(u) = 1 /\ u[1] = m /\ n \in Nat /\ DOMAIN q = 1 .. n
  OBVIOUS
<1> HIDE DEF u
<1>2. /\ q2 \in Seq(S) /\ Len(q2) = Len(u) + n
      /\ \A i \in 1 .. Len(u) + n : q2[i] = IF i <= Len(u) THEN u[i] ELSE q[i - Len(u)]
  BY <1>1, ConcatProperties
<1> HIDE DEF q2
<1>3. DOMAIN q2 = 1 .. n + 1 /\ q2[1] = m
  BY <1>1, <1>2
<1> HIDE DEF n
<1>4. \A k \in 1 .. n : q2[k + 1] = q[k]
  <2> TAKE k \in 1 .. n
  <2>1. k + 1 \in 1 .. 1 + n /\ ~(k + 1 <= 1) /\ (k + 1) - 1 = k
    BY <1>1
  <2> QED BY <1>1, <1>2, <2>1 DEF n
<1>5. \A k \in DOMAIN q :
        at[k] \in DOMAIN q2 /\ q2[at[k]] = q[k] /\ at[k] # 1 /\ at[k] = k + 1
  BY <1>1, <1>3, <1>4
<1>6. \A x \in DOMAIN q2 : x = 1 \/ \E k \in DOMAIN q : x = at[k]
  <2> SUFFICES ASSUME NEW x \in DOMAIN q2, x # 1 PROVE \E k \in DOMAIN q : x = at[k]
    OBVIOUS
  <2>1. x - 1 \in 1 .. n /\ x = (x - 1) + 1
    BY <1>1, <1>3
  <2> QED BY <1>1, <2>1
<1>7. 1 \in DOMAIN q2 /\ \A k, j \in DOMAIN q : at[k] = at[j] => k = j
  BY <1>1, <1>3
<1> HIDE DEF at
<1>8. Grown(q2, q, m)
  <2>1. Placed(q2, q, m, 1, at)
    BY <1>3, <1>5, <1>6, <1>7 DEF Placed
  <2> QED BY <2>1, GrownBy
<1>9. ASSUME NEW a, ListsLast(q, a) PROVE ListsLast(q2, a)
  <2>1. PICK j \in DOMAIN q : Lists(q[j], a) /\ \A k \in DOMAIN q : k >= j => ~Ends(q[k], a)
    BY <1>9 DEF ListsLast
  <2>2. j + 1 \in DOMAIN q2 /\ Lists(q2[j + 1], a)
    BY <1>1, <1>3, <1>4, <2>1
  <2>3. ASSUME NEW k \in DOMAIN q2, k >= j + 1 PROVE ~Ends(q2[k], a)
    <3>1. k - 1 \in 1 .. n /\ k - 1 >= j /\ (k - 1) + 1 = k
      BY <1>1, <1>3, <2>1, <2>3
    <3> QED BY <1>1, <1>4, <2>1, <3>1
  <2> QED BY <2>2, <2>3 DEF ListsLast
<1>10. ASSUME Behind(q), ~Refusal(m) PROVE Behind(q2)
  <2> SUFFICES ASSUME NEW j \in 1 .. n + 1, Refusal(q2[j])
               PROVE  \E k \in 1 .. n + 1 : k < j /\ Result(q2[k], Aid)
    BY <1>3 DEF Behind
  <2>1. j - 1 \in 1 .. n /\ (j - 1) + 1 = j
    BY <1>1, <1>3, <1>10
  <2>2. PICK k \in 1 .. n : k < j - 1 /\ Result(q[k], Aid)
    BY <1>1, <1>4, <1>10, <2>1 DEF Behind
  <2>3. k + 1 \in 1 .. n + 1 /\ k + 1 < j /\ Result(q2[k + 1], Aid)
    BY <1>1, <1>4, <2>1, <2>2
  <2> QED BY <2>3
<1> QED BY <1>2, <1>8, <1>9, <1>10 DEF q2, u

LEMMA Taking ==
  ASSUME NEW S, NEW q \in Seq(S), q # <<>>
  PROVE  /\ Tail(q) \in Seq(S) /\ Head(q) \in S
         /\ Grown(q, Tail(q), Head(q))
         /\ QueueOk(q) => QueueOk(Tail(q)) /\ PacketOk(Head(q))
         /\ SpecOnce(q) => SpecOnce(Tail(q)) /\ \A d : IsSpec(Head(q), d) => ~SpecIn(Tail(q), d)
         /\ \A a : NoEnd(q, a) => NoEnd(Tail(q), a) /\ ~Ends(Head(q), a)
         /\ \A a : ListsLast(q, a) =>
              ListsLast(Tail(q), a) \/ (Lists(Head(q), a) /\ NoEnd(Tail(q), a))
         /\ Behind(q) => ~Refusal(Head(q)) /\ (Behind(Tail(q)) \/ Result(Head(q), Aid))
<1> DEFINE T == Tail(q)
           n == Len(T)
           at == [k \in DOMAIN T |-> k + 1]
<1>1. /\ T \in Seq(S) /\ Head(q) \in S /\ Head(q) = q[1] /\ Len(q) = n + 1 /\ n \in Nat
      /\ DOMAIN T = 1 .. n /\ DOMAIN q = 1 .. n + 1
  OBVIOUS
<1>2. \A k \in 1 .. n : q[k + 1] = T[k]
  OBVIOUS
<1> HIDE DEF T, n
<1>3. \A i \in 1 .. n + 1 : i = 1 \/ (i - 1 \in 1 .. n /\ i = (i - 1) + 1 /\ q[i] = T[i - 1])
  <2> TAKE i \in 1 .. n + 1
  <2>1. i = 1 \/ (i - 1 \in 1 .. n /\ i = (i - 1) + 1)
    BY <1>1
  <2> QED BY <1>2, <2>1
<1>4. Grown(q, T, Head(q))
  <2>1. \A k \in DOMAIN T :
          at[k] \in DOMAIN q /\ q[at[k]] = T[k] /\ at[k] # 1 /\ at[k] = k + 1
    BY <1>1, <1>2
  <2>2. \A x \in DOMAIN q : x = 1 \/ \E k \in DOMAIN T : x = at[k]
    <3> SUFFICES ASSUME NEW x \in DOMAIN q, x # 1 PROVE \E k \in DOMAIN T : x = at[k]
      OBVIOUS
    <3>1. x - 1 \in 1 .. n /\ x = (x - 1) + 1
      BY <1>1, <1>3
    <3> QED BY <1>1, <3>1
  <2>3. 1 \in DOMAIN q /\ q[1] = Head(q) /\ \A k, j \in DOMAIN T : at[k] = at[j] => k = j
    BY <1>1
  <2> HIDE DEF at
  <2>4. Placed(q, T, Head(q), 1, at)
    BY <2>1, <2>2, <2>3 DEF Placed
  <2> QED BY <2>4, GrownBy
<1>5. 1 \in DOMAIN q /\ \A k \in DOMAIN T : k + 1 \in DOMAIN q /\ q[k + 1] = T[k]
  BY <1>1, <1>2
<1>6. QueueOk(q) => QueueOk(T) /\ PacketOk(Head(q))
  BY <1>1, <1>5 DEF QueueOk
<1>7. \A a : NoEnd(q, a) => NoEnd(T, a) /\ ~Ends(Head(q), a)
  BY <1>1, <1>5 DEF NoEnd
<1>10. ASSUME SpecOnce(q) PROVE SpecOnce(T) /\ \A d : IsSpec(Head(q), d) => ~SpecIn(T, d)
  <2>1. \A k \in DOMAIN T : k + 1 # 1
    BY <1>1
  <2>2. \A k, j \in DOMAIN T : k + 1 = j + 1 => k = j
    BY <1>1
  <2>3. SpecOnce(T)
    BY <1>5, <1>10, <2>2 DEF SpecOnce
  <2>4. ASSUME NEW d, IsSpec(Head(q), d), NEW k \in DOMAIN T, T[k].type = "SPECIFIC", T[k].id = d
        PROVE  FALSE
    BY <1>1, <1>5, <1>10, <2>1, <2>4 DEF SpecOnce, IsSpec
  <2> QED BY <2>3, <2>4 DEF SpecIn
<1>8. ASSUME NEW a, ListsLast(q, a) PROVE ListsLast(T, a) \/ (Lists(Head(q), a) /\ NoEnd(T, a))
  <2>1. PICK j \in DOMAIN q : Lists(q[j], a) /\ \A k \in DOMAIN q : k >= j => ~Ends(q[k], a)
    BY <1>8 DEF ListsLast
  <2>2. CASE j = 1
    <3>1. \A k \in DOMAIN T : ~Ends(T[k], a)
      BY <1>1, <1>5, <2>1, <2>2
    <3> QED BY <1>1, <2>1, <2>2, <3>1 DEF NoEnd
  <2>3. CASE j # 1
    <3>1. j - 1 \in DOMAIN T /\ Lists(T[j - 1], a)
      BY <1>1, <1>3, <2>1, <2>3
    <3>2. ASSUME NEW k \in DOMAIN T, k >= j - 1 PROVE ~Ends(T[k], a)
      <4>1. k + 1 \in DOMAIN q /\ k + 1 >= j /\ q[k + 1] = T[k]
        BY <1>1, <1>5, <3>2
      <4> QED BY <2>1, <4>1
    <3> QED BY <3>1, <3>2 DEF ListsLast
  <2> QED BY <2>2, <2>3
<1>9. ASSUME Behind(q) PROVE ~Refusal(Head(q)) /\ (Behind(T) \/ Result(Head(q), Aid))
  <2>1. ~Refusal(q[1])
    <3>1. \A k \in DOMAIN q : ~(k < 1)
      BY <1>1
    <3> QED BY <1>5, <1>9, <3>1 DEF Behind
  <2>2. ASSUME ~Result(q[1], Aid), NEW j \in 1 .. n, Refusal(T[j])
        PROVE  \E k \in 1 .. n : k < j /\ Result(T[k], Aid)
    <3>1. PICK k \in 1 .. n + 1 : k < j + 1 /\ Result(q[k], Aid)
      BY <1>1, <1>5, <1>9, <2>2 DEF Behind
    <3>2. k - 1 \in 1 .. n /\ k - 1 < j /\ Result(T[k - 1], Aid)
      BY <1>1, <1>3, <2>2, <3>1
    <3> QED BY <3>2
  <2> QED BY <1>1, <2>1, <2>2 DEF Behind
<1> QED BY <1>1, <1>4, <1>6, <1>7, <1>8, <1>9, <1>10 DEF T

-----------------------------------------------------------------------------
(* The maps.                                                               *)

\* g is f with v at k, and g is f without the keys in S.
With(g, f, k, v) ==
  /\ DOMAIN g = DOMAIN f \cup {k} /\ g[k] = v
  /\ \A c \in DOMAIN f : c # k => g[c] = f[c]

Less(g, f, S) == DOMAIN g = DOMAIN f \ S /\ \A c \in DOMAIN g : g[c] = f[c]

LEMMA Putting ==
  ASSUME NEW f, NEW k, NEW v
  PROVE  With(Put(f, k, v), f, k, v)
BY DEF With, Put

LEMMA Removing ==
  ASSUME NEW f, NEW S
  PROVE  Less(Without(f, S), f, S)
BY DEF Less, Without, Restrict

\* ConnIDs of the three kinds.
LEMMA Apart ==
  /\ \A a \in Addrs : a \in ConnIDs /\ a \notin Domains /\ a # NULL
  /\ \A d \in Domains : d \in ConnIDs /\ d \notin Addrs /\ d # NULL
  /\ \A t \in Targets : /\ t \in Addrs /\ t # Aid /\ Ex(t) \in ConnIDs
                        /\ Ex(t) \notin Addrs /\ Ex(t) \notin Domains /\ Ex(t) # NULL
  /\ \A t, u \in Targets : Ex(t) = Ex(u) => t = u
  /\ \A c \in ConnIDs : c \in Addrs \/ c \in Domains \/ \E t \in Targets : c = Ex(t)
  /\ Aid \in Addrs /\ Resolvable \subseteq Addrs
<1>1. \A t, u \in Targets : Ex(t) = Ex(u) => t = u
  BY DEF Ex
<1> QED BY <1>1, NetAssumption DEF Ex, ConnIDs

-----------------------------------------------------------------------------
(* The inductive invariant.                                                *)

MapOk(inf) == DOMAIN inf \subseteq ConnIDs /\ \A c \in DOMAIN inf : inf[c] \in ConnInfo

\* An entry of an address is that of a direct connect, of a name that has led
\* to the address, of both, or of the way to it that a helper has opened.
EntryOk(inf, res, a) ==
  \/ inf[a].status = "Connecting" /\ inf[a].targetID \in {a, NULL}
  \/ LET d == inf[a].directConn
     IN /\ inf[a].status \in {"DomainResolve", "ConnectingMulti"}
        /\ d \in Domains \cap DOMAIN inf /\ inf[a].targetID = d
        /\ inf[d].directConn = a /\ d \notin res /\ a \in Resolvable
  \/ inf[a].status = "ConnOnAdvance" /\ a \in Targets /\ inf[a].targetID = a

EntriesOk(inf, res) ==
  /\ \A a \in Addrs \cap DOMAIN inf : EntryOk(inf, res, a)
  /\ \A d \in Domains \cap DOMAIN inf : inf[d].targetID = d
  /\ \A t \in Targets : Ex(t) \in DOMAIN inf => inf[Ex(t)].targetID = t
  /\ res \subseteq DOMAIN inf

\* A name that has failed is forgotten, and its ConnID not told yet.
SpecOk(q, inf, res, w) ==
  res \subseteq w /\ SpecOnce(q) /\ \A d \in Domains : SpecIn(q, d) => d \in w /\ d \notin DOMAIN inf

\* The ConnIDs whose answer is not lost.
Owed == waiting \ forsaken

AddrOk(a) == a \in Owed => a \in Owners(a) /\ Pending(a)

NameOk(d) ==
  d \in Owed => \/ d \in resolving
                \/ SpecIn(queue, d)
                \/ \E a \in Addrs : d \in Owners(a) /\ Pending(a)

ExOk(t) ==
  Ex(t) \in Owed =>
    /\ Ex(t) \in DOMAIN info
    /\ NatPending(t) \/ (Ex(t) \in Owners(t) /\ Pending(t)) \/ OneForEx(t)

\* A connect may join an entry: those that it answers wait, and their result is
\* on its way or known to be lost.
EntryLives(a) ==
  a \in DOMAIN info /\ info[a].status # "ConnOnAdvance" =>
    Owners(a) \subseteq waiting /\ (Pending(a) \/ Dead(a))

WaitsOk ==
  /\ \A a \in Addrs : AddrOk(a) /\ EntryLives(a)
  /\ \A d \in Domains : NameOk(d)
  /\ \A t \in Targets : ExOk(t)

\* What the notices on their way will make of a connected peer.
ListedOk(q, r, ps) ==
  \A a \in Addrs : r[a] = "connected" => (a \in ps /\ NoEnd(q, a)) \/ ListsLast(q, a)

IInv ==
  /\ TypeOK
  /\ QueueOk(queue)
  /\ EntriesOk(info, resolving)
  /\ SpecOk(queue, info, resolving, waiting)
  /\ WaitsOk
  /\ ListedOk(queue, rak, peers)

LEMMA OwnersAre ==
  ASSUME NEW inf, NEW res, NEW a \in Addrs, EntriesOk(inf, res)
  PROVE  /\ a \notin DOMAIN inf => OwnersIn(inf, a) = {}
         /\ a \in DOMAIN inf =>
              \/ inf[a].status = "Connecting" /\ OwnersIn(inf, a) = {a}
              \/ /\ inf[a].status = "DomainResolve" /\ OwnersIn(inf, a) = {inf[a].directConn}
                 /\ inf[a].directConn \in Domains \cap DOMAIN inf
                 /\ inf[inf[a].directConn].directConn = a
              \/ /\ inf[a].status = "ConnectingMulti" /\ OwnersIn(inf, a) = {a, inf[a].directConn}
                 /\ inf[a].directConn \in Domains \cap DOMAIN inf
                 /\ inf[inf[a].directConn].directConn = a
              \/ inf[a].status = "ConnOnAdvance" /\ OwnersIn(inf, a) = {Ex(a)} /\ a \in Targets
<1> SUFFICES ASSUME a \in DOMAIN inf
             PROVE  \/ inf[a].status = "Connecting" /\ OwnersIn(inf, a) = {a}
                    \/ /\ inf[a].status = "DomainResolve"
                       /\ OwnersIn(inf, a) = {inf[a].directConn}
                       /\ inf[a].directConn \in Domains \cap DOMAIN inf
                       /\ inf[inf[a].directConn].directConn = a
                    \/ /\ inf[a].status = "ConnectingMulti"
                       /\ OwnersIn(inf, a) = {a, inf[a].directConn}
                       /\ inf[a].directConn \in Domains \cap DOMAIN inf
                       /\ inf[inf[a].directConn].directConn = a
                    \/ inf[a].status = "ConnOnAdvance" /\ OwnersIn(inf, a) = {Ex(a)} /\ a \in Targets
  BY DEF OwnersIn
<1>1. EntryOk(inf, res, a)
  BY DEF EntriesOk
<1> QED BY <1>1 DEF EntryOk, OwnersIn

\* Nobody has two answers under way: an owner belongs to one entry.
LEMMA OwnedOnce ==
  ASSUME NEW inf, NEW res, EntriesOk(inf, res), NEW a \in Addrs, NEW b \in Addrs,
         NEW c, c \in OwnersIn(inf, a), c \in OwnersIn(inf, b)
  PROVE  a = b
BY OwnersAre, Apart

-----------------------------------------------------------------------------
(* What a step leaves alone.                                               *)

\* The step changes no entry of the address, and loses no result about it.
Undisturbed(b) ==
  /\ b \in DOMAIN info' <=> b \in DOMAIN info
  /\ b \in DOMAIN info => info'[b] = info[b]
  /\ Pending(b) => Pending(b)'
  /\ PendingTwice(b) => PendingTwice(b)'

LEMMA OwnersKeep ==
  ASSUME NEW b, Undisturbed(b)
  PROVE  Owners(b)' = Owners(b)
BY DEF Undisturbed, Owners, OwnersIn

LEMMA AddrKeeps ==
  ASSUME NEW b, Undisturbed(b), AddrOk(b), EntryLives(b),
         b \in Owed' => b \in Owed,
         b \in DOMAIN info /\ info[b].status # "ConnOnAdvance" =>
           \A c \in Owners(b) : c \in waiting => c \in waiting' /\ (c \in forsaken => c \in forsaken')
  PROVE  AddrOk(b)' /\ EntryLives(b)'
<1>1. Owners(b)' = Owners(b)
  BY OwnersKeep
<1>2. AddrOk(b)'
  BY <1>1 DEF AddrOk, Undisturbed
<1>3. EntryLives(b)'
  BY <1>1 DEF EntryLives, Undisturbed, Dead
<1> QED BY <1>2, <1>3

LEMMA NameKeeps ==
  ASSUME NEW d, NameOk(d), d \in Owed' => d \in Owed,
         d \in resolving => d \in resolving',
         SpecIn(queue, d) => SpecIn(queue, d)',
         \A b \in Addrs : d \in Owners(b) => Undisturbed(b)
  PROVE  NameOk(d)'
<1> SUFFICES ASSUME d \in Owed', NEW a \in Addrs, d \in Owners(a), Pending(a)
             PROVE  d \in Owners(a)' /\ Pending(a)'
  BY DEF NameOk
<1>1. Undisturbed(a)
  OBVIOUS
<1> QED BY <1>1, OwnersKeep DEF Undisturbed

LEMMA ExKeeps ==
  ASSUME NEW t, Undisturbed(t), ExOk(t), Ex(t) \in Owed' => Ex(t) \in Owed,
         Ex(t) \in DOMAIN info => Ex(t) \in DOMAIN info',
         Ex(t) \in Owed' /\ NatPending(t) => NatPending(t)'
  PROVE  ExOk(t)'
<1>1. Owners(t)' = Owners(t)
  BY OwnersKeep
<1>2. OneForEx(t) => OneForEx(t)'
  BY DEF OneForEx, Undisturbed
<1> QED BY <1>1, <1>2 DEF ExOk, Undisturbed

\* A packet about a is posted; the attempt at a goes on, or is what it is about.
LEMMA Posting ==
  ASSUME NEW a, NEW m, Grown(queue', queue, m),
         \A b \in Addrs : b # a => rak'[b] = rak[b],
         Trying(a) => Trying(a)' \/ Result(m, a),
         NEW b \in Addrs
  PROVE  (Pending(b) => Pending(b)') /\ (PendingTwice(b) => PendingTwice(b)')
<1>1. CASE b # a
  BY <1>1 DEF Pending, PendingTwice, Trying, Grown
<1>2. CASE b = a
  BY <1>2 DEF Pending, PendingTwice, Grown
<1> QED BY <1>1, <1>2

\* The engine touches no entry: it may have told a name that has none.
LEMMA Quiet ==
  ASSUME IInv, UNCHANGED <<info, resolving>>,
         waiting' \subseteq waiting, forsaken' \subseteq waiting',
         \A c \in forsaken : c \in waiting' => c \in forsaken',
         \A c \in waiting : c \in waiting' \/ c \notin DOMAIN info,
         \A b \in Addrs : (Pending(b) => Pending(b)') /\ (PendingTwice(b) => PendingTwice(b)'),
         \A d \in Domains : SpecIn(queue, d) => SpecIn(queue, d)' \/ d \notin waiting',
         \A t \in Targets : NatPending(t) /\ Ex(t) \in waiting' => NatPending(t)' \/ Ex(t) \in forsaken'
  PROVE  WaitsOk' /\ EntriesOk(info, resolving)'
<1>2. \A c : c \in Owed' => c \in Owed
  BY DEF Owed
<1>3. \A b \in Addrs : Undisturbed(b)
  BY DEF Undisturbed
<1>4. ASSUME NEW b \in Addrs PROVE AddrOk(b)' /\ EntryLives(b)'
  <2>1. b \in DOMAIN info /\ info[b].status # "ConnOnAdvance" => \A c \in Owners(b) : c \in DOMAIN info
    BY OwnersAre DEF IInv, Owners
  <2>2. b \in DOMAIN info /\ info[b].status # "ConnOnAdvance" =>
           \A c \in Owners(b) : c \in waiting => c \in waiting' /\ (c \in forsaken => c \in forsaken')
    BY <2>1
  <2> QED BY <1>2, <1>3, <2>2, AddrKeeps DEF IInv, WaitsOk
<1>5. ASSUME NEW d \in Domains PROVE NameOk(d)'
  <2>1. CASE d \in waiting'
    BY <1>2, <1>3, <2>1, NameKeeps DEF IInv, WaitsOk
  <2>2. CASE d \notin waiting'
    BY <2>2 DEF NameOk, Owed
  <2> QED BY <2>1, <2>2
<1>6. ASSUME NEW t \in Targets PROVE ExOk(t)'
  <2>1. Ex(t) \in Owed' /\ NatPending(t) => NatPending(t)'
    BY DEF Owed
  <2>2. t \in Addrs
    BY Apart
  <2> QED BY <1>2, <1>3, <2>1, <2>2, ExKeeps DEF IInv, WaitsOk
<1>7. EntriesOk(info, resolving)'
  BY DEF IInv, EntriesOk, EntryOk
<1> QED BY <1>4, <1>5, <1>6, <1>7 DEF WaitsOk

\* RakPeer's thread, and what the helper no longer answers is written down.
LEMMA EngineQuiet ==
  ASSUME IInv, EngineKeeps, nat' \subseteq nat, Forsake({Ex(t) : t \in nat \ nat'}),
         \A b \in Addrs : (Pending(b) => Pending(b)') /\ (PendingTwice(b) => PendingTwice(b)'),
         \A d \in Domains : SpecIn(queue, d) => SpecIn(queue, d)',
         \A t \in Targets : NatIn(queue, t) => NatIn(queue, t)'
  PROVE  WaitsOk' /\ forsaken' \subseteq waiting' /\ EntriesOk(info, resolving)'
<1> USE DEF EngineKeeps
<1>1. forsaken' \subseteq waiting' /\ forsaken \subseteq forsaken'
      /\ \A t \in nat : Ex(t) \in waiting' => t \in nat' \/ Ex(t) \in forsaken'
  BY DEF Forsake, IInv, TypeOK
<1>2. \A t \in Targets : NatPending(t) /\ Ex(t) \in waiting' => NatPending(t)' \/ Ex(t) \in forsaken'
  BY <1>1 DEF NatPending
<1> QED BY <1>1, <1>2, Quiet

-----------------------------------------------------------------------------
(* RakPeer's thread.                                                       *)

Notices == {"ACCEPTED", "FAILED", "REFUSED", "INCOMING", "ENDED"}

\* What a notice about an address adds to the queue.
LEMMA NoticeIs ==
  ASSUME NEW a \in Addrs, NEW type \in Notices
  PROVE  /\ About(type, a) \in Packet /\ PacketOk(About(type, a))
         /\ \A d : ~IsSpec(About(type, a), d)
         /\ \A b : Ends(About(type, a), b) <=> b = a /\ type = "ENDED"
         /\ \A b : Lists(About(type, a), b) <=> b = a /\ type \in {"ACCEPTED", "INCOMING"}
         /\ \A b : Result(About(type, a), b) <=> b = a /\ type \in {"ACCEPTED", "FAILED", "REFUSED"}
         /\ \A t : ~IsNat(About(type, a), t)
         /\ ~Refusal(About(type, a)) /\ About(type, a).type = type
BY DEF About, Packet, Types, PacketOk, IsSpec, Ends, Lists, Result, IsNat, Refusal, Notices

Posted(q2, q, type, a) == q2 = Append(q, About(type, a))

LEMMA NoticePosted ==
  ASSUME NEW q \in Seq(Packet), QueueOk(q), NEW a \in Addrs, NEW type \in Notices,
         NEW q2, Posted(q2, q, type, a)
  PROVE  /\ q2 \in Seq(Packet) /\ QueueOk(q2)
         /\ Grown(q2, q, About(type, a)) /\ Order(q2, q, About(type, a))
         /\ \A inf, res, w : SpecOk(q, inf, res, w) => SpecOk(q2, inf, res, w)
         /\ \A d : SpecIn(q2, d) <=> SpecIn(q, d)
         /\ SpecOnce(q) => SpecOnce(q2)
         /\ \A t : NatIn(q2, t) <=> NatIn(q, t)
         /\ \A b : ResultIn(q, b) => ResultIn(q2, b)
         /\ \A b : TwoIn(q, b) => TwoIn(q2, b)
         /\ type \in {"ACCEPTED", "FAILED", "REFUSED"} => ResultIn(q2, a)
<1> DEFINE m == About(type, a)
<1>1. m \in Packet /\ PacketOk(m) /\ m.type # "SPECIFIC" /\ (\A d : ~IsSpec(m, d)) /\ (\A t : ~IsNat(m, t))
      /\ (type \in {"ACCEPTED", "FAILED", "REFUSED"} => Result(m, a))
  BY NoticeIs DEF Notices
<1> HIDE DEF m
<1>2. q \in Seq(Packet) /\ q2 = Append(q, m)
  BY DEF m, Posted
<1>3. q2 \in Seq(Packet) /\ Grown(q2, q, m) /\ Order(q2, q, m)
  BY <1>1, <1>2, Appending
<1>4. QueueOk(q2)
  BY <1>1, <1>3 DEF Grown
<1>5. (\A d : SpecIn(q2, d) <=> SpecIn(q, d)) /\ (SpecOnce(q) => SpecOnce(q2))
  BY <1>1, <1>3 DEF Grown
<1>6. /\ \A t : NatIn(q2, t) <=> NatIn(q, t)
      /\ \A b : ResultIn(q, b) => ResultIn(q2, b)
      /\ \A b : TwoIn(q, b) => TwoIn(q2, b)
      /\ Result(m, a) => ResultIn(q2, a)
  BY <1>1, <1>3 DEF Grown
<1>7. \A inf, res, w : SpecOk(q, inf, res, w) => SpecOk(q2, inf, res, w)
  BY <1>5 DEF SpecOk
<1> QED BY <1>1, <1>3, <1>4, <1>5, <1>6, <1>7 DEF m

\* A notice may list a peer or take it off the list, and leaves the others alone.
LEMMA NoticeLists ==
  ASSUME TypeOK, ListedOk(queue, rak, peers), NEW a \in Addrs, NEW type \in Notices,
         Order(queue', queue, About(type, a)), Grown(queue', queue, About(type, a)),
         \A b \in Addrs : rak'[b] = "connected" =>
           (rak[b] = "connected" /\ (b = a => type # "ENDED")) \/ (b = a /\ type \in {"ACCEPTED", "INCOMING"})
  PROVE  ListedOk(queue', rak', peers)
<1> SUFFICES ASSUME NEW b \in Addrs, rak'[b] = "connected"
             PROVE  (b \in peers /\ NoEnd(queue', b)) \/ ListsLast(queue', b)
  BY DEF ListedOk
<1>1. CASE rak[b] = "connected" /\ (b = a => type # "ENDED")
  <2>1. ~Ends(About(type, a), b)
    BY <1>1, NoticeIs
  <2> QED BY <1>1, <2>1 DEF ListedOk, Order, Grown
<1>2. CASE b = a /\ type \in {"ACCEPTED", "INCOMING"}
  <2>1. Lists(About(type, a), b)
    BY <1>2, NoticeIs
  <2> QED BY <2>1 DEF Order
<1> QED BY <1>1, <1>2

LEMMA Reporting ==
  ASSUME IInv, NEW a \in Addrs, NEW type \in Notices, NEW to \in RakStates,
         queue' = Append(queue, About(type, a)), rak' = [rak EXCEPT ![a] = to],
         EngineKeeps, nat' \subseteq nat, Forsake({Ex(t) : t \in nat \ nat'}),
         Trying(a) => type \in {"ACCEPTED", "FAILED", "REFUSED"},
         to = "connected" => type \in {"ACCEPTED", "INCOMING"}
  PROVE  IInv'
<1>1. /\ queue' \in Seq(Packet) /\ QueueOk(queue')
      /\ Grown(queue', queue, About(type, a)) /\ Order(queue', queue, About(type, a))
      /\ SpecOk(queue', info, resolving, waiting)
      /\ \A d : SpecIn(queue', d) <=> SpecIn(queue, d)
      /\ \A t : NatIn(queue', t) <=> NatIn(queue, t)
  <2>1. Posted(queue', queue, type, a) /\ queue \in Seq(Packet) /\ QueueOk(queue)
        /\ SpecOk(queue, info, resolving, waiting)
    BY DEF Posted, IInv, TypeOK
  <2> QED BY <2>1, NoticePosted
<1>2. rak' \in [Addrs -> RakStates] /\ \A b \in Addrs : rak'[b] = IF b = a THEN to ELSE rak[b]
  BY DEF IInv, TypeOK
<1>3. Trying(a) => Trying(a)' \/ Result(About(type, a), a)
  BY NoticeIs
<1>4. ASSUME NEW b \in Addrs PROVE (Pending(b) => Pending(b)') /\ (PendingTwice(b) => PendingTwice(b)')
  BY <1>1, <1>2, <1>3, Posting
<1>5. WaitsOk' /\ forsaken' \subseteq waiting' /\ EntriesOk(info, resolving)'
  BY <1>1, <1>4, EngineQuiet
<1>6. TypeOK'
  BY <1>1, <1>2, <1>5 DEF IInv, TypeOK, EngineKeeps, Forsake
<1>7. ListedOk(queue', rak', peers)
  BY <1>1, <1>2, NoticeLists DEF IInv
<1> QED BY <1>1, <1>5, <1>6, <1>7 DEF IInv, EngineKeeps

\* RakPeer moves on without a word.
LEMMA Turning ==
  ASSUME IInv, NEW a \in Addrs, NEW to \in RakStates, to # "connected",
         rak' = [rak EXCEPT ![a] = to], UNCHANGED queue,
         EngineKeeps, nat' \subseteq nat, Forsake({Ex(t) : t \in nat \ nat'}),
         Trying(a) => to \in {"requested", "handshake"}
  PROVE  IInv'
<1>2. rak' \in [Addrs -> RakStates] /\ \A b \in Addrs : rak'[b] = IF b = a THEN to ELSE rak[b]
  BY DEF IInv, TypeOK
<1>4. ASSUME NEW b \in Addrs PROVE (Pending(b) => Pending(b)') /\ (PendingTwice(b) => PendingTwice(b)')
  BY <1>2 DEF Pending, PendingTwice, Trying
<1>5. WaitsOk' /\ forsaken' \subseteq waiting' /\ EntriesOk(info, resolving)'
  BY <1>4, EngineQuiet DEF SpecIn, NatIn
<1>6. TypeOK'
  BY <1>2, <1>5 DEF IInv, TypeOK, EngineKeeps, Forsake
<1>7. ListedOk(queue', rak', peers)
  BY <1>2 DEF IInv, ListedOk
<1> QED BY <1>5, <1>6, <1>7 DEF IInv, EngineKeeps

\* Nothing is asked of the helper, or it answers.
LEMMA NatStays ==
  ASSUME IInv, EngineKeeps, UNCHANGED <<nat, forsaken>>
  PROVE  nat' \subseteq nat /\ Forsake({Ex(t) : t \in nat \ nat'})
<1>1. {Ex(t) : t \in nat \ nat'} = {} /\ forsaken \cap waiting = forsaken
  BY DEF IInv, TypeOK
<1> QED BY <1>1 DEF Forsake, EngineKeeps

LEMMA AttemptsKeep ==
  ASSUME IInv, NEW a \in Addrs, Handshake(a) \/ Attempts(a) \/ Incoming(a) \/ Closed(a) \/ Dropped(a)
  PROVE  IInv'
<1> USE DEF RakGoes, RakStates, Trying
<1>1. CASE Handshake(a)
  BY <1>1, NatStays, Turning DEF Handshake
<1>2. CASE Dropped(a)
  BY <1>2, NatStays, Turning DEF Dropped
<1>3. ASSUME NEW from, NEW to \in RakStates, NEW type \in Notices, Reports(a, from, to, type),
             \A s \in {"requested", "handshake"} : s \in from => type \in {"ACCEPTED", "FAILED", "REFUSED"},
             to = "connected" => type \in {"ACCEPTED", "INCOMING"}
      PROVE  IInv'
  <2>1. nat' \subseteq nat /\ Forsake({Ex(t) : t \in nat \ nat'})
    BY <1>3, NatStays DEF Reports
  <2> QED BY <1>3, <2>1, Reporting DEF Reports
<1>4. CASE Accepted(a)
  BY <1>3, <1>4 DEF Accepted, Notices
<1>5. CASE AttemptFails(a)
  BY <1>3, <1>5 DEF AttemptFails, Notices
<1>6. CASE Refused(a)
  BY <1>3, <1>6 DEF Refused, Notices
<1>7. CASE Incoming(a)
  BY <1>3, <1>7 DEF Incoming, Notices
<1>8. CASE Closed(a)
  BY <1>3, <1>8 DEF Closed, Notices
<1> QED BY <1>1, <1>2, <1>4, <1>5, <1>6, <1>7, <1>8 DEF Attempts

LEMMA ConnectionEndsKeeps ==
  ASSUME IInv, NEW a \in Addrs, ConnectionEnds(a)
  PROVE  IInv'
<1>1. nat' \subseteq nat /\ EngineKeeps /\ Forsake({Ex(t) : t \in nat \ nat'}) /\ ~Trying(a)
  BY DEF ConnectionEnds, RakGoes, Trying
<1>2. CASE rak' = [rak EXCEPT ![a] = "none"] /\ queue' = Append(queue, About("ENDED", a))
  BY <1>1, <1>2, Reporting DEF Notices, RakStates
<1>3. CASE rak' = [rak EXCEPT ![a] = "closing"] /\ UNCHANGED queue
  BY <1>1, <1>3, Turning DEF RakStates
<1> QED BY <1>2, <1>3 DEF ConnectionEnds, RakGoes

\* The helper's answer is put into the queue, in front or at the end.
LEMMA NatAnswersKeeps ==
  ASSUME IInv, NEW t \in Targets, NatAnswers(t)
  PROVE  IInv'
<1>1. PICK m : /\ m.type \in {"SUCCEEDED", "NAT_FAILED"} /\ m.id = t /\ m.sa \in {t, Aid} /\ m \in Packet
               /\ (m.type = "SUCCEEDED" => m.sa = t)
               /\ queue' = Append(queue, m) \/ queue' = <<m>> \o queue
  <2>1. t \in Addrs /\ Aid \in Addrs
    BY Apart
  <2>2. ASSUME NEW type \in {"SUCCEEDED", "NAT_FAILED"}
        PROVE  LET m == About(type, t) IN m \in Packet /\ m.type = type /\ m.id = t /\ m.sa = t
    BY <2>1 DEF About, Packet, Types
  <2>3. LET m == [type |-> "NAT_FAILED", sa |-> Aid, id |-> t]
        IN  m \in Packet /\ m.type = "NAT_FAILED" /\ m.id = t /\ m.sa = Aid
    BY <2>1 DEF Packet, Types
  <2> QED BY <2>2, <2>3 DEF NatAnswers
<1>2. /\ PacketOk(m) /\ IsNat(m, t) /\ m.type # "SPECIFIC"
      /\ \A b : ~Ends(m, b) /\ ~Result(m, b)
  BY <1>1 DEF PacketOk, IsNat, Ends, Result
<1>3. /\ queue' \in Seq(Packet) /\ Grown(queue', queue, m)
      /\ \A b : ListsLast(queue, b) => ListsLast(queue', b)
  <2>1. CASE queue' = Append(queue, m)
    BY <1>1, <1>2, <2>1, Appending DEF IInv, TypeOK, Order
  <2>2. CASE queue' = <<m>> \o queue
    BY <1>1, <2>2, Fronting DEF IInv, TypeOK
  <2> QED BY <1>1, <2>1, <2>2
<1>4. EngineKeeps /\ UNCHANGED <<rak, forsaken>> /\ t \in nat /\ nat' = nat \ {t}
  BY DEF NatAnswers
<1>5. \A b \in Addrs : (Pending(b) => Pending(b)') /\ (PendingTwice(b) => PendingTwice(b)')
  BY <1>3, <1>4 DEF Pending, PendingTwice, Trying, Grown
<1>6. \A u \in Targets : NatPending(u) => NatPending(u)'
  BY <1>2, <1>3, <1>4 DEF NatPending, Grown
<1>7. /\ QueueOk(queue') /\ SpecOk(queue', info, resolving, waiting)
      /\ \A d \in Domains : SpecIn(queue, d) => SpecIn(queue, d)'
  BY <1>2, <1>3 DEF Grown, SpecOk, IInv, IsSpec
<1>8. WaitsOk' /\ EntriesOk(info, resolving)'
  <2>1. forsaken' \subseteq waiting'
    BY <1>4 DEF IInv, TypeOK, EngineKeeps
  <2> QED BY <1>4, <1>5, <1>6, <1>7, <2>1, Quiet DEF EngineKeeps
<1>9. TypeOK'
  BY <1>3, <1>4 DEF IInv, TypeOK, EngineKeeps
<1>10. ListedOk(queue', rak', peers)
  BY <1>2, <1>3, <1>4 DEF IInv, ListedOk, Grown
<1> QED BY <1>4, <1>7, <1>8, <1>9, <1>10 DEF IInv, EngineKeeps

LEMMA NetworkKeeps ==
  ASSUME IInv, Network
  PROVE  IInv'
BY AttemptsKeep, ConnectionEndsKeeps, NatAnswersKeeps DEF Network

-----------------------------------------------------------------------------
(* The packets that are about no entry.                                    *)

\* What is left of the queue when its first packet is taken.
LEMMA Taken ==
  ASSUME IInv, queue # <<>>, NEW p, p = Head(queue)
  PROVE  /\ Tail(queue) \in Seq(Packet) /\ p \in Packet /\ PacketOk(p)
         /\ Grown(queue, Tail(queue), p)
         /\ QueueOk(Tail(queue)) /\ SpecOnce(Tail(queue))
         /\ \A d : IsSpec(p, d) => ~SpecIn(Tail(queue), d)
         /\ \A a : NoEnd(queue, a) => NoEnd(Tail(queue), a) /\ ~Ends(p, a)
         /\ \A a : ListsLast(queue, a) =>
              ListsLast(Tail(queue), a) \/ (Lists(p, a) /\ NoEnd(Tail(queue), a))
BY Taking DEF IInv, TypeOK, SpecOk

\* The list of peers after the packet.
LEMMA TakenLists ==
  ASSUME IInv, queue # <<>>, NEW p, p = Head(queue), NEW a \in Addrs,
         rak[a] = "connected",
         a \in peers' <=> (a \in peers /\ ~Ends(p, a)) \/ Lists(p, a)
  PROVE  (a \in peers' /\ NoEnd(Tail(queue), a)) \/ ListsLast(Tail(queue), a)
BY Taken DEF IInv, ListedOk

LEMMA ListedKeeps ==
  ASSUME IInv, queue # <<>>, UNCHANGED <<nat, resolving>>, NEW p, p = Head(queue), Listed(p)
  PROVE  IInv'
<1>1. p.type \in {"INCOMING", "ENDED"} /\ queue' = Tail(queue) /\ UNCHANGED <<info, rak, waiting, forsaken>>
      /\ peers' = (IF p.type = "ENDED" THEN peers \ {p.sa} ELSE peers \cup {p.sa})
  BY DEF Listed
<1>2. /\ \A b : ~Result(p, b)
      /\ \A t : ~IsNat(p, t)
      /\ \A d : ~IsSpec(p, d)
  BY <1>1 DEF Result, IsNat, IsSpec
<1>3. /\ \A b : ResultIn(queue, b) <=> ResultIn(queue', b)
      /\ \A b : TwoIn(queue, b) <=> TwoIn(queue', b)
      /\ \A t : NatIn(queue, t) <=> NatIn(queue', t)
      /\ \A d : SpecIn(queue, d) <=> SpecIn(queue', d)
  BY <1>1, <1>2, Taken DEF Grown
<1>4. WaitsOk' /\ EntriesOk(info, resolving)'
  <2>1. \A b \in Addrs : (Pending(b) => Pending(b)') /\ (PendingTwice(b) => PendingTwice(b)')
    BY <1>1, <1>3 DEF Pending, PendingTwice, Trying
  <2>2. \A t \in Targets : NatPending(t) => NatPending(t)'
    BY <1>3 DEF NatPending
  <2>3. forsaken' \subseteq waiting'
    BY <1>1 DEF IInv, TypeOK
  <2> QED BY <1>1, <1>3, <2>1, <2>2, <2>3, Quiet
<1>5. /\ queue' \in Seq(Packet) /\ QueueOk(queue') /\ p.sa \in Addrs
      /\ SpecOk(queue', info, resolving, waiting)
  BY <1>1, <1>3, Taken DEF IInv, SpecOk, PacketOk
<1>6. TypeOK'
  BY <1>1, <1>5 DEF IInv, TypeOK
<1>7. ListedOk(queue', rak, peers')
  <2> SUFFICES ASSUME NEW a \in Addrs, rak[a] = "connected"
               PROVE  (a \in peers' /\ NoEnd(Tail(queue), a)) \/ ListsLast(Tail(queue), a)
    BY <1>1 DEF ListedOk
  <2>1. a \in peers' <=> (a \in peers /\ ~Ends(p, a)) \/ Lists(p, a)
    BY <1>1 DEF Ends, Lists
  <2> QED BY <2>1, TakenLists
<1> QED BY <1>1, <1>4, <1>5, <1>6, <1>7 DEF IInv

LEMMA NameFailedKeeps ==
  ASSUME IInv, queue # <<>>, UNCHANGED <<nat, resolving>>, NEW p, p = Head(queue), NameFailed(p)
  PROVE  IInv'
<1>1. p.type = "SPECIFIC" /\ queue' = Tail(queue) /\ UNCHANGED <<info, rak, peers>>
      /\ waiting' = waiting \ {p.id} /\ forsaken' = forsaken \cap waiting'
  BY DEF NameFailed, Forsake
<1>2. /\ \A b : ~Result(p, b) /\ ~Ends(p, b) /\ ~Lists(p, b)
      /\ \A t : ~IsNat(p, t)
      /\ \A d : IsSpec(p, d) <=> p.id = d
  BY <1>1 DEF Result, IsNat, IsSpec, Ends, Lists
<1>3. /\ \A b : ResultIn(queue, b) <=> ResultIn(queue', b)
      /\ \A b : TwoIn(queue, b) <=> TwoIn(queue', b)
      /\ \A t : NatIn(queue, t) <=> NatIn(queue', t)
      /\ \A d : SpecIn(queue, d) <=> SpecIn(queue', d) \/ d = p.id
      /\ ~SpecIn(queue', p.id)
  BY <1>1, <1>2, Taken DEF Grown
<1>4. p.id \in Domains /\ p.id \notin DOMAIN info /\ p.id \in waiting
  BY <1>1, <1>3, Taken DEF PacketOk, IInv, SpecOk
<1>5. WaitsOk' /\ EntriesOk(info, resolving)'
  <2>1. \A b \in Addrs : (Pending(b) => Pending(b)') /\ (PendingTwice(b) => PendingTwice(b)')
    BY <1>1, <1>3 DEF Pending, PendingTwice, Trying
  <2>2. \A t \in Targets : NatPending(t) => NatPending(t)'
    BY <1>3 DEF NatPending
  <2> QED BY <1>1, <1>3, <1>4, <2>1, <2>2, Quiet
<1>6. queue' \in Seq(Packet) /\ QueueOk(queue') /\ SpecOk(queue', info, resolving, waiting')
  BY <1>1, <1>3, <1>4, Taken DEF IInv, SpecOk, EntriesOk
<1>7. TypeOK'
  BY <1>1, <1>6 DEF IInv, TypeOK
<1>8. ListedOk(queue', rak, peers)
  BY <1>1, <1>2, Taken DEF IInv, ListedOk
<1> QED BY <1>1, <1>5, <1>6, <1>7, <1>8 DEF IInv

-----------------------------------------------------------------------------
(* The program.                                                            *)

\* Where those that no result is left for are written down, the rest have one.
LEMMA Written ==
  ASSUME NEW a \in Addrs, \A c : c \in Unanswered(a)' /\ c \in waiting' => c \in forsaken'
  PROVE  /\ \A c : c \in Owners(a)' /\ c \in Owed' => Pending(a)'
         /\ a \in Targets /\ Ex(a) \in DOMAIN info' => ExOk(a)'
<1>1. \A c : c \in Unanswered(a)' => c \notin Owed'
  BY DEF Owed
<1>2. \A c : c \in Owners(a)' /\ c \in Owed' => Pending(a)'
  BY <1>1 DEF Unanswered
<1>3. ASSUME a \in Targets, Ex(a) \in DOMAIN info', Ex(a) \in Owed'
      PROVE  NatPending(a)' \/ (Ex(a) \in Owners(a)' /\ Pending(a)') \/ OneForEx(a)'
  BY <1>1, <1>2, <1>3 DEF Unanswered
<1> QED BY <1>2, <1>3 DEF ExOk

LEMMA CloseKeeps ==
  ASSUME IInv, NEW a \in Addrs, Close(a)
  PROVE  IInv'
<1>1. /\ peers' = peers \ {a} /\ UNCHANGED <<info, queue, resolving, waiting>> /\ nat' \subseteq nat
      /\ rak' = [rak EXCEPT ![a] = IF Active(a) THEN "closing" ELSE @]
      /\ Forsake((IF rak[a] = "handshake" THEN Unanswered(a)' ELSE {}) \cup {Ex(t) : t \in nat \ nat'})
  BY DEF Close
<1>2. /\ forsaken' \subseteq waiting' /\ forsaken \subseteq forsaken'
      /\ \A t \in nat : Ex(t) \in waiting' => t \in nat' \/ Ex(t) \in forsaken'
      /\ \A c : rak[a] = "handshake" /\ c \in Unanswered(a)' /\ c \in waiting' => c \in forsaken'
      /\ \A c : c \in Owed' => c \in Owed
  <2>1. forsaken \subseteq waiting
    BY DEF IInv, TypeOK
  <2> QED BY <1>1, <2>1 DEF Forsake, Owed
<1>3. /\ rak' \in [Addrs -> RakStates] /\ rak'[a] = (IF Active(a) THEN "closing" ELSE rak[a])
      /\ \A b \in Addrs : b # a => rak'[b] = rak[b]
  BY <1>1 DEF IInv, TypeOK, RakStates
<1>4. \A b \in Addrs : b # a \/ rak[a] # "handshake" => Undisturbed(b)
  BY <1>1, <1>3 DEF Undisturbed, Pending, PendingTwice, Trying, Active
<1>5. Owners(a)' = Owners(a)
  BY <1>1 DEF Owners
<1>6. ASSUME rak[a] = "handshake" PROVE \A c : c \in Owners(a)' /\ c \in Owed' => Pending(a)'
  BY <1>2, <1>6, Written
<1>7. ASSUME NEW b \in Addrs PROVE AddrOk(b)' /\ EntryLives(b)'
  <2>1. CASE Undisturbed(b)
    BY <1>1, <1>2, <2>1, AddrKeeps DEF IInv, WaitsOk
  <2>2. CASE b = a /\ rak[a] = "handshake"
    <3>1. AddrOk(a) /\ EntryLives(a)
      BY DEF IInv, WaitsOk
    <3>2. a \in DOMAIN info => Owners(a) # {}
      BY OwnersAre DEF IInv, Owners
    <3>3. ASSUME ~Pending(a)', a \in DOMAIN info, info[a].status # "ConnOnAdvance" PROVE Dead(a)'
      BY <1>1, <1>5, <1>6, <2>2, <3>1, <3>2, <3>3 DEF Dead, EntryLives, Owed
    <3>4. EntryLives(a)'
      BY <1>1, <1>5, <3>1, <3>3 DEF EntryLives
    <3> QED BY <1>2, <1>5, <1>6, <2>2, <3>1, <3>4 DEF AddrOk
  <2> QED BY <1>4, <2>1, <2>2
<1>8. ASSUME NEW d \in Domains PROVE NameOk(d)'
  <2>1. NameOk(d)
    BY DEF IInv, WaitsOk
  <2> SUFFICES ASSUME d \in Owed', NEW b \in Addrs, d \in Owners(b), Pending(b)
               PROVE  \E x \in Addrs : d \in Owners(x)' /\ Pending(x)'
    BY <1>1, <1>2, <2>1 DEF NameOk
  <2> QED BY <1>4, <1>5, <1>6, OwnersKeep DEF Undisturbed
<1>9. ASSUME NEW t \in Targets PROVE ExOk(t)'
  <2>1. t \in Addrs /\ ExOk(t)
    BY Apart DEF IInv, WaitsOk
  <2>2. CASE Undisturbed(t)
    <3>1. Ex(t) \in Owed' /\ NatPending(t) => NatPending(t)'
      BY <1>1, <1>2 DEF NatPending, Owed
    <3> QED BY <1>1, <1>2, <2>1, <2>2, <3>1, ExKeeps
  <2>3. CASE t = a /\ rak[a] = "handshake"
    <3>1. Ex(t) \in Owed' => Ex(t) \in DOMAIN info'
      BY <1>1, <1>2, <2>1 DEF ExOk
    <3> QED BY <1>2, <2>3, <3>1, Written DEF ExOk
  <2> QED BY <1>4, <2>1, <2>2, <2>3
<1>10. TypeOK'
  BY <1>1, <1>2, <1>3 DEF IInv, TypeOK
<1>11. EntriesOk(info, resolving)' /\ SpecOk(queue, info, resolving, waiting)' /\ QueueOk(queue)'
  BY <1>1 DEF IInv, EntriesOk, EntryOk, SpecOk, SpecOnce, SpecIn, QueueOk, PacketOk
<1>12. ListedOk(queue', rak', peers')
  <2>1. \A b \in Addrs : rak'[b] = "connected" => b # a /\ rak[b] = "connected"
    BY <1>3 DEF Active
  <2> QED BY <1>1, <2>1 DEF IInv, ListedOk
<1> QED BY <1>7, <1>8, <1>9, <1>10, <1>11, <1>12 DEF IInv, WaitsOk

\* An attempt at a gives it a result that is on its way.
LEMMA AttemptGives ==
  ASSUME IInv, NEW a \in Addrs, Attempt(a)
  PROVE  /\ queue' \in Seq(Packet) /\ rak' \in [Addrs -> RakStates] /\ QueueOk(queue')
         /\ Pending(a)'
         /\ \A b \in Addrs : (Pending(b) => Pending(b)') /\ (PendingTwice(b) => PendingTwice(b)')
         /\ \A d : SpecIn(queue', d) <=> SpecIn(queue, d)
         /\ SpecOnce(queue')
         /\ \A t : NatIn(queue', t) <=> NatIn(queue, t)
         /\ ListedOk(queue', rak', peers)
         /\ Active(a) /\ ResultIn(queue, a) => PendingTwice(a)'
<1>0. TypeOK /\ QueueOk(queue) /\ SpecOnce(queue) /\ ListedOk(queue, rak, peers)
  BY DEF IInv, SpecOk
<1>1. CASE Active(a)
  <2> DEFINE m == About("ACCEPTED", a)
  <2>1. queue' = Append(queue, About("ACCEPTED", a)) /\ rak' = rak
    BY <1>1 DEF Attempt
  <2>2. /\ "ACCEPTED" \in Notices /\ Posted(queue', queue, "ACCEPTED", a)
        /\ Result(m, a) /\ queue \in Seq(Packet) /\ SpecOk(queue, info, resolving, waiting)
    BY <1>0, <2>1 DEF Notices, Posted, Result, About, IInv, TypeOK
  <2>3. /\ queue' \in Seq(Packet) /\ QueueOk(queue') /\ ResultIn(queue', a)
        /\ Grown(queue', queue, m) /\ Order(queue', queue, m)
        /\ \A d : SpecIn(queue', d) <=> SpecIn(queue, d)
        /\ \A t : NatIn(queue', t) <=> NatIn(queue, t)
        /\ SpecOk(queue', info, resolving, waiting)
    BY <1>0, <2>2, NoticePosted
  <2>4. \A b \in Addrs : (Pending(b) => Pending(b)') /\ (PendingTwice(b) => PendingTwice(b)')
    BY <2>1, <2>2, <2>3, Posting
  <2>5. ListedOk(queue', rak', peers)
    BY <1>0, <2>1, <2>2, <2>3, NoticeLists
  <2>6. ResultIn(queue, a) => PendingTwice(a)'
    BY <2>2, <2>3 DEF PendingTwice, Grown
  <2> QED BY <1>0, <2>1, <2>3, <2>4, <2>5, <2>6 DEF Pending, SpecOk, TypeOK
<1>2. CASE ~Active(a)
  <2>1. /\ queue' = queue /\ rak' \in [Addrs -> RakStates] /\ rak'[a] = "requested"
        /\ \A b \in Addrs : b # a => rak'[b] = rak[b]
    BY <1>0, <1>2 DEF Attempt, TypeOK, RakStates
  <2>2. \A b \in Addrs : (Pending(b) => Pending(b)') /\ (PendingTwice(b) => PendingTwice(b)')
    BY <2>1 DEF Pending, PendingTwice, Trying
  <2>3. ListedOk(queue', rak', peers)
    BY <1>0, <2>1 DEF ListedOk
  <2> QED BY <1>0, <1>2, <2>1, <2>2, <2>3 DEF Pending, Trying, TypeOK
<1> QED BY <1>1, <1>2

LEMMA ConnectKeeps ==
  ASSUME IInv, NEW a \in Addrs, Connect(a)
  PROVE  IInv'
<1> DEFINE v == Entry(a, IF Active(a) THEN a ELSE NULL, "Connecting")
<1>1. /\ Attempt(a) /\ info' = Put(info, a, v) /\ waiting' = waiting \cup {a}
      /\ UNCHANGED <<nat, resolving, peers>>
      /\ forsaken' = ((forsaken \cup Owners(a) \cup Unanswered(a)') \cap waiting') \ {a}
  BY DEF Connect
<1>2. /\ v.status = "Connecting" /\ v.targetID \in {a, NULL} /\ v \in ConnInfo
  BY Apart DEF Entry, ConnInfo, Statuses
<1> HIDE DEF v
<1>3. With(info', info, a, v)
  BY <1>1, Putting
<1>4. /\ a \in DOMAIN info' /\ Owners(a)' = {a} /\ Pending(a)'
      /\ \A b \in Addrs : b # a => Undisturbed(b)
  <2>1. Pending(a)' /\ \A b \in Addrs : (Pending(b) => Pending(b)') /\ (PendingTwice(b) => PendingTwice(b)')
    BY <1>1, AttemptGives
  <2> QED BY <1>2, <1>3, <2>1 DEF With, Undisturbed, Owners, OwnersIn
<1>5. /\ \A c : c # a /\ c \in Owed' => c \in Owed /\ c \notin Owners(a)
      /\ \A c : c # a /\ c \in forsaken => c \in forsaken'
      /\ \A c : c # a /\ c \in Owed' => c \notin Unanswered(a)'
      /\ waiting \subseteq waiting' /\ a \in waiting' /\ forsaken' \subseteq waiting'
  <2>1. forsaken \subseteq waiting
    BY DEF IInv, TypeOK
  <2> QED BY <1>1, <2>1 DEF Owed
<1>6. ASSUME NEW b \in Addrs PROVE AddrOk(b)' /\ EntryLives(b)'
  <2>1. CASE b = a
    BY <1>4, <1>5, <2>1 DEF AddrOk, EntryLives
  <2>2. CASE b # a
    <3>1. \A c \in Owners(b) : c # a
      BY <2>2, OwnersAre, Apart DEF IInv, Owners
    <3> QED BY <1>4, <1>5, <2>2, <3>1, AddrKeeps DEF IInv, WaitsOk
  <2> QED BY <2>1, <2>2
<1>7. ASSUME NEW d \in Domains PROVE NameOk(d)'
  <2>1. d # a
    BY Apart
  <2>2. SpecIn(queue, d) => SpecIn(queue, d)'
    BY <1>1, AttemptGives
  <2>3. CASE d \in Owed'
    <3>1. \A b \in Addrs : d \in Owners(b) => Undisturbed(b)
      BY <1>4, <1>5, <2>1, <2>3
    <3> QED BY <1>1, <1>5, <2>1, <2>2, <3>1, NameKeeps DEF IInv, WaitsOk
  <2>4. CASE d \notin Owed'
    BY <2>4 DEF NameOk
  <2> QED BY <2>3, <2>4
<1>8. ASSUME NEW t \in Targets PROVE ExOk(t)'
  <2>1. t \in Addrs /\ Ex(t) # a /\ ExOk(t)
    BY Apart DEF IInv, WaitsOk
  <2>2. NatPending(t) => NatPending(t)'
    BY <1>1, AttemptGives DEF NatPending
  <2>3. Ex(t) \in DOMAIN info => Ex(t) \in DOMAIN info'
    BY <1>3 DEF With
  <2>4. CASE t # a
    BY <1>4, <1>5, <2>1, <2>2, <2>3, <2>4, ExKeeps
  <2>5. CASE t = a
    <3> SUFFICES ASSUME Ex(t) \in Owed' PROVE NatPending(t)' \/ OneForEx(t)'
      BY <1>5, <2>1, <2>3 DEF ExOk
    <3> QED BY <1>4, <1>5, <2>1, <2>5 DEF Unanswered
  <2> QED BY <2>4, <2>5
<1>9. TypeOK'
  <2>1. DOMAIN info' \subseteq ConnIDs /\ \A c \in DOMAIN info' : info'[c] \in ConnInfo
    BY <1>2, <1>3, Apart DEF With, IInv, TypeOK
  <2> QED BY <1>1, <1>5, <2>1, AttemptGives, Apart DEF IInv, TypeOK
<1>10. EntriesOk(info', resolving')
  <2>1. EntryOk(info', resolving', a)
    BY <1>2, <1>3 DEF EntryOk, With
  <2>2. ASSUME NEW b \in Addrs \cap DOMAIN info', b # a PROVE EntryOk(info', resolving', b)
    <3>1. b \in DOMAIN info /\ info'[b] = info[b] /\ EntryOk(info, resolving, b)
      BY <1>3, <2>2 DEF With, IInv, EntriesOk
    <3>2. \A d \in Domains \cap DOMAIN info : d \in DOMAIN info' /\ info'[d] = info[d]
      BY <1>3, Apart DEF With
    <3> QED BY <1>1, <3>1, <3>2 DEF EntryOk
  <2> QED BY <1>1, <1>3, <2>1, <2>2, Apart DEF IInv, EntriesOk, With
<1>11. SpecOk(queue', info', resolving', waiting')
  BY <1>1, <1>3, AttemptGives, Apart DEF IInv, SpecOk, With
<1>12. QueueOk(queue') /\ ListedOk(queue', rak', peers')
  BY <1>1, AttemptGives
<1> QED BY <1>6, <1>7, <1>8, <1>9, <1>10, <1>11, <1>12 DEF IInv, WaitsOk

LEMMA ConnectToDomainKeeps ==
  ASSUME IInv, NEW d \in Domains, ConnectToDomain(d)
  PROVE  IInv'
<1> DEFINE v == Entry(NULL, d, "DomainResolve")
<1>1. /\ d \notin DOMAIN info /\ d \notin waiting
      /\ info' = Put(info, d, v) /\ waiting' = waiting \cup {d} /\ resolving' = resolving \cup {d}
      /\ UNCHANGED <<queue, rak, nat, peers, forsaken>>
  BY DEF ConnectToDomain, Unused
<1>2. v.targetID = d /\ v \in ConnInfo
  BY Apart DEF Entry, ConnInfo, Statuses
<1> HIDE DEF v
<1>3. With(info', info, d, v)
  BY <1>1, Putting
<1>4. \A b \in Addrs : Undisturbed(b)
  BY <1>1, <1>3, Apart DEF With, Undisturbed, Pending, PendingTwice, Trying
<1>5. forsaken \subseteq waiting /\ \A c : c # d /\ c \in Owed' => c \in Owed
  BY <1>1 DEF IInv, TypeOK, Owed
<1>6. ASSUME NEW b \in Addrs PROVE AddrOk(b)' /\ EntryLives(b)'
  BY <1>1, <1>4, <1>5, AddrKeeps, Apart DEF IInv, WaitsOk
<1>7. ASSUME NEW e \in Domains PROVE NameOk(e)'
  <2>1. CASE e = d
    BY <1>1, <2>1 DEF NameOk
  <2>2. CASE e # d
    BY <1>1, <1>4, <1>5, <2>2, NameKeeps DEF IInv, WaitsOk
  <2> QED BY <2>1, <2>2
<1>8. ASSUME NEW t \in Targets PROVE ExOk(t)'
  <2>1. t \in Addrs /\ Ex(t) # d /\ ExOk(t)
    BY Apart DEF IInv, WaitsOk
  <2>2. Ex(t) \in DOMAIN info => Ex(t) \in DOMAIN info'
    BY <1>3 DEF With
  <2> QED BY <1>1, <1>4, <1>5, <2>1, <2>2, ExKeeps DEF NatPending
<1>9. TypeOK'
  <2>1. DOMAIN info' \subseteq ConnIDs /\ \A c \in DOMAIN info' : info'[c] \in ConnInfo
    BY <1>2, <1>3, Apart DEF With, IInv, TypeOK
  <2> QED BY <1>1, <2>1, Apart DEF IInv, TypeOK
<1>10. EntriesOk(info', resolving')
  <2>1. ASSUME NEW b \in Addrs \cap DOMAIN info' PROVE EntryOk(info', resolving', b)
    <3>1. b \in DOMAIN info /\ info'[b] = info[b] /\ EntryOk(info, resolving, b)
      BY <1>3, Apart DEF With, IInv, EntriesOk
    <3>2. \A e \in Domains \cap DOMAIN info : e \in DOMAIN info' /\ info'[e] = info[e] /\ e # d
      BY <1>1, <1>3 DEF With
    <3> QED BY <1>1, <3>1, <3>2 DEF EntryOk
  <2> QED BY <1>1, <1>2, <1>3, <2>1, Apart DEF IInv, EntriesOk, With
<1>11. SpecOk(queue', info', resolving', waiting')
  BY <1>1, <1>3 DEF IInv, SpecOk, With
<1>12. QueueOk(queue') /\ ListedOk(queue', rak', peers')
  BY <1>1 DEF IInv
<1> QED BY <1>6, <1>7, <1>8, <1>9, <1>10, <1>11, <1>12 DEF IInv, WaitsOk

LEMMA ConnectExKeeps ==
  ASSUME IInv, NEW t \in Targets, ConnectEx(t)
  PROVE  IInv'
<1> DEFINE v == Entry(NULL, t, "ConnectingEx")
           asks == rak[t] = "connected" \/ rak[Aid] = "connected"
<1>0. t \in Addrs /\ Ex(t) \in ConnIDs /\ Ex(t) \notin Addrs /\ Ex(t) \notin Domains
  BY Apart
<1>1. /\ Ex(t) \notin waiting /\ UNCHANGED <<rak, resolving, peers>>
      /\ waiting' = (IF asks THEN waiting \cup {Ex(t)} ELSE waiting)
      /\ info' = (IF asks THEN Put(info, Ex(t), v) ELSE Without(info, {Ex(t)}))
      /\ IF rak[t] = "connected" THEN Attempt(t) /\ nat' = nat
         ELSE queue' = queue /\ nat' = (IF asks THEN nat \cup {t} ELSE nat)
      /\ Forsake(IF Dead(t) THEN {Ex(t)} ELSE {})
  BY DEF ConnectEx, Attempt, Active
<1>2. v.targetID = t /\ v \in ConnInfo
  BY Apart DEF Entry, ConnInfo, Statuses
<1> HIDE DEF v
<1>3. /\ DOMAIN info' = (IF asks THEN DOMAIN info \cup {Ex(t)} ELSE DOMAIN info \ {Ex(t)})
      /\ asks => info'[Ex(t)] = v
      /\ \A c \in DOMAIN info : c # Ex(t) => info'[c] = info[c]
  <2>1. CASE asks
    <3>1. With(info', info, Ex(t), v)
      BY <1>1, <2>1, Putting
    <3> QED BY <2>1, <3>1 DEF With
  <2>2. CASE ~asks
    <3>1. Less(info', info, {Ex(t)})
      BY <1>1, <2>2, Removing
    <3> QED BY <2>2, <3>1 DEF Less
  <2> QED BY <2>1, <2>2
<1>4. /\ queue' \in Seq(Packet) /\ QueueOk(queue')
      /\ \A b \in Addrs : (Pending(b) => Pending(b)') /\ (PendingTwice(b) => PendingTwice(b)')
      /\ \A d : SpecIn(queue', d) <=> SpecIn(queue, d)
      /\ SpecOnce(queue')
      /\ \A u : NatIn(queue', u) <=> NatIn(queue, u)
      /\ ListedOk(queue', rak', peers)
      /\ rak[t] = "connected" => Pending(t)' /\ (ResultIn(queue, t) => PendingTwice(t)')
  <2>1. CASE rak[t] = "connected"
    BY <1>0, <1>1, <2>1, AttemptGives DEF Active
  <2>2. CASE rak[t] # "connected"
    BY <1>1, <2>2 DEF IInv, TypeOK, SpecOk, Pending, PendingTwice, Trying
  <2> QED BY <2>1, <2>2
<1>5. \A b \in Addrs : Undisturbed(b)
  BY <1>0, <1>3, <1>4 DEF Undisturbed
<1>6. /\ forsaken' \subseteq waiting' /\ forsaken \subseteq forsaken' /\ waiting \subseteq waiting'
      /\ \A c : c # Ex(t) /\ c \in Owed' => c \in Owed
      /\ Ex(t) \in Owed' => asks /\ ~Dead(t)
  BY <1>1 DEF Forsake, Owed, IInv, TypeOK
<1>7. ASSUME NEW b \in Addrs PROVE AddrOk(b)' /\ EntryLives(b)'
  BY <1>0, <1>5, <1>6, AddrKeeps DEF IInv, WaitsOk
<1>8. ASSUME NEW d \in Domains PROVE NameOk(d)'
  BY <1>0, <1>1, <1>4, <1>5, <1>6, NameKeeps DEF IInv, WaitsOk
<1>9. ASSUME NEW u \in Targets PROVE ExOk(u)'
  <2>1. u \in Addrs /\ (u # t => Ex(u) # Ex(t)) /\ ExOk(u)
    BY Apart DEF IInv, WaitsOk
  <2>2. CASE u # t
    <3>1. NatPending(u) => NatPending(u)'
      BY <1>1, <1>4 DEF NatPending
    <3> QED BY <1>3, <1>5, <1>6, <2>1, <2>2, <3>1, ExKeeps
  <2>3. CASE u = t
    <3> SUFFICES ASSUME Ex(t) \in Owed'
                 PROVE  /\ Ex(t) \in DOMAIN info'
                        /\ NatPending(t)' \/ (Ex(t) \in Owners(t)' /\ Pending(t)') \/ OneForEx(t)'
      BY <2>3 DEF ExOk
    <3>1. asks /\ ~Dead(t) /\ Ex(t) \in DOMAIN info'
      BY <1>3, <1>6
    <3>2. CASE rak[t] # "connected"
      BY <1>1, <3>1, <3>2 DEF NatPending
    <3>3. CASE rak[t] = "connected" /\ t \notin DOMAIN info
      BY <1>0, <1>3, <1>4, <3>1, <3>3 DEF OneForEx
    <3>4. CASE rak[t] = "connected" /\ t \in DOMAIN info
      <4>1. Owners(t)' = Owners(t) /\ t \in DOMAIN info' /\ EntryLives(t)
        BY <1>0, <1>5, <3>4, OwnersKeep DEF Undisturbed, IInv, WaitsOk
      <4>2. CASE info[t].status = "ConnOnAdvance"
        <5>1. Ex(t) \in Owners(t)
          BY <1>0, <3>4, <4>2, OwnersAre DEF IInv, Owners
        <5> QED BY <1>4, <3>1, <3>4, <4>1, <5>1
      <4>3. CASE info[t].status # "ConnOnAdvance"
        <5>1. ResultIn(queue, t)
          BY <3>1, <3>4, <4>1, <4>3 DEF EntryLives, Pending, Trying
        <5> QED BY <1>4, <3>1, <3>4, <4>1, <5>1 DEF OneForEx
      <4> QED BY <4>2, <4>3
    <3> QED BY <3>2, <3>3, <3>4
  <2> QED BY <2>2, <2>3
<1>10. TypeOK'
  <2>1. DOMAIN info' \subseteq ConnIDs /\ \A c \in DOMAIN info' : info'[c] \in ConnInfo
    BY <1>0, <1>2, <1>3 DEF IInv, TypeOK
  <2>2. waiting' \subseteq ConnIDs /\ nat' \subseteq Targets
    BY <1>0, <1>1 DEF IInv, TypeOK
  <2> QED BY <1>1, <1>4, <1>6, <2>1, <2>2 DEF IInv, TypeOK
<1>11. EntriesOk(info', resolving')
  <2>0. \A c \in ConnIDs : c # Ex(t) => (c \in DOMAIN info' <=> c \in DOMAIN info)
    BY <1>3
  <2>1. ASSUME NEW b \in Addrs \cap DOMAIN info' PROVE EntryOk(info', resolving', b)
    <3>1. b \in DOMAIN info /\ info'[b] = info[b] /\ EntryOk(info, resolving, b)
      BY <1>0, <1>3, <2>0, Apart DEF IInv, EntriesOk
    <3>2. \A e \in Domains \cap DOMAIN info : e \in DOMAIN info' /\ info'[e] = info[e]
      BY <1>0, <1>3, <2>0, Apart
    <3> QED BY <1>1, <3>1, <3>2 DEF EntryOk
  <2>2. \A d \in Domains \cap DOMAIN info' : info'[d].targetID = d
    BY <1>0, <1>3, <2>0, Apart DEF IInv, EntriesOk
  <2>3. \A u \in Targets : Ex(u) \in DOMAIN info' => info'[Ex(u)].targetID = u
    BY <1>2, <1>3, <2>0, Apart DEF IInv, EntriesOk
  <2>4. resolving' \subseteq DOMAIN info'
    BY <1>0, <1>1, <1>3 DEF IInv, EntriesOk, TypeOK
  <2> QED BY <2>1, <2>2, <2>3, <2>4 DEF EntriesOk
<1>12. SpecOk(queue', info', resolving', waiting')
  BY <1>0, <1>1, <1>3, <1>4, <1>6 DEF IInv, SpecOk
<1> QED BY <1>1, <1>4, <1>7, <1>8, <1>9, <1>10, <1>11, <1>12 DEF IInv, WaitsOk

-----------------------------------------------------------------------------
(* What JinDNS calls back.                                                 *)

LEMMA NameFailsKeeps ==
  ASSUME IInv, NEW d \in Domains, NEW a \in Resolvable \cup {NULL}, OnDnsParsed(d, a), NameFails(d, a)
  PROVE  IInv'
<1> DEFINE m == [type |-> "SPECIFIC", sa |-> NULL, id |-> d]
<1>1. /\ d \in resolving /\ resolving' = resolving \ {d} /\ UNCHANGED <<nat, peers, waiting, rak>>
      /\ queue' = Append(queue, m) /\ info' = Without(info, {d}) /\ forsaken' = forsaken \cap waiting'
  BY DEF OnDnsParsed, Forsake
<1>2. /\ m \in Packet /\ PacketOk(m) /\ m.type = "SPECIFIC" /\ m.id = d
      /\ \A b : ~Ends(m, b)
      /\ \A e : IsSpec(m, e) <=> e = d
  BY Apart DEF Packet, Types, PacketOk, Ends, IsSpec
<1> HIDE DEF m
<1>3. Less(info', info, {d})
  BY <1>1, Removing
<1>4. /\ d \in waiting /\ d \in DOMAIN info /\ ~SpecIn(queue, d)
      /\ forsaken' = forsaken /\ forsaken \subseteq waiting
  BY <1>1 DEF IInv, TypeOK, SpecOk, EntriesOk
<1>5. queue' \in Seq(Packet) /\ Grown(queue', queue, m) /\ Order(queue', queue, m)
  BY <1>1, <1>2, Appending DEF IInv, TypeOK
<1>6. /\ QueueOk(queue') /\ SpecOnce(queue')
      /\ \A e : SpecIn(queue', e) <=> SpecIn(queue, e) \/ e = d
      /\ \A t : NatIn(queue, t) => NatIn(queue', t)
      /\ \A b : ResultIn(queue, b) => ResultIn(queue', b)
      /\ \A b : TwoIn(queue, b) => TwoIn(queue', b)
  BY <1>2, <1>4, <1>5 DEF Grown, IInv, SpecOk
<1>7. \A b \in Addrs : Undisturbed(b)
  BY <1>1, <1>3, <1>6, Apart DEF Less, Undisturbed, Pending, PendingTwice, Trying
<1>8. \A c : c \in Owed' <=> c \in Owed
  BY <1>1, <1>4 DEF Owed
<1>9. ASSUME NEW b \in Addrs PROVE AddrOk(b)' /\ EntryLives(b)'
  BY <1>1, <1>4, <1>7, <1>8, AddrKeeps DEF IInv, WaitsOk
<1>10. ASSUME NEW e \in Domains PROVE NameOk(e)'
  <2>1. CASE e = d
    BY <1>6, <2>1 DEF NameOk
  <2>2. CASE e # d
    BY <1>1, <1>6, <1>7, <1>8, <2>2, NameKeeps DEF IInv, WaitsOk
  <2> QED BY <2>1, <2>2
<1>11. ASSUME NEW t \in Targets PROVE ExOk(t)'
  <2>1. t \in Addrs /\ Ex(t) # d /\ ExOk(t)
    BY Apart DEF IInv, WaitsOk
  <2>2. Ex(t) \in DOMAIN info => Ex(t) \in DOMAIN info'
    BY <1>3, <2>1 DEF Less
  <2> QED BY <1>1, <1>6, <1>7, <1>8, <2>1, <2>2, ExKeeps DEF NatPending
<1>12. TypeOK'
  <2>1. DOMAIN info' \subseteq ConnIDs /\ \A c \in DOMAIN info' : info'[c] \in ConnInfo
    BY <1>3 DEF Less, IInv, TypeOK
  <2> QED BY <1>1, <1>4, <1>5, <2>1 DEF IInv, TypeOK
<1>13. EntriesOk(info', resolving')
  <2>1. ASSUME NEW b \in Addrs \cap DOMAIN info' PROVE EntryOk(info', resolving', b)
    <3>1. b \in DOMAIN info /\ info'[b] = info[b] /\ EntryOk(info, resolving, b)
      BY <1>3 DEF Less, IInv, EntriesOk
    <3>2. \A e \in Domains \cap DOMAIN info : e # d => e \in DOMAIN info' /\ info'[e] = info[e]
      BY <1>3 DEF Less
    <3> QED BY <1>1, <3>1, <3>2 DEF EntryOk
  <2> QED BY <1>1, <1>3, <2>1 DEF IInv, EntriesOk, Less
<1>14. SpecOk(queue', info', resolving', waiting')
  BY <1>1, <1>3, <1>4, <1>6 DEF IInv, SpecOk, Less
<1>15. ListedOk(queue', rak', peers')
  BY <1>1, <1>2, <1>5 DEF IInv, ListedOk, Grown, Order
<1> QED BY <1>6, <1>9, <1>10, <1>11, <1>12, <1>13, <1>14, <1>15 DEF IInv, WaitsOk

\* The name leads to an address that only a direct connect waits for, or nobody.
LEMMA NameLeadsKeeps ==
  ASSUME IInv, NEW d \in Domains, NEW a \in Resolvable \cup {NULL}, OnDnsParsed(d, a), ~NameFails(d, a)
  PROVE  IInv'
<1> DEFINE joins == a \in DOMAIN info
           status == IF joins THEN "ConnectingMulti" ELSE "DomainResolve"
           v == Entry(d, d, status)
           f == [info EXCEPT ![d].directConn = a]
<1>1. /\ d \in resolving /\ resolving' = resolving \ {d} /\ UNCHANGED <<nat, peers, waiting>>
      /\ info' = Put(f, a, v) /\ (joins => UNCHANGED <<queue, rak>>) /\ (~joins => Attempt(a))
      /\ Forsake((IF Dead(a) THEN {d} ELSE {}) \cup Unanswered(a)')
  BY DEF OnDnsParsed, Linked
<1>2. /\ a \in Addrs /\ a \in Resolvable /\ d # a
      /\ d \in DOMAIN info /\ d \in waiting /\ info[d] \in ConnInfo /\ info[d].targetID = d
      /\ joins => info[a].status = "Connecting"
  BY <1>1, Apart DEF NameFails, IInv, TypeOK, EntriesOk, SpecOk
<1>3. /\ v.status = status /\ v.directConn = d /\ v.targetID = d /\ v \in ConnInfo
  BY Apart DEF Entry, ConnInfo, Statuses
<1>4. /\ DOMAIN f = DOMAIN info /\ f[d].directConn = a /\ f[d].targetID = d /\ f[d] \in ConnInfo
      /\ \A c \in DOMAIN info : c # d => f[c] = info[c]
  BY <1>2, Apart DEF ConnInfo
<1> HIDE DEF v, f, status
<1>5. With(info', f, a, v)
  BY <1>1, Putting
<1>6. /\ DOMAIN info' = DOMAIN info \cup {a} /\ info'[a] = v
      /\ info'[d].directConn = a /\ info'[d].targetID = d /\ info'[d] \in ConnInfo
      /\ \A c \in DOMAIN info : c # d /\ c # a => info'[c] = info[c]
  BY <1>2, <1>4, <1>5 DEF With
<1>7. /\ queue' \in Seq(Packet) /\ rak' \in [Addrs -> RakStates] /\ QueueOk(queue')
      /\ \A b \in Addrs : (Pending(b) => Pending(b)') /\ (PendingTwice(b) => PendingTwice(b)')
      /\ \A e : SpecIn(queue', e) <=> SpecIn(queue, e)
      /\ SpecOnce(queue')
      /\ \A t : NatIn(queue', t) <=> NatIn(queue, t)
      /\ ListedOk(queue', rak', peers)
      /\ ~joins => Pending(a)'
  <2>1. CASE joins
    BY <1>1, <2>1 DEF IInv, TypeOK, SpecOk, Pending, PendingTwice, Trying
  <2>2. CASE ~joins
    BY <1>1, <1>2, <2>2, AttemptGives
  <2> QED BY <2>1, <2>2
<1>8. \A b \in Addrs : b # a => Undisturbed(b)
  BY <1>2, <1>6, <1>7, Apart DEF Undisturbed
<1>9. /\ Owners(a) = (IF joins THEN {a} ELSE {})
      /\ Owners(a)' = Owners(a) \cup {d} /\ a \in DOMAIN info' /\ info'[a].status = status
  BY <1>2, <1>3, <1>6 DEF Owners, OwnersIn, status
<1>10. /\ forsaken' \subseteq waiting' /\ forsaken \subseteq forsaken' /\ waiting' = waiting
       /\ \A c : c \in Owed' => c \in Owed
       /\ \A c : c \in Unanswered(a)' /\ c \in waiting' => c \in forsaken'
  BY <1>1 DEF Forsake, Owed, IInv, TypeOK
<1>11. \A c : c \in Owners(a)' /\ c \in Owed' => Pending(a)'
  BY <1>2, <1>10, Written
<1>12. ASSUME NEW b \in Addrs PROVE AddrOk(b)' /\ EntryLives(b)'
  <2>0. AddrOk(b) /\ EntryLives(b)
    BY DEF IInv, WaitsOk
  <2>1. CASE b = a
    <3>1. AddrOk(a)'
      BY <1>9, <1>10, <1>11, <2>0, <2>1 DEF AddrOk
    <3>2. Owners(a)' \subseteq waiting'
      <4>1. CASE joins
        BY <1>2, <1>9, <1>10, <2>0, <2>1, <4>1 DEF EntryLives
      <4>2. CASE ~joins
        BY <1>2, <1>9, <1>10, <4>2
      <4> QED BY <4>1, <4>2
    <3>3. Pending(a)' \/ Dead(a)'
      BY <1>9, <1>10, <1>11, <3>2 DEF Dead, Owed
    <3> QED BY <2>1, <3>1, <3>2, <3>3 DEF EntryLives
  <2>2. CASE b # a
    BY <1>8, <1>10, <2>0, <2>2, AddrKeeps
  <2> QED BY <2>1, <2>2
<1>13. ASSUME NEW e \in Domains PROVE NameOk(e)'
  <2>1. CASE e = d
    BY <1>2, <1>9, <1>11, <2>1 DEF NameOk
  <2>2. CASE e # d
    <3>1. \A b \in Addrs : e \in Owners(b) => b # a
      BY <1>9, Apart
    <3> QED BY <1>1, <1>7, <1>8, <1>10, <2>2, <3>1, NameKeeps DEF IInv, WaitsOk
  <2> QED BY <2>1, <2>2
<1>14. ASSUME NEW t \in Targets PROVE ExOk(t)'
  <2>1. t \in Addrs /\ ExOk(t)
    BY Apart DEF IInv, WaitsOk
  <2>2. Ex(t) \in DOMAIN info => Ex(t) \in DOMAIN info'
    BY <1>6
  <2>3. CASE t # a
    BY <1>1, <1>7, <1>8, <1>10, <2>1, <2>2, <2>3, ExKeeps DEF NatPending
  <2>4. CASE t = a
    <3>1. Ex(t) \in Owed' => Ex(t) \in DOMAIN info'
      BY <1>10, <2>1, <2>2 DEF ExOk
    <3> QED BY <1>2, <1>10, <2>4, <3>1, Written DEF ExOk
  <2> QED BY <2>3, <2>4
<1>15. TypeOK'
  <2>1. DOMAIN info' \subseteq ConnIDs /\ \A c \in DOMAIN info' : info'[c] \in ConnInfo
    BY <1>2, <1>3, <1>6, Apart DEF IInv, TypeOK
  <2> QED BY <1>1, <1>7, <1>10, <2>1 DEF IInv, TypeOK
<1>16. EntriesOk(info', resolving')
  <2>1. EntryOk(info', resolving', a)
    <3>1. info'[a].directConn = d /\ info'[a].targetID = d /\ info'[a].status \in {"DomainResolve", "ConnectingMulti"}
      BY <1>3, <1>6 DEF status
    <3>2. d \in Domains \cap DOMAIN info' /\ info'[d].directConn = a /\ d \notin resolving'
      BY <1>1, <1>2, <1>6
    <3> QED BY <1>2, <3>1, <3>2 DEF EntryOk
  <2>2. ASSUME NEW b \in Addrs \cap DOMAIN info', b # a PROVE EntryOk(info', resolving', b)
    <3>1. b \in DOMAIN info /\ info'[b] = info[b] /\ EntryOk(info, resolving, b)
      BY <1>6, <2>2, Apart DEF IInv, EntriesOk
    <3>2. \A e \in Domains \cap DOMAIN info : e # d => e \in DOMAIN info' /\ info'[e] = info[e]
      BY <1>2, <1>6, Apart
    <3> QED BY <1>1, <3>1, <3>2 DEF EntryOk
  <2>3. \A e \in Domains \cap DOMAIN info' : info'[e].targetID = e
    BY <1>2, <1>6, Apart DEF IInv, EntriesOk
  <2>4. \A t \in Targets : Ex(t) \in DOMAIN info' => info'[Ex(t)].targetID = t
    BY <1>2, <1>6, Apart DEF IInv, EntriesOk
  <2> QED BY <1>1, <1>6, <2>1, <2>2, <2>3, <2>4 DEF IInv, EntriesOk
<1>17. SpecOk(queue', info', resolving', waiting')
  BY <1>1, <1>2, <1>6, <1>7, Apart DEF IInv, SpecOk
<1>18. QueueOk(queue') /\ ListedOk(queue', rak', peers')
  BY <1>1, <1>7
<1> QED BY <1>12, <1>13, <1>14, <1>15, <1>16, <1>17, <1>18 DEF IInv, WaitsOk

-----------------------------------------------------------------------------
(* The answers.                                                            *)

\* What belongs to a peer: its own entry, and ConnectEx's.
LEMMA ByPeerIs ==
  ASSUME EntriesOk(info, resolving), MapOk(info), NEW g \in Addrs, NEW c \in ByPeer(info, g)
  PROVE  /\ c \in DOMAIN info
         /\ \/ c = g /\ info[g].status \in {"Connecting", "ConnOnAdvance"}
            \/ g \in Targets /\ c = Ex(g)
<1>1. c \in DOMAIN info /\ info[c].targetID = g
  BY DEF ByPeer
<1>2. CASE c \in Addrs
  <2>1. EntryOk(info, resolving, c)
    BY <1>1, <1>2 DEF EntriesOk
  <2> QED BY <1>1, <1>2, <2>1, Apart DEF EntryOk
<1>3. CASE c \in Domains
  BY <1>1, <1>3, Apart DEF EntriesOk
<1>4. ASSUME NEW t \in Targets, c = Ex(t) PROVE g \in Targets /\ c = Ex(g)
  BY <1>1, <1>4 DEF EntriesOk
<1> QED BY <1>1, <1>2, <1>3, <1>4, Apart DEF MapOk

LEMMA ExByPeer ==
  ASSUME EntriesOk(info, resolving), NEW t \in Targets, Ex(t) \in DOMAIN info
  PROVE  Ex(t) \in ByPeer(info, t)
BY DEF ByPeer, EntriesOk

\* The way to the target is open.
LEMMA PunchedKeeps ==
  ASSUME IInv, queue # <<>>, UNCHANGED <<nat, resolving>>, NEW p, p = Head(queue), Punched(p)
  PROVE  IInv'
<1> DEFINE T == Tail(queue)
<1>1. PICK t \in Targets : p.id = t /\ p.type = "SUCCEEDED" /\ t \in Addrs
  BY Taken, Apart DEF Punched, PacketOk
<1>2. /\ \A b : ~Result(p, b) /\ ~Ends(p, b) /\ ~Lists(p, b)
      /\ \A u : IsNat(p, u) <=> u = t
      /\ \A d : ~IsSpec(p, d)
  BY <1>1 DEF Result, IsNat, IsSpec, Ends, Lists
<1>3. /\ T \in Seq(Packet) /\ QueueOk(T) /\ SpecOnce(T)
      /\ \A b : ResultIn(queue, b) <=> ResultIn(T, b)
      /\ \A b : TwoIn(queue, b) <=> TwoIn(T, b)
      /\ \A u : NatIn(queue, u) <=> NatIn(T, u) \/ u = t
      /\ \A d : SpecIn(queue, d) <=> SpecIn(T, d)
      /\ \A b : NoEnd(queue, b) => NoEnd(T, b)
      /\ \A b : ListsLast(queue, b) => ListsLast(T, b)
  BY <1>2, Taken DEF Grown
<1> HIDE DEF T
<1>4. UNCHANGED <<peers, waiting>> /\ forsaken \subseteq waiting /\ MapOk(info)
  BY DEF Punched, IInv, TypeOK, MapOk
<1>5. CASE ByPeer(info, t) = {}
  <2>1. queue' = T /\ UNCHANGED <<info, rak, forsaken>>
    BY <1>1, <1>5 DEF Punched, T
  <2>2. \A b \in Addrs : (Pending(b) => Pending(b)') /\ (PendingTwice(b) => PendingTwice(b)')
    BY <1>3, <2>1 DEF Pending, PendingTwice, Trying
  <2>3. ASSUME NEW u \in Targets, NatPending(u), Ex(u) \in waiting' PROVE NatPending(u)' \/ Ex(u) \in forsaken'
    <3>1. CASE u = t
      <4>1. Ex(u) \notin DOMAIN info
        BY <1>5, <3>1, ExByPeer DEF IInv
      <4>2. ExOk(u)
        BY DEF IInv, WaitsOk
      <4> QED BY <1>4, <2>1, <2>3, <4>1, <4>2 DEF ExOk, Owed
    <3>2. CASE u # t
      BY <1>3, <2>1, <2>3, <3>2 DEF NatPending
    <3> QED BY <3>1, <3>2
  <2>4. WaitsOk' /\ EntriesOk(info, resolving)'
    BY <1>3, <1>4, <2>1, <2>2, <2>3, Quiet
  <2>5. TypeOK'
    BY <1>3, <1>4, <2>1 DEF IInv, TypeOK
  <2>6. SpecOk(queue', info', resolving', waiting')
    BY <1>3, <1>4, <2>1 DEF IInv, SpecOk
  <2>7. ListedOk(queue', rak', peers')
    BY <1>3, <1>4, <2>1 DEF IInv, ListedOk
  <2> QED BY <1>3, <2>1, <2>4, <2>5, <2>6, <2>7 DEF IInv
<1>6. CASE ByPeer(info, t) # {}
  <2> DEFINE v == Entry(t, t, "ConnOnAdvance")
  <2>1. PICK c \in ByPeer(info, t) : info' = Put([info EXCEPT ![c].directConn = t], t, v)
    BY <1>1, <1>6 DEF Punched, Advanced
  <2> DEFINE f == [info EXCEPT ![c].directConn = t]
  <2>2. c \in DOMAIN info /\ (c = t \/ c = Ex(t)) /\ info[c] \in ConnInfo
    BY <1>1, <1>4, ByPeerIs DEF IInv, MapOk
  <2>3. v.status = "ConnOnAdvance" /\ v.targetID = t /\ v \in ConnInfo
    BY <1>1, Apart DEF Entry, ConnInfo, Statuses
  <2>4. /\ DOMAIN f = DOMAIN info /\ f[c].targetID = info[c].targetID /\ f[c] \in ConnInfo
        /\ \A x \in DOMAIN info : x # c => f[x] = info[x]
    BY <1>1, <2>2, Apart DEF ConnInfo
  <2> HIDE DEF v, f
  <2>5. With(info', f, t, v)
    BY <2>1, Putting DEF f
  <2>6. /\ DOMAIN info' = DOMAIN info \cup {t} /\ info'[t] = v
        /\ \A x \in DOMAIN info : x # t => info'[x].targetID = info[x].targetID /\ info'[x] = f[x]
        /\ \A x \in DOMAIN info : x # t /\ x # Ex(t) => info'[x] = info[x]
    BY <2>2, <2>4, <2>5 DEF With
  <2>7. /\ queue' \in Seq(Packet) /\ rak' \in [Addrs -> RakStates] /\ QueueOk(queue') /\ SpecOnce(queue')
        /\ \A b \in Addrs : b # t => rak'[b] = rak[b]
        /\ Pending(t)'
        /\ \A b : ResultIn(queue, b) => ResultIn(queue', b)
        /\ \A b : TwoIn(queue, b) => TwoIn(queue', b)
        /\ \A u : NatIn(queue, u) => NatIn(queue', u) \/ u = t
        /\ \A d : SpecIn(queue, d) <=> SpecIn(queue', d)
        /\ ListedOk(queue', rak', peers)
    <3>1. CASE Active(t)
      <4>1. queue' = Append(T, About("ACCEPTED", t)) /\ rak' = rak
        BY <1>1, <1>6, <3>1 DEF Punched, T
      <4>2. /\ queue' \in Seq(Packet) /\ QueueOk(queue') /\ SpecOnce(queue')
            /\ Grown(queue', T, About("ACCEPTED", t)) /\ Order(queue', T, About("ACCEPTED", t))
            /\ \A d : SpecIn(queue', d) <=> SpecIn(T, d)
            /\ \A u : NatIn(queue', u) <=> NatIn(T, u)
            /\ \A b : ResultIn(T, b) => ResultIn(queue', b)
            /\ \A b : TwoIn(T, b) => TwoIn(queue', b)
            /\ ResultIn(queue', t)
        <5>1. "ACCEPTED" \in Notices /\ Posted(queue', T, "ACCEPTED", t)
          BY <4>1 DEF Notices, Posted
        <5> QED BY <1>1, <1>3, <5>1, NoticePosted
      <4>3. \A b : ~Ends(About("ACCEPTED", t), b)
        BY DEF Ends, About
      <4>4. ListedOk(queue', rak', peers)
        BY <1>3, <4>1, <4>2, <4>3 DEF IInv, ListedOk, Grown, Order
      <4> QED BY <1>3, <4>1, <4>2, <4>4 DEF Pending, IInv, TypeOK
    <3>2. CASE ~Active(t)
      <4>1. queue' = T /\ rak' = [rak EXCEPT ![t] = "requested"]
        BY <1>1, <1>6, <3>2 DEF Punched, T
      <4>2. /\ rak' \in [Addrs -> RakStates] /\ rak'[t] = "requested"
            /\ \A b \in Addrs : b # t => rak'[b] = rak[b]
        BY <1>1, <4>1 DEF IInv, TypeOK, RakStates
      <4>3. ListedOk(queue', rak', peers)
        BY <1>3, <4>1, <4>2 DEF IInv, ListedOk
      <4> QED BY <1>3, <4>1, <4>2, <4>3 DEF Pending, Trying
    <3> QED BY <3>1, <3>2
  <2>8. \A b \in Addrs : b # t => Undisturbed(b)
    BY <1>1, <2>6, <2>7, Apart DEF Undisturbed, Pending, PendingTwice, Trying
  <2>9. Owners(t)' = {Ex(t)} /\ t \in DOMAIN info' /\ info'[t].status = "ConnOnAdvance"
    BY <2>3, <2>6 DEF Owners, OwnersIn
  <2>10. /\ forsaken' \subseteq waiting' /\ forsaken \subseteq forsaken'
         /\ \A x : x \in Owed' => x \in Owed /\ (x \in Owners(t) => x = Ex(t))
    BY <1>1, <1>4, <1>6 DEF Punched, Forsake, Owed
  <2>11. ASSUME NEW b \in Addrs PROVE AddrOk(b)' /\ EntryLives(b)'
    <3>0. AddrOk(b) /\ EntryLives(b)
      BY DEF IInv, WaitsOk
    <3>1. CASE b = t
      BY <1>1, <2>9, <2>10, <3>0, <3>1, Apart DEF AddrOk, EntryLives
    <3>2. CASE b # t
      BY <1>4, <2>8, <2>10, <3>0, <3>2, AddrKeeps
    <3> QED BY <3>1, <3>2
  <2>12. ASSUME NEW d \in Domains PROVE NameOk(d)'
    <3>1. CASE d \in Owed'
      <4>1. \A b \in Addrs : d \in Owners(b) => Undisturbed(b)
        BY <2>8, <2>10, <3>1, Apart
      <4>2. d \in Owed /\ (SpecIn(queue, d) => SpecIn(queue, d)')
        BY <2>7, <2>10, <3>1
      <4> QED BY <2>7, <2>10, <4>1, NameKeeps DEF IInv, WaitsOk
    <3>2. CASE d \notin Owed'
      BY <3>2 DEF NameOk
    <3> QED BY <3>1, <3>2
  <2>13. ASSUME NEW u \in Targets PROVE ExOk(u)'
    <3>1. u \in Addrs /\ ExOk(u) /\ (Ex(u) \in DOMAIN info => Ex(u) \in DOMAIN info')
      BY <2>6, Apart DEF IInv, WaitsOk
    <3>2. CASE u = t
      BY <2>7, <2>9, <2>10, <3>1, <3>2 DEF ExOk
    <3>3. CASE u # t
      <4>1. NatPending(u) => NatPending(u)'
        BY <2>7, <3>3 DEF NatPending
      <4> QED BY <2>8, <2>10, <3>1, <3>3, <4>1, ExKeeps
    <3> QED BY <3>2, <3>3
  <2>14. TypeOK'
    <3>1. DOMAIN info' \subseteq ConnIDs /\ \A x \in DOMAIN info' : info'[x] \in ConnInfo
      BY <1>1, <1>4, <2>2, <2>3, <2>4, <2>6, Apart DEF MapOk
    <3> QED BY <1>4, <2>7, <2>10, <3>1 DEF IInv, TypeOK
  <2>15. EntriesOk(info', resolving')
    <3>1. EntryOk(info', resolving', t)
      BY <2>3, <2>6 DEF EntryOk
    <3>2. ASSUME NEW b \in Addrs \cap DOMAIN info', b # t PROVE EntryOk(info', resolving', b)
      <4>1. b \in DOMAIN info /\ info'[b] = info[b] /\ EntryOk(info, resolving, b)
        BY <2>6, <3>2, Apart DEF IInv, EntriesOk
      <4>2. \A e \in Domains \cap DOMAIN info : e \in DOMAIN info' /\ info'[e] = info[e]
        BY <2>6, Apart
      <4> QED BY <4>1, <4>2 DEF EntryOk
    <3>3. \A d \in Domains \cap DOMAIN info' : info'[d].targetID = d
      BY <1>1, <2>6, Apart DEF IInv, EntriesOk
    <3>4. \A u \in Targets : Ex(u) \in DOMAIN info' => info'[Ex(u)].targetID = u
      BY <1>1, <2>6, Apart DEF IInv, EntriesOk
    <3>5. resolving' \subseteq DOMAIN info'
      BY <2>6 DEF IInv, EntriesOk
    <3> QED BY <3>1, <3>2, <3>3, <3>4, <3>5 DEF EntriesOk
  <2>16. SpecOk(queue', info', resolving', waiting')
    BY <1>1, <1>4, <2>6, <2>7, Apart DEF IInv, SpecOk
  <2> QED BY <1>4, <2>7, <2>11, <2>12, <2>13, <2>14, <2>15, <2>16 DEF IInv, WaitsOk
<1> QED BY <1>5, <1>6

Answers == {"ACCEPTED", "FAILED", "REFUSED", "NAT_FAILED"}

\* What is taken from the entries, and whom it is told to: the ConnID c, which is
\* gone from them with S, or (again) the name d that shared the entry of sa.
Tells(sa, g, o, S) ==
  /\ Less(o.map, info, S) /\ ~o.again
  /\ \/ sa \notin DOMAIN info /\ S = {} /\ o.id = NULL /\ ByPeer(info, g) = {}
     \/ sa \notin DOMAIN info /\ S = {o.id} /\ o.id \in ByPeer(info, g)
     \/ /\ sa \in DOMAIN info /\ sa = g /\ g \in Targets /\ info[g].status = "ConnOnAdvance"
        /\ \/ S = {g} /\ o.id = NULL /\ Ex(g) \notin DOMAIN info
           \/ S = {g, Ex(g)} /\ o.id = Ex(g) /\ Ex(g) \in DOMAIN info
     \/ /\ sa \in DOMAIN info /\ sa = g /\ info[sa].status = "DomainResolve"
        /\ S = {sa, o.id} /\ o.id = info[sa].directConn
     \/ sa \in DOMAIN info /\ info[sa].status = "Connecting" /\ S = {sa} /\ o.id = sa

TellsTwo(sa, g, o) ==
  /\ sa \in DOMAIN info /\ sa = g /\ info[sa].status = "ConnectingMulti"
  /\ o.again /\ o.id = info[sa].directConn
  /\ With(o.map, info, sa, Entry(sa, g, "Connecting"))

\* A packet is from the peer that it is about, or from the helper about a target.
From(sa, g) == sa \in Addrs /\ g \in Addrs /\ (sa = g \/ (sa = Aid /\ g \in Targets))

LEMMA FoundIs ==
  ASSUME NEW map, NEW g, NEW o \in FoundByPeer(map, g)
  PROVE  /\ ~o.again
         /\ \/ ByPeer(map, g) = {} /\ o.id = NULL /\ o.map = map
            \/ o.id \in ByPeer(map, g) /\ Less(o.map, map, {o.id})
<1>1. CASE ByPeer(map, g) = {}
  <2>1. o = Outcome(NULL, map, FALSE)
    BY <1>1 DEF FoundByPeer
  <2> QED BY <1>1, <2>1 DEF Outcome
<1>2. CASE ByPeer(map, g) # {}
  <2>1. PICK c \in ByPeer(map, g) : o = Outcome(c, Without(map, {c}), FALSE)
    BY <1>2 DEF FoundByPeer
  <2>2. o.id = c /\ o.map = Without(map, {c}) /\ ~o.again
    BY <2>1 DEF Outcome
  <2> QED BY <2>2, Removing
<1> QED BY <1>1, <1>2

LEMMA OutcomeIs ==
  ASSUME EntriesOk(info, resolving), MapOk(info), Aid \notin Resolvable,
         NEW sa, NEW g, From(sa, g), NEW o \in GetConnID(sa, g)
  PROVE  TellsTwo(sa, g, o) \/ \E S : Tells(sa, g, o, S)
<1>0. sa \in Addrs /\ g \in Addrs /\ (sa = g \/ (sa = Aid /\ g \in Targets)) /\ Aid \notin Targets
  BY Apart DEF From
<1>1. CASE sa \notin DOMAIN info
  <2>1. o \in FoundByPeer(info, g)
    BY <1>1 DEF GetConnID
  <2>2. \/ ByPeer(info, g) = {} /\ o.id = NULL /\ o.map = info
        \/ o.id \in ByPeer(info, g) /\ Less(o.map, info, {o.id})
    BY <2>1, FoundIs
  <2>3. o.map = info => Less(o.map, info, {})
    BY DEF Less
  <2> QED BY <1>1, <2>1, <2>2, <2>3, FoundIs DEF Tells
<1>2. CASE sa \in DOMAIN info
  <2>0. EntryOk(info, resolving, sa)
    BY <1>0, <1>2 DEF EntriesOk
  <2>1. CASE info[sa].status = "Connecting"
    <3>1. o = Outcome(sa, Without(info, {sa}), FALSE)
      BY <1>2, <2>1 DEF GetConnID
    <3>2. o.id = sa /\ ~o.again /\ Less(o.map, info, {sa})
      BY <3>1, Removing DEF Outcome
    <3> QED BY <1>2, <2>1, <3>2 DEF Tells
  <2>2. CASE info[sa].status = "DomainResolve"
    <3>1. o = Outcome(info[sa].directConn, Without(info, {sa, info[sa].directConn}), FALSE)
      BY <1>2, <2>2 DEF GetConnID
    <3>2. o.id = info[sa].directConn /\ ~o.again /\ Less(o.map, info, {sa, o.id})
      BY <3>1, Removing DEF Outcome
    <3>3. sa = g
      BY <1>0, <2>0, <2>2 DEF EntryOk
    <3> QED BY <1>2, <2>2, <3>2, <3>3 DEF Tells
  <2>3. CASE info[sa].status = "ConnectingMulti"
    <3>1. o = FirstOfTwo(sa, g)
      BY <1>2, <2>3 DEF GetConnID
    <3>2. o.id = info[sa].directConn /\ o.again /\ o.map = [info EXCEPT ![sa] = Entry(sa, g, "Connecting")]
      BY <3>1 DEF FirstOfTwo, Outcome
    <3>3. With(o.map, info, sa, Entry(sa, g, "Connecting"))
      BY <1>2, <3>2 DEF With
    <3>4. sa = g
      BY <1>0, <2>0, <2>3 DEF EntryOk
    <3> QED BY <1>2, <2>3, <3>2, <3>3, <3>4 DEF TellsTwo
  <2>4. CASE info[sa].status = "ConnOnAdvance"
    <3>1. sa \in Targets /\ info[sa].targetID = sa /\ sa = g
      BY <1>0, <2>0, <2>4 DEF EntryOk
    <3> DEFINE map == Without(info, {sa})
    <3>2. o \in FoundByPeer(map, sa)
      BY <1>2, <2>4, <3>1 DEF GetConnID
    <3>3. Less(map, info, {sa})
      BY Removing
    <3> HIDE DEF map
    <3>4. DOMAIN map = DOMAIN info \ {sa} /\ \A c \in DOMAIN map : map[c] = info[c]
      BY <3>3 DEF Less
    <3>5. \A c \in ByPeer(map, sa) : c \in ByPeer(info, sa) /\ c # sa
      BY <3>4 DEF ByPeer
    <3>6. ~o.again
      BY <3>2, FoundIs
    <3>7. CASE ByPeer(map, sa) = {} /\ o.id = NULL /\ o.map = map
      <4>1. Ex(sa) \notin DOMAIN info
        <5>1. Ex(sa) # sa
          BY <1>0, <3>1, Apart
        <5> QED BY <3>1, <3>4, <3>7, <5>1 DEF ByPeer, EntriesOk
      <4> QED BY <1>2, <2>4, <3>1, <3>3, <3>6, <3>7, <4>1 DEF Tells
    <3>8. CASE o.id \in ByPeer(map, sa) /\ Less(o.map, map, {o.id})
      <4>1. o.id = Ex(sa) /\ Ex(sa) \in DOMAIN info
        BY <1>0, <3>5, <3>8, ByPeerIs
      <4>2. Less(o.map, info, {sa, Ex(sa)})
        BY <3>4, <3>8, <4>1 DEF Less
      <4> QED BY <1>2, <2>4, <3>1, <3>6, <4>1, <4>2 DEF Tells
    <3> QED BY <3>2, <3>7, <3>8, FoundIs
  <2> QED BY <2>0, <2>1, <2>2, <2>3, <2>4 DEF EntryOk
<1> QED BY <1>1, <1>2

\* What the answer makes of the queue.
LEMMA AnswerQueue ==
  ASSUME IInv, queue # <<>>, NEW p, p = Head(queue), p.type \in Answers,
         NEW o, Answer(p, o),
         peers' = (IF p.type = "ACCEPTED" THEN peers \cup {p.sa} ELSE peers)
  PROVE  /\ queue' \in Seq(Packet) /\ QueueOk(queue') /\ SpecOnce(queue')
         /\ \A d : SpecIn(queue', d) <=> SpecIn(queue, d)
         /\ \A t : NatIn(queue, t) /\ ~IsNat(p, t) => NatIn(queue', t)
         /\ \A b : ~Result(p, b) \/ o.again => /\ ResultIn(queue, b) => ResultIn(queue', b)
                                               /\ TwoIn(queue, b) => TwoIn(queue', b)
         /\ \A b : TwoIn(queue, b) => ResultIn(queue', b)
         /\ \A b : Result(p, b) => ResultIn(queue, b) /\ (o.again => ResultIn(queue', b))
         /\ ListedOk(queue', rak', peers')
         /\ rak' \in [Addrs -> RakStates] /\ peers' \subseteq Addrs
         /\ \A b \in Addrs : Trying(b) => Trying(b)' \/ (b = p.sa /\ p.type = "REFUSED" /\ rak[b] = "handshake")
<1> DEFINE T == Tail(queue)
<1>1. /\ T \in Seq(Packet) /\ p \in Packet /\ PacketOk(p) /\ Grown(queue, T, p) /\ QueueOk(T) /\ SpecOnce(T)
  BY Taken
<1>2. p.sa \in Addrs /\ p.type # "SPECIFIC" /\ (\A d : ~IsSpec(p, d)) /\ \A b : ~Ends(p, b)
  BY <1>1, Apart DEF PacketOk, Answers, IsSpec, Ends
<1>3. /\ rak' \in [Addrs -> RakStates] /\ (Lost(p) => rak'[p.sa] = "none")
      /\ \A b \in Addrs : rak'[b] = rak[b] \/ (b = p.sa /\ p.type = "REFUSED" /\ Active(b) /\ rak'[b] = "none")
  <2>1. rak' = CloseRefused(p) /\ rak \in [Addrs -> RakStates]
    BY DEF Answer, IInv, TypeOK
  <2>2. CASE p.type = "REFUSED" /\ Active(p.sa)
    <3>1. rak' = [rak EXCEPT ![p.sa] = "none"]
      BY <2>1, <2>2 DEF CloseRefused
    <3> QED BY <1>2, <2>1, <2>2, <3>1 DEF RakStates
  <2>3. CASE ~(p.type = "REFUSED" /\ Active(p.sa))
    <3>1. rak' = rak /\ ~Lost(p)
      BY <2>1, <2>3 DEF CloseRefused, Lost, Active
    <3> QED BY <2>1, <3>1
  <2> QED BY <2>2, <2>3
<1>4. \A b \in Addrs : Trying(b) => Trying(b)' \/ (b = p.sa /\ p.type = "REFUSED" /\ rak[b] = "handshake")
  BY <1>3 DEF Trying, Active
<1>5. \A b \in Addrs : rak[b] = "connected" => (b \in peers' /\ NoEnd(T, b)) \/ ListsLast(T, b)
  <2> SUFFICES ASSUME NEW b \in Addrs, rak[b] = "connected"
               PROVE  (b \in peers' /\ NoEnd(T, b)) \/ ListsLast(T, b)
    OBVIOUS
  <2>1. b \in peers' <=> (b \in peers /\ ~Ends(p, b)) \/ Lists(p, b)
    BY <1>2 DEF Lists, Answers
  <2> QED BY <2>1, TakenLists
<1>6. peers' \subseteq Addrs
  BY <1>2 DEF IInv, TypeOK
<1> DEFINE u == IF o.again THEN <<p>> ELSE <<>>
           e == IF Lost(p) THEN <<About("ENDED", p.sa)>> ELSE <<>>
           q1 == IF o.again THEN Append(T, p) ELSE T
<1>7. T \o u = q1
  BY <1>1, Appending, ConcatEmptySeq
<1>8. /\ q1 \in Seq(Packet) /\ QueueOk(q1) /\ SpecOnce(q1)
      /\ \A d : SpecIn(q1, d) <=> SpecIn(queue, d)
      /\ \A t : NatIn(queue, t) /\ ~IsNat(p, t) => NatIn(q1, t)
      /\ \A b : ~Result(p, b) \/ o.again => /\ ResultIn(queue, b) => ResultIn(q1, b)
                                            /\ TwoIn(queue, b) => TwoIn(q1, b)
      /\ \A b : TwoIn(queue, b) => ResultIn(q1, b)
      /\ \A b : Result(p, b) => ResultIn(queue, b) /\ (o.again => ResultIn(q1, b))
      /\ \A b : NoEnd(T, b) => NoEnd(q1, b)
      /\ \A b : ListsLast(T, b) => ListsLast(q1, b)
  <2>1. /\ \A b : ResultIn(queue, b) <=> ResultIn(T, b) \/ Result(p, b)
        /\ \A b : TwoIn(queue, b) <=> TwoIn(T, b) \/ (ResultIn(T, b) /\ Result(p, b))
        /\ \A t : NatIn(queue, t) <=> NatIn(T, t) \/ IsNat(p, t)
        /\ \A d : SpecIn(queue, d) <=> SpecIn(T, d)
    BY <1>1, <1>2 DEF Grown
  <2>2. \A b : TwoIn(T, b) => ResultIn(T, b)
    BY DEF TwoIn, ResultIn
  <2>3. CASE o.again
    <3>1. q1 \in Seq(Packet) /\ Grown(q1, T, p) /\ Order(q1, T, p)
      BY <1>1, <2>3, Appending
    <3> HIDE DEF q1, T
    <3>2. \A b : NoEnd(T, b) => NoEnd(q1, b)
      BY <1>2, <3>1 DEF Grown
    <3>3. \A b : ListsLast(T, b) => ListsLast(q1, b)
      BY <1>2, <3>1 DEF Order
    <3>4. QueueOk(q1) /\ SpecOnce(q1)
      BY <1>1, <1>2, <3>1 DEF Grown
    <3>5. /\ \A b : ResultIn(q1, b) <=> ResultIn(T, b) \/ Result(p, b)
          /\ \A b : TwoIn(q1, b) <=> TwoIn(T, b) \/ (ResultIn(T, b) /\ Result(p, b))
          /\ \A t : NatIn(q1, t) <=> NatIn(T, t) \/ IsNat(p, t)
          /\ \A d : SpecIn(q1, d) <=> SpecIn(T, d)
      BY <1>2, <3>1 DEF Grown
    <3> QED BY <2>1, <2>2, <2>3, <3>1, <3>2, <3>3, <3>4, <3>5
  <2>4. CASE ~o.again
    <3>1. q1 = T
      BY <2>4
    <3> HIDE DEF q1, T
    <3> QED BY <1>1, <2>1, <2>2, <2>4, <3>1
  <2> QED BY <2>3, <2>4
<1>9. queue' = q1 \o e
  BY <1>7 DEF Answer
<1> HIDE DEF q1, T, u
<1>10. CASE Lost(p)
  <2>1. "ENDED" \in Notices
    BY DEF Notices
  <2>2. About("ENDED", p.sa) \in Packet
    BY <1>2, <2>1, NoticeIs
  <2>3. Posted(queue', q1, "ENDED", p.sa)
    BY <1>8, <1>9, <1>10, <2>2, Appending DEF Posted
  <2>4. /\ queue' \in Seq(Packet) /\ QueueOk(queue') /\ SpecOnce(queue')
        /\ Grown(queue', q1, About("ENDED", p.sa)) /\ Order(queue', q1, About("ENDED", p.sa))
        /\ \A d : SpecIn(queue', d) <=> SpecIn(q1, d)
        /\ \A t : NatIn(queue', t) <=> NatIn(q1, t)
        /\ \A b : ResultIn(q1, b) => ResultIn(queue', b)
        /\ \A b : TwoIn(q1, b) => TwoIn(queue', b)
    BY <1>2, <1>8, <2>1, <2>3, NoticePosted
  <2>5. ListedOk(queue', rak', peers')
    <3> SUFFICES ASSUME NEW b \in Addrs, rak'[b] = "connected"
                 PROVE  (b \in peers' /\ NoEnd(queue', b)) \/ ListsLast(queue', b)
      BY DEF ListedOk
    <3>1. b # p.sa /\ rak[b] = "connected"
      BY <1>3, <1>10
    <3>2. ~Ends(About("ENDED", p.sa), b)
      BY <3>1 DEF Ends, About
    <3>3. (b \in peers' /\ NoEnd(q1, b)) \/ ListsLast(q1, b)
      BY <1>5, <1>8, <3>1
    <3> QED BY <2>4, <3>2, <3>3 DEF Grown, Order
  <2> QED BY <1>3, <1>4, <1>6, <1>8, <2>4, <2>5
<1>11. CASE ~Lost(p)
  <2>1. queue' = q1
    BY <1>8, <1>9, <1>11, ConcatEmptySeq
  <2>2. ListedOk(queue', rak', peers')
    BY <1>3, <1>5, <1>8, <2>1 DEF ListedOk
  <2> QED BY <1>3, <1>4, <1>6, <1>8, <2>1, <2>2
<1> QED BY <1>10, <1>11

\* Whose entries are gone: those of the one that is told.
LEMMA TellsIs ==
  ASSUME EntriesOk(info, resolving), MapOk(info), NEW sa, NEW g, From(sa, g),
         NEW o, NEW S, Tells(sa, g, o, S)
  PROVE  /\ S \subseteq DOMAIN info
         /\ sa \in DOMAIN info => sa \in S
         /\ \A b \in Addrs : b \in S => /\ b = sa \/ b = g
                                        /\ b \in Owners(b) => b = o.id
                                        /\ \A d \in Domains : d \in Owners(b) => d = o.id
         /\ \A d \in Domains : d \in S => d = o.id /\ info[d].directConn = sa /\ d \notin resolving
         /\ \A u \in Targets : Ex(u) \in S => u = g /\ o.id = Ex(u)
         /\ o.id = NULL \/ o.id \in S
         /\ \A b \in Addrs : b \in DOMAIN info /\ b \notin S /\ info[b].status # "ConnOnAdvance" =>
              o.id \notin Owners(b)
<1> USE DEF Owners
<1>0. sa \in Addrs /\ g \in Addrs
  BY DEF From
<1>2. CASE sa \notin DOMAIN info /\ S = {} /\ o.id = NULL
  <2>1. \A b \in Addrs : NULL \notin OwnersIn(info, b)
    BY OwnersAre, Apart
  <2> QED BY <1>2, <2>1
<1>3. CASE sa \notin DOMAIN info /\ S = {o.id} /\ o.id \in ByPeer(info, g)
  <2>1. /\ o.id \in DOMAIN info
        /\ \/ o.id = g /\ info[g].status \in {"Connecting", "ConnOnAdvance"}
           \/ g \in Targets /\ o.id = Ex(g)
    BY <1>0, <1>3, ByPeerIs
  <2>2. CASE o.id = g
    <3>1. OwnersIn(info, g) = {g} \/ (OwnersIn(info, g) = {Ex(g)} /\ g \in Targets)
      BY <1>0, <2>1, <2>2, OwnersAre, Apart
    <3>2. \A b \in Addrs : b \in DOMAIN info /\ g \in OwnersIn(info, b) => b = g
      BY <1>0, OwnersAre, Apart
    <3> QED BY <1>0, <1>3, <2>1, <2>2, <3>1, <3>2, Apart
  <2>3. CASE g \in Targets /\ o.id = Ex(g)
    <3>1. \A b \in Addrs : b \in DOMAIN info /\ info[b].status # "ConnOnAdvance" => Ex(g) \notin OwnersIn(info, b)
      BY <2>3, OwnersAre, Apart
    <3> QED BY <1>0, <1>3, <2>1, <2>3, <3>1, Apart
  <2> QED BY <2>1, <2>2, <2>3
<1>4. CASE /\ sa \in DOMAIN info /\ sa = g /\ g \in Targets /\ info[g].status = "ConnOnAdvance"
           /\ \/ S = {g} /\ o.id = NULL /\ Ex(g) \notin DOMAIN info
              \/ S = {g, Ex(g)} /\ o.id = Ex(g) /\ Ex(g) \in DOMAIN info
  <2>1. OwnersIn(info, g) = {Ex(g)}
    BY <1>0, <1>4, OwnersAre
  <2>2. \A b \in Addrs : b \in DOMAIN info /\ info[b].status # "ConnOnAdvance" =>
          Ex(g) \notin OwnersIn(info, b) /\ NULL \notin OwnersIn(info, b)
    BY <1>4, OwnersAre, Apart
  <2> QED BY <1>0, <1>4, <2>1, <2>2, Apart
<1>5. CASE /\ sa \in DOMAIN info /\ sa = g /\ info[sa].status = "DomainResolve"
           /\ S = {sa, o.id} /\ o.id = info[sa].directConn
  <2>1. /\ OwnersIn(info, sa) = {o.id} /\ o.id \in Domains \cap DOMAIN info
        /\ info[o.id].directConn = sa
    BY <1>0, <1>5, OwnersAre
  <2>2. o.id \notin resolving
    BY <1>0, <1>5 DEF EntriesOk, EntryOk
  <2>3. \A b \in Addrs : o.id \in OwnersIn(info, b) => b = sa
    BY <1>0, <2>1, OwnedOnce
  <2> QED BY <1>0, <1>5, <2>1, <2>2, <2>3, Apart
<1>6. CASE sa \in DOMAIN info /\ info[sa].status = "Connecting" /\ S = {sa} /\ o.id = sa
  <2>1. OwnersIn(info, sa) = {sa}
    BY <1>0, <1>6, OwnersAre
  <2>2. \A b \in Addrs : b \in DOMAIN info /\ sa \in OwnersIn(info, b) => b = sa
    BY <1>0, OwnersAre, Apart
  <2> QED BY <1>0, <1>6, <2>1, <2>2, Apart
<1> QED BY <1>2, <1>3, <1>4, <1>5, <1>6 DEF Tells

\* What is common to both ways of answering.
LEMMA ToldIs ==
  ASSUME IInv, queue # <<>>, UNCHANGED <<nat, resolving>>, NEW p, p = Head(queue), Told(p),
         NEW o, Answer(p, o),
         Forsake((IF Misled(p, o) THEN {Ex(p.id)} ELSE {})
                   \cup (IF p.type = "REFUSED" /\ rak[p.sa] = "handshake" THEN Unanswered(p.sa)' ELSE {}))
  PROVE  /\ From(p.sa, p.id)
         /\ waiting' = waiting \ {o.id} /\ forsaken' \subseteq waiting'
         /\ \A c \in forsaken : c \in waiting' => c \in forsaken'
         /\ \A c \in Owed' : c \in Owed /\ c # o.id
         /\ p.type = "NAT_FAILED" => p.id \in Targets /\ Ex(p.id) \notin Owed'
         /\ p.type # "NAT_FAILED" => p.sa = p.id
         /\ p.type = "REFUSED" /\ rak[p.sa] = "handshake" =>
              \A c : c \in Unanswered(p.sa)' /\ c \in waiting' => c \in forsaken'
         /\ \A b \in Addrs : b # p.sa => (Pending(b) => Pending(b)') /\ (PendingTwice(b) => PendingTwice(b)')
         /\ p.type = "NAT_FAILED" \/ o.again => (Pending(p.sa) => Pending(p.sa)')
         /\ \/ p.type = "REFUSED" /\ rak[p.sa] = "handshake"
            \/ /\ PendingTwice(p.sa) => Pending(p.sa)'
               /\ p.type = "NAT_FAILED" \/ o.again => (PendingTwice(p.sa) => PendingTwice(p.sa)')
         /\ \A t \in Targets : NatPending(t) /\ (p.type = "NAT_FAILED" => t # p.id) => NatPending(t)'
         /\ \A d : SpecIn(queue', d) <=> SpecIn(queue, d)
         /\ queue' \in Seq(Packet) /\ QueueOk(queue') /\ SpecOnce(queue')
         /\ ListedOk(queue', rak', peers')
         /\ rak' \in [Addrs -> RakStates] /\ peers' \subseteq Addrs
<1> DEFINE sa == p.sa
           loses == p.type = "REFUSED" /\ rak[sa] = "handshake"
<1>1. /\ p.type \in Answers /\ peers' = (IF p.type = "ACCEPTED" THEN peers \cup {p.sa} ELSE peers)
      /\ PacketOk(p) /\ forsaken \subseteq waiting
  BY Taken DEF Told, Answers, IInv, TypeOK
<1>2. /\ From(p.sa, p.id)
      /\ p.type = "NAT_FAILED" => p.id \in Targets /\ \A b : ~Result(p, b)
      /\ p.type # "NAT_FAILED" => p.sa = p.id /\ \A t : ~IsNat(p, t)
      /\ \A b : Result(p, b) => b = p.sa
      /\ p.type = "REFUSED" => Result(p, p.sa)
      /\ \A t : IsNat(p, t) => t = p.id
  BY <1>1, Apart DEF PacketOk, Answers, From, Result, IsNat
<1>3. /\ waiting' = waiting \ {o.id} /\ forsaken' \subseteq waiting'
      /\ \A c \in forsaken : c \in waiting' => c \in forsaken'
      /\ \A c \in Owed' : c \in Owed /\ c # o.id
      /\ Misled(p, o) => Ex(p.id) \notin Owed'
      /\ loses => \A c : c \in Unanswered(sa)' /\ c \in waiting' => c \in forsaken'
  BY <1>1 DEF Answer, Forsake, Owed
<1>4. p.type = "NAT_FAILED" => Ex(p.id) \notin Owed'
  BY <1>3 DEF Misled
<1>5. /\ queue' \in Seq(Packet) /\ QueueOk(queue') /\ SpecOnce(queue')
      /\ \A d : SpecIn(queue', d) <=> SpecIn(queue, d)
      /\ \A t : NatIn(queue, t) /\ ~IsNat(p, t) => NatIn(queue', t)
      /\ \A b : ~Result(p, b) \/ o.again => /\ ResultIn(queue, b) => ResultIn(queue', b)
                                            /\ TwoIn(queue, b) => TwoIn(queue', b)
      /\ \A b : TwoIn(queue, b) => ResultIn(queue', b)
      /\ \A b : Result(p, b) => ResultIn(queue, b) /\ (o.again => ResultIn(queue', b))
      /\ ListedOk(queue', rak', peers')
      /\ rak' \in [Addrs -> RakStates] /\ peers' \subseteq Addrs
      /\ \A b \in Addrs : Trying(b) => Trying(b)' \/ (b = sa /\ loses)
  BY <1>1, AnswerQueue
<1>6. \A b \in Addrs : b # sa => (Pending(b) => Pending(b)') /\ (PendingTwice(b) => PendingTwice(b)')
  BY <1>2, <1>5 DEF Pending, PendingTwice
<1>7. sa \in Addrs
  BY <1>2 DEF From
<1>8. ASSUME p.type = "NAT_FAILED" \/ o.again, Pending(sa) PROVE Pending(sa)'
  <2>1. CASE loses
    BY <1>2, <1>5, <1>8, <2>1 DEF Pending
  <2>2. CASE ~loses
    BY <1>2, <1>5, <1>7, <1>8, <2>2 DEF Pending
  <2> QED BY <2>1, <2>2
<1>9. ASSUME ~loses, PendingTwice(sa) PROVE Pending(sa)'
  BY <1>5, <1>7, <1>9 DEF Pending, PendingTwice
<1>10. ASSUME ~loses, PendingTwice(sa), p.type = "NAT_FAILED" \/ o.again PROVE PendingTwice(sa)'
  BY <1>2, <1>5, <1>7, <1>10 DEF PendingTwice
<1>11. ASSUME NEW t \in Targets, NatPending(t), p.type = "NAT_FAILED" => t # p.id PROVE NatPending(t)'
  BY <1>2, <1>5, <1>11 DEF NatPending
<1> QED BY <1>2, <1>3, <1>4, <1>5, <1>6, <1>8, <1>9, <1>10, <1>11

LEMMA ToldOne ==
  ASSUME IInv, queue # <<>>, UNCHANGED <<nat, resolving>>, NEW p, p = Head(queue), Told(p),
         NEW o, Answer(p, o),
         Forsake((IF Misled(p, o) THEN {Ex(p.id)} ELSE {})
                   \cup (IF p.type = "REFUSED" /\ rak[p.sa] = "handshake" THEN Unanswered(p.sa)' ELSE {})),
         NEW S, Tells(p.sa, p.id, o, S)
  PROVE  IInv'
<1> DEFINE sa == p.sa
           g == p.id
           loses == p.type = "REFUSED" /\ rak[sa] = "handshake"
<1>1. /\ From(sa, g) /\ UNCHANGED <<nat, resolving>>
      /\ waiting' = waiting \ {o.id} /\ forsaken' \subseteq waiting'
      /\ \A c \in forsaken : c \in waiting' => c \in forsaken'
      /\ \A c \in Owed' : c \in Owed /\ c # o.id
      /\ p.type = "NAT_FAILED" => g \in Targets /\ Ex(g) \notin Owed'
      /\ p.type # "NAT_FAILED" => sa = g
      /\ loses => \A c : c \in Unanswered(sa)' /\ c \in waiting' => c \in forsaken'
      /\ \A b \in Addrs : b # sa => (Pending(b) => Pending(b)') /\ (PendingTwice(b) => PendingTwice(b)')
      /\ loses \/ (PendingTwice(sa) => Pending(sa)')
      /\ \A t \in Targets : NatPending(t) /\ (p.type = "NAT_FAILED" => t # g) => NatPending(t)'
      /\ \A d : SpecIn(queue', d) <=> SpecIn(queue, d)
      /\ queue' \in Seq(Packet) /\ QueueOk(queue') /\ SpecOnce(queue')
      /\ ListedOk(queue', rak', peers')
      /\ rak' \in [Addrs -> RakStates] /\ peers' \subseteq Addrs
  BY ToldIs
<1>2. EntriesOk(info, resolving) /\ MapOk(info)
  BY DEF IInv, TypeOK, MapOk
<1>3. Tells(sa, g, o, S)
  OBVIOUS
<1>4. DOMAIN info' = DOMAIN info \ S /\ \A c \in DOMAIN info' : info'[c] = info[c]
  BY DEF Tells, Answer, Less
<1> HIDE DEF sa, g, loses
<1>5. /\ S \subseteq DOMAIN info
      /\ sa \in DOMAIN info => sa \in S
      /\ \A b \in Addrs : b \in S => /\ b = sa \/ b = g
                                     /\ b \in Owners(b) => b = o.id
                                     /\ \A d \in Domains : d \in Owners(b) => d = o.id
      /\ \A d \in Domains : d \in S => d = o.id /\ info[d].directConn = sa /\ d \notin resolving
      /\ \A u \in Targets : Ex(u) \in S => u = g /\ o.id = Ex(u)
      /\ o.id = NULL \/ o.id \in S
      /\ \A b \in Addrs : b \in DOMAIN info /\ b \notin S /\ info[b].status # "ConnOnAdvance" =>
           o.id \notin Owners(b)
  BY <1>1, <1>2, <1>3, TellsIs
<1>6. \A b \in Addrs : b \notin S /\ b # sa => Undisturbed(b)
  BY <1>1, <1>4 DEF Undisturbed
<1>7. \A b \in Addrs : b \notin DOMAIN info => Owners(b) = {}
  BY <1>2, OwnersAre DEF Owners
<1>8. ASSUME NEW b \in Addrs PROVE AddrOk(b)' /\ EntryLives(b)'
  <2>0. AddrOk(b) /\ EntryLives(b)
    BY DEF IInv, WaitsOk
  <2>1. CASE b \in S
    <3>1. b \notin DOMAIN info' /\ b \notin Owed'
      BY <1>1, <1>4, <1>5, <2>0, <2>1 DEF AddrOk
    <3> QED BY <3>1 DEF AddrOk, EntryLives
  <2>2. CASE b \notin S /\ b # sa
    BY <1>1, <1>5, <1>6, <2>0, <2>2, AddrKeeps
  <2>3. CASE b \notin S /\ b = sa
    <3>1. b \notin DOMAIN info /\ b \notin DOMAIN info' /\ b \notin Owed'
      BY <1>1, <1>4, <1>5, <1>7, <2>0, <2>3 DEF AddrOk
    <3> QED BY <3>1 DEF AddrOk, EntryLives
  <2> QED BY <2>1, <2>2, <2>3
<1>9. ASSUME NEW d \in Domains PROVE NameOk(d)'
  <2>1. CASE d \in Owed'
    <3>1. d \in Owed /\ d # o.id
      BY <1>1, <2>1
    <3>2. \A b \in Addrs : d \in Owners(b) => Undisturbed(b)
      BY <1>5, <1>6, <1>7, <3>1
    <3>3. SpecIn(queue, d) => SpecIn(queue, d)'
      BY <1>1
    <3> QED BY <1>1, <3>1, <3>2, <3>3, NameKeeps DEF IInv, WaitsOk
  <2>2. CASE d \notin Owed'
    BY <2>2 DEF NameOk
  <2> QED BY <2>1, <2>2
<1>10. ASSUME NEW u \in Targets, Ex(u) \in Owed' PROVE ExOk(u)'
  <2>0. u \in Addrs /\ u # Aid /\ ExOk(u)
    BY Apart DEF IInv, WaitsOk
  <2>1. Ex(u) \in Owed /\ Ex(u) # o.id
    BY <1>1, <1>10
  <2>2. Ex(u) \in DOMAIN info /\ Ex(u) \in DOMAIN info'
    BY <1>4, <1>5, <2>0, <2>1 DEF ExOk
  <2>3. CASE u # g
    <3>1. Undisturbed(u)
      BY <1>1, <1>5, <1>6, <2>0, <2>3 DEF From
    <3> QED BY <1>1, <2>0, <2>1, <2>2, <2>3, <3>1, ExKeeps
  <2>4. CASE u = g
    <3>1. p.type # "NAT_FAILED" /\ sa = u
      BY <1>1, <1>10, <2>4
    <3>2. CASE loses
      BY <1>1, <2>0, <2>2, <3>1, <3>2, Written
    <3>3. CASE ~loses
      <4>1. u \in DOMAIN info /\ Ex(u) \notin Owners(u)
        <5>1. Ex(u) \in ByPeer(info, u)
          BY <1>2, <2>2, ExByPeer
        <5>2. ASSUME o.id \in ByPeer(info, u) PROVE u \in DOMAIN info
          BY <1>2, <2>0, <2>1, <5>2, ByPeerIs
        <5>3. u \in DOMAIN info /\ info[u].status \in {"DomainResolve", "Connecting"}
          BY <1>3, <2>1, <2>2, <2>4, <3>1, <5>1, <5>2 DEF Tells
        <5> QED BY <1>2, <2>0, <5>3, OwnersAre, Apart DEF Owners
      <4>2. NatPending(u) \/ PendingTwice(u)
        BY <2>0, <2>1, <4>1 DEF ExOk, OneForEx
      <4>3. u \notin DOMAIN info'
        BY <1>4, <1>5, <3>1, <4>1
      <4>4. NatPending(u)' \/ OneForEx(u)'
        BY <1>1, <3>1, <3>3, <4>2, <4>3 DEF OneForEx
      <4> QED BY <2>2, <4>4 DEF ExOk
    <3> QED BY <3>2, <3>3
  <2> QED BY <2>3, <2>4
<1>11. \A u \in Targets : ExOk(u)'
  BY <1>10 DEF ExOk
<1>12. TypeOK'
  <2>1. DOMAIN info' \subseteq ConnIDs /\ \A c \in DOMAIN info' : info'[c] \in ConnInfo
    BY <1>2, <1>4 DEF MapOk
  <2> QED BY <1>1, <2>1 DEF IInv, TypeOK
<1>13. EntriesOk(info', resolving')
  <2>1. ASSUME NEW b \in Addrs \cap DOMAIN info' PROVE EntryOk(info', resolving', b)
    <3>1. b \in DOMAIN info /\ info'[b] = info[b] /\ EntryOk(info, resolving, b) /\ b # sa
      BY <1>2, <1>4, <1>5 DEF EntriesOk
    <3>2. \A e \in Domains \cap DOMAIN info : info[e].directConn = b => e \in DOMAIN info' /\ info'[e] = info[e]
      BY <1>4, <1>5, <3>1
    <3> QED BY <1>1, <3>1, <3>2 DEF EntryOk
  <2>2. resolving' \subseteq DOMAIN info'
    BY <1>1, <1>2, <1>4, <1>5 DEF EntriesOk, IInv, TypeOK
  <2> QED BY <1>2, <1>4, <2>1, <2>2 DEF EntriesOk
<1>14. SpecOk(queue', info', resolving', waiting')
  <2>1. \A d \in Domains : d = o.id => d \in DOMAIN info /\ d \notin resolving
    BY <1>5, Apart
  <2>2. resolving' \subseteq waiting'
    BY <1>1, <2>1 DEF IInv, TypeOK, SpecOk
  <2>3. ASSUME NEW d \in Domains, SpecIn(queue', d) PROVE d \in waiting' /\ d \notin DOMAIN info'
    BY <1>1, <1>4, <2>1, <2>3 DEF IInv, SpecOk
  <2> QED BY <1>1, <2>2, <2>3 DEF SpecOk
<1> QED BY <1>1, <1>8, <1>9, <1>11, <1>12, <1>13, <1>14 DEF IInv, WaitsOk

\* The name is told, and its direct connect stays.
LEMMA ToldTwo ==
  ASSUME IInv, queue # <<>>, UNCHANGED <<nat, resolving>>, NEW p, p = Head(queue), Told(p),
         NEW o, Answer(p, o),
         Forsake((IF Misled(p, o) THEN {Ex(p.id)} ELSE {})
                   \cup (IF p.type = "REFUSED" /\ rak[p.sa] = "handshake" THEN Unanswered(p.sa)' ELSE {})),
         TellsTwo(p.sa, p.id, o)
  PROVE  IInv'
<1> DEFINE sa == p.sa
           g == p.id
           loses == p.type = "REFUSED" /\ rak[sa] = "handshake"
           v == Entry(sa, g, "Connecting")
<1>1. /\ From(sa, g) /\ UNCHANGED <<nat, resolving>>
      /\ waiting' = waiting \ {o.id} /\ forsaken' \subseteq waiting'
      /\ \A c \in forsaken : c \in waiting' => c \in forsaken'
      /\ \A c \in Owed' : c \in Owed /\ c # o.id
      /\ p.type = "NAT_FAILED" => Ex(g) \notin Owed'
      /\ loses => \A c : c \in Unanswered(sa)' /\ c \in waiting' => c \in forsaken'
      /\ \A b \in Addrs : b # sa => (Pending(b) => Pending(b)') /\ (PendingTwice(b) => PendingTwice(b)')
      /\ o.again => (Pending(sa) => Pending(sa)')
      /\ loses \/ (o.again => (PendingTwice(sa) => PendingTwice(sa)'))
      /\ \A t \in Targets : NatPending(t) /\ (p.type = "NAT_FAILED" => t # g) => NatPending(t)'
      /\ \A d : SpecIn(queue', d) <=> SpecIn(queue, d)
      /\ queue' \in Seq(Packet) /\ QueueOk(queue') /\ SpecOnce(queue')
      /\ ListedOk(queue', rak', peers')
      /\ rak' \in [Addrs -> RakStates] /\ peers' \subseteq Addrs
  BY ToldIs
<1>2. EntriesOk(info, resolving) /\ MapOk(info)
  BY DEF IInv, TypeOK, MapOk
<1>3. /\ sa \in DOMAIN info /\ sa = g /\ sa \in Addrs /\ info[sa].status = "ConnectingMulti"
      /\ o.again /\ o.id = info[sa].directConn
  BY <1>1 DEF TellsTwo, From
<1>4. v.status = "Connecting" /\ v.targetID = sa /\ v \in ConnInfo
  BY <1>3, Apart DEF Entry, ConnInfo, Statuses
<1> HIDE DEF v
<1>5. /\ DOMAIN info' = DOMAIN info /\ info'[sa] = v
      /\ \A c \in DOMAIN info : c # sa => info'[c] = info[c]
  BY <1>3 DEF TellsTwo, Answer, With, v
<1> HIDE DEF sa, g, loses
<1>6. /\ Owners(sa) = {sa, o.id} /\ o.id \in Domains \cap DOMAIN info /\ o.id \notin resolving /\ o.id # sa
      /\ Owners(sa)' = {sa}
  <2>1. Owners(sa) = {sa, o.id} /\ o.id \in Domains \cap DOMAIN info
    BY <1>2, <1>3, OwnersAre DEF Owners
  <2>2. o.id \notin resolving
    BY <1>2, <1>3 DEF EntriesOk, EntryOk
  <2>3. Owners(sa)' = {sa}
    BY <1>3, <1>4, <1>5 DEF Owners, OwnersIn
  <2> QED BY <1>3, <2>1, <2>2, <2>3, Apart
<1>7. \A b \in Addrs : b # sa => Undisturbed(b) /\ o.id \notin Owners(b)
  <2>1. \A b \in Addrs : o.id \in Owners(b) => b = sa
    BY <1>2, <1>3, <1>6, OwnedOnce DEF Owners
  <2> QED BY <1>1, <1>5, <2>1 DEF Undisturbed
<1>8. ASSUME NEW b \in Addrs PROVE AddrOk(b)' /\ EntryLives(b)'
  <2>0. AddrOk(b) /\ EntryLives(b)
    BY DEF IInv, WaitsOk
  <2>1. CASE b # sa
    BY <1>1, <1>7, <2>0, <2>1, AddrKeeps
  <2>2. CASE b = sa
    <3>1. AddrOk(sa)'
      BY <1>1, <1>3, <1>6, <2>0, <2>2 DEF AddrOk
    <3>2. sa \in waiting' /\ (sa \in forsaken => sa \in forsaken')
      BY <1>1, <1>3, <1>6, <2>0, <2>2 DEF EntryLives
    <3>3. Pending(sa)' \/ Dead(sa)'
      BY <1>1, <1>3, <1>6, <2>0, <2>2, <3>2 DEF AddrOk, Owed, Dead
    <3> QED BY <1>6, <2>2, <3>1, <3>2, <3>3 DEF EntryLives
  <2> QED BY <2>1, <2>2
<1>9. ASSUME NEW d \in Domains PROVE NameOk(d)'
  <2>1. CASE d \in Owed'
    <3>1. d \in Owed /\ d # o.id
      BY <1>1, <2>1
    <3>2. \A b \in Addrs : d \in Owners(b) => Undisturbed(b)
      BY <1>3, <1>6, <1>7, <3>1, Apart
    <3>3. SpecIn(queue, d) => SpecIn(queue, d)'
      BY <1>1
    <3> QED BY <1>1, <3>1, <3>2, <3>3, NameKeeps DEF IInv, WaitsOk
  <2>2. CASE d \notin Owed'
    BY <2>2 DEF NameOk
  <2> QED BY <2>1, <2>2
<1>10. ASSUME NEW u \in Targets, Ex(u) \in Owed' PROVE ExOk(u)'
  <2>0. u \in Addrs /\ ExOk(u) /\ Ex(u) \in Owed /\ Ex(u) # sa /\ Ex(u) # o.id
    BY <1>1, <1>3, <1>10, Apart DEF IInv, WaitsOk
  <2>1. Ex(u) \in DOMAIN info /\ Ex(u) \in DOMAIN info'
    BY <1>5, <2>0 DEF ExOk
  <2>2. CASE u # sa
    BY <1>1, <1>3, <1>7, <2>0, <2>1, <2>2, ExKeeps
  <2>3. CASE u = sa
    <3>1. p.type # "NAT_FAILED"
      BY <1>1, <1>3, <1>10, <2>3
    <3>2. CASE loses
      BY <1>1, <2>0, <2>1, <2>3, <3>2, Written
    <3>3. CASE ~loses
      <4>1. NatPending(u) \/ PendingTwice(u)
        BY <1>3, <1>6, <2>0, <2>3 DEF ExOk, OneForEx
      <4>2. NatPending(u)' \/ OneForEx(u)'
        BY <1>1, <1>3, <1>5, <2>3, <3>1, <3>3, <4>1 DEF OneForEx
      <4> QED BY <2>1, <4>2 DEF ExOk
    <3> QED BY <3>2, <3>3
  <2> QED BY <2>2, <2>3
<1>11. \A u \in Targets : ExOk(u)'
  BY <1>10 DEF ExOk
<1>12. TypeOK'
  <2>1. DOMAIN info' \subseteq ConnIDs /\ \A c \in DOMAIN info' : info'[c] \in ConnInfo
    BY <1>2, <1>4, <1>5 DEF MapOk
  <2> QED BY <1>1, <2>1 DEF IInv, TypeOK
<1>13. EntriesOk(info', resolving')
  <2>1. ASSUME NEW b \in Addrs \cap DOMAIN info' PROVE EntryOk(info', resolving', b)
    <3>1. CASE b = sa
      BY <1>4, <1>5, <3>1 DEF EntryOk
    <3>2. CASE b # sa
      <4>1. b \in DOMAIN info /\ info'[b] = info[b] /\ EntryOk(info, resolving, b)
        BY <1>2, <1>5, <3>2 DEF EntriesOk
      <4>2. \A e \in Domains \cap DOMAIN info : e \in DOMAIN info' /\ info'[e] = info[e]
        BY <1>3, <1>5, Apart
      <4> QED BY <1>1, <4>1, <4>2 DEF EntryOk
    <3> QED BY <3>1, <3>2
  <2>2. \A e \in Domains \cap DOMAIN info' : info'[e].targetID = e
    BY <1>2, <1>3, <1>5, Apart DEF EntriesOk
  <2>3. \A u \in Targets : Ex(u) \in DOMAIN info' => info'[Ex(u)].targetID = u
    BY <1>2, <1>3, <1>5, Apart DEF EntriesOk
  <2> QED BY <1>1, <1>2, <1>5, <2>1, <2>2, <2>3 DEF EntriesOk
<1>14. SpecOk(queue', info', resolving', waiting')
  <2>2. resolving' \subseteq waiting'
    BY <1>1, <1>6 DEF IInv, SpecOk
  <2>3. ASSUME NEW d \in Domains, SpecIn(queue', d) PROVE d \in waiting' /\ d \notin DOMAIN info'
    BY <1>1, <1>5, <1>6, <2>3 DEF IInv, SpecOk
  <2> QED BY <1>1, <2>2, <2>3 DEF SpecOk
<1> QED BY <1>1, <1>8, <1>9, <1>11, <1>12, <1>13, <1>14 DEF IInv, WaitsOk

LEMMA ToldKeeps ==
  ASSUME IInv, Aid \notin Resolvable, queue # <<>>, UNCHANGED <<nat, resolving>>,
         NEW p, p = Head(queue), Told(p)
  PROVE  IInv'
<1>1. PICK o \in GetConnID(p.sa, p.id) :
         /\ Answer(p, o)
         /\ Forsake((IF Misled(p, o) THEN {Ex(p.id)} ELSE {})
                      \cup (IF p.type = "REFUSED" /\ rak[p.sa] = "handshake" THEN Unanswered(p.sa)' ELSE {}))
  BY DEF Told
<1>2. From(p.sa, p.id)
  BY <1>1, ToldIs
<1>3. EntriesOk(info, resolving) /\ MapOk(info)
  BY DEF IInv, TypeOK, MapOk
<1>4. TellsTwo(p.sa, p.id, o) \/ \E S : Tells(p.sa, p.id, o, S)
  BY <1>2, <1>3, OutcomeIs
<1> QED BY <1>1, <1>4, ToldOne, ToldTwo

-----------------------------------------------------------------------------
(* The invariant.                                                          *)

LEMMA IInvInit ==
  ASSUME Init
  PROVE  IInv
<1>1. DOMAIN info = {} /\ DOMAIN queue = {} /\ waiting = {} /\ resolving = {} /\ nat = {}
      /\ \A a \in Addrs : rak[a] = "none"
  BY DEF Init
<1>2. TypeOK
  BY <1>1 DEF Init, TypeOK, RakStates
<1>3. WaitsOk
  BY <1>1 DEF WaitsOk, AddrOk, EntryLives, NameOk, ExOk, Owed
<1> QED BY <1>1, <1>2, <1>3
        DEF IInv, QueueOk, EntriesOk, SpecOk, SpecOnce, SpecIn, ListedOk

LEMMA IInvNext ==
  ASSUME IInv, Aid \notin Resolvable, [Next]_vars
  PROVE  IInv'
<1>1. CASE Program
  BY <1>1, ConnectKeeps, CloseKeeps, ConnectToDomainKeeps, ConnectExKeeps DEF Program
<1>2. CASE Resolved
  BY <1>2, NameFailsKeeps, NameLeadsKeeps DEF Resolved
<1>3. CASE ProcPacket
  <2>1. PICK p : p = Head(queue)
    OBVIOUS
  <2>2. /\ queue # <<>> /\ UNCHANGED <<nat, resolving>>
        /\ Told(p) \/ NameFailed(p) \/ Listed(p) \/ Punched(p)
    BY <1>3, <2>1 DEF ProcPacket
  <2> QED BY <2>1, <2>2, ToldKeeps, NameFailedKeeps, ListedKeeps, PunchedKeeps
<1>4. CASE Network
  BY <1>4, NetworkKeeps
<1>5. CASE UNCHANGED vars
  BY <1>5 DEF vars, IInv, TypeOK, WaitsOk, AddrOk, EntryLives, NameOk, ExOk, Owed, Owners, OwnersIn,
    Pending, Trying, Dead, NatPending, OneForEx, PendingTwice
<1> QED BY <1>1, <1>2, <1>3, <1>4, <1>5 DEF Next

\* The invariant says what NetInv does.
LEMMA IInvIsEnough ==
  ASSUME IInv
  PROVE  NetInv
<1>0. EntriesOk(info, resolving)
  BY DEF IInv
<1>1. EntriesLead
  <2> SUFFICES ASSUME NEW a \in Addrs \cap DOMAIN info
               PROVE  /\ a \in waiting \ forsaken => Pending(a)
                      /\ info[a].status \in {"DomainResolve", "ConnectingMulti"} =>
                           info[a].directConn \in DOMAIN info
    BY DEF EntriesLead
  <2>1. EntryOk(info, resolving, a)
    BY <1>0 DEF EntriesOk
  <2> QED BY <2>1 DEF EntryOk, IInv, WaitsOk, AddrOk, Owed
<1>2. NobodyWaitsInVain
  <2> SUFFICES ASSUME NEW c \in waiting \ forsaken PROVE Sourced(c)
    BY DEF NobodyWaitsInVain
  <2>0. c \in Owed /\ c \in ConnIDs
    BY DEF Owed, IInv, TypeOK
  <2>1. CASE c \in Addrs
    <3>1. c \in Owners(c) /\ Pending(c)
      BY <2>0, <2>1 DEF IInv, WaitsOk, AddrOk
    <3>2. c \in DOMAIN info
      BY <1>0, <2>1, <3>1, OwnersAre DEF Owners
    <3> QED BY <2>1, <3>1, <3>2 DEF Sourced
  <2>2. CASE c \in Domains
    <3>1. NameOk(c)
      BY <2>2 DEF IInv, WaitsOk
    <3>2. c \in resolving => c \in DOMAIN info
      BY <1>0 DEF EntriesOk
    <3>3. ASSUME NEW a \in Addrs, c \in Owners(a) PROVE c \in DOMAIN info
      BY <1>0, <2>2, <3>3, OwnersAre, Apart DEF Owners
    <3> QED BY <2>0, <2>2, <3>1, <3>2, <3>3 DEF NameOk, Sourced, SpecIn
  <2>3. ASSUME NEW t \in Targets, c = Ex(t) PROVE Sourced(c)
    <3>1. ExOk(t) /\ t \in Addrs
      BY Apart DEF IInv, WaitsOk
    <3> QED BY <2>0, <2>3, <3>1 DEF ExOk, Sourced
  <2> QED BY <2>0, <2>1, <2>2, <2>3, Apart
<1>3. \A a \in Addrs : Connected(a)
  <2> SUFFICES ASSUME NEW a \in Addrs, rak[a] = "connected", a \notin peers
               PROVE  Queued("ACCEPTED", a) \/ Queued("INCOMING", a)
    BY DEF Connected
  <2>1. PICK j \in DOMAIN queue : Lists(queue[j], a)
    BY DEF IInv, ListedOk, ListsLast
  <2>2. queue[j] \in Packet /\ PacketOk(queue[j])
    BY DEF IInv, TypeOK, QueueOk
  <2>3. queue[j].id = a /\ queue[j].sa = a /\ queue[j].type \in {"ACCEPTED", "INCOMING"}
    BY <2>1, <2>2 DEF Lists, PacketOk
  <2>4. queue[j] = About(queue[j].type, a)
    BY <2>2, <2>3 DEF Packet, About
  <2> QED BY <2>3, <2>4 DEF Queued
<1> QED BY <1>1, <1>2, <1>3 DEF NetInv, IInv

\* Whatever connects the program mixes, behind each ConnID that XNetEngine has
\* returned, and whose answer is not lost in a way that forsaken names, there is
\* a name in JinDNS, a request to the helper or a result of RakPeer on its way,
\* and the entries of ConnectingInfoMap by which _ProcPacket will find it.
THEOREM NobodyIsLeftWaiting ==
  ASSUME Aid \notin Resolvable
  PROVE  Spec => []NetInv
<1>1. Init => IInv
  BY IInvInit
<1>2. IInv /\ [Next]_vars => IInv'
  BY IInvNext
<1>3. IInv => NetInv
  BY IInvIsEnough
<1> QED BY <1>1, <1>2, <1>3, PTL DEF Spec

-----------------------------------------------------------------------------
(* What a ConnID is told.                                                  *)

\* While the helper's own connect waits, it is connected only with a result under
\* way, it is asked only when connected, and its refusals come after the result.
HelperOk ==
  Aid \in DOMAIN info =>
    /\ rak[Aid] = "connected" => ResultIn(queue, Aid)
    /\ nat # {} => rak[Aid] = "connected"
    /\ Behind(queue)

LEMMA HelperStays ==
  ASSUME HelperOk, Aid \in DOMAIN info' => Aid \in DOMAIN info,
         ResultIn(queue, Aid) => ResultIn(queue, Aid)', Behind(queue) => Behind(queue)',
         rak'[Aid] = "connected" => rak[Aid] = "connected" \/ ResultIn(queue, Aid)',
         \/ nat' \subseteq nat /\ (rak[Aid] = "connected" => rak'[Aid] = "connected" \/ nat' = {})
         \/ rak'[Aid] = "connected"
  PROVE  HelperOk'
BY DEF HelperOk

\* A notice keeps the order.
LEMMA NoticeBehind ==
  ASSUME NEW q \in Seq(Packet), QueueOk(q), NEW a \in Addrs, NEW type \in Notices,
         NEW q2, Posted(q2, q, type, a)
  PROVE  /\ Behind(q) => Behind(q2)
         /\ ResultIn(q, Aid) => ResultIn(q2, Aid)
<1>1. Order(q2, q, About(type, a)) /\ \A b : ResultIn(q, b) => ResultIn(q2, b)
  BY NoticePosted
<1>2. ~Refusal(About(type, a))
  BY NoticeIs
<1> QED BY <1>1, <1>2 DEF Order

LEMMA HelperReports ==
  ASSUME IInv, HelperOk, NEW a \in Addrs, NEW from, NEW to, NEW type \in Notices,
         RakGoes(a, from, to), queue' = Append(queue, About(type, a)), UNCHANGED info, nat' \subseteq nat,
         to = "connected" => type = "ACCEPTED" \/ a # Aid,
         "connected" \in from /\ a = Aid => nat' = {}
  PROVE  HelperOk'
<1>1. /\ rak[a] \in from /\ rak'[a] = to /\ \A b \in Addrs : b # a => rak'[b] = rak[b]
  BY DEF RakGoes, IInv, TypeOK
<1>2. queue \in Seq(Packet) /\ QueueOk(queue) /\ Posted(queue', queue, type, a)
  BY DEF IInv, TypeOK, Posted
<1>3. /\ Behind(queue) => Behind(queue')
      /\ ResultIn(queue, Aid) => ResultIn(queue', Aid)
  BY <1>2, NoticeBehind
<1>4. type = "ACCEPTED" => ResultIn(queue', a)
  BY <1>2, NoticePosted
<1> QED BY <1>1, <1>3, <1>4, HelperStays, Apart

LEMMA HelperTurns ==
  ASSUME IInv, HelperOk, NEW a \in Addrs, NEW from, NEW to, to # "connected",
         RakGoes(a, from, to), UNCHANGED <<queue, info>>, nat' \subseteq nat,
         "connected" \in from /\ a = Aid => nat' = {}
  PROVE  HelperOk'
<1>1. /\ rak[a] \in from /\ rak'[a] = to /\ \A b \in Addrs : b # a => rak'[b] = rak[b]
  BY DEF RakGoes, IInv, TypeOK
<1> QED BY <1>1, HelperStays, Apart

LEMMA NetworkHelper ==
  ASSUME IInv, HelperOk, Network
  PROVE  HelperOk'
<1>1. ASSUME NEW a \in Addrs, Handshake(a) PROVE HelperOk'
  BY <1>1, HelperTurns DEF Handshake, EngineKeeps
<1>2. ASSUME NEW a \in Addrs, Dropped(a) PROVE HelperOk'
  BY <1>2, HelperTurns DEF Dropped, EngineKeeps
<1>3. ASSUME NEW a \in Addrs, NEW from, NEW to, NEW type \in Notices, Reports(a, from, to, type),
             "connected" \notin from, to = "connected" => type = "ACCEPTED" \/ a # Aid
      PROVE  HelperOk'
  BY <1>3, HelperReports DEF Reports, EngineKeeps
<1>4. ASSUME NEW a \in Addrs, Attempts(a) PROVE HelperOk'
  BY <1>3, <1>4 DEF Attempts, Accepted, AttemptFails, Refused, Notices
<1>5. ASSUME NEW a \in Addrs, Incoming(a) PROVE HelperOk'
  BY <1>3, <1>5 DEF Incoming, Notices
<1>6. ASSUME NEW a \in Addrs, Closed(a) PROVE HelperOk'
  BY <1>3, <1>6 DEF Closed, Notices
<1>7. ASSUME NEW a \in Addrs, ConnectionEnds(a) PROVE HelperOk'
  <2>1. UNCHANGED info /\ nat' \subseteq nat /\ (a = Aid => nat' = {})
    BY <1>7 DEF ConnectionEnds, EngineKeeps
  <2>2. CASE RakGoes(a, {"connected"}, "none") /\ queue' = Append(queue, About("ENDED", a))
    <3>1. "ENDED" \in Notices
      BY DEF Notices
    <3> QED BY <1>7, <2>1, <2>2, <3>1, HelperReports
  <2>3. CASE RakGoes(a, {"connected"}, "closing") /\ UNCHANGED queue
    BY <1>7, <2>1, <2>3, HelperTurns
  <2> QED BY <1>7, <2>2, <2>3 DEF ConnectionEnds
<1>8. ASSUME NEW t \in Targets, NatAnswers(t) PROVE HelperOk'
  <2>0. t \in Addrs /\ t # Aid /\ queue \in Seq(Packet) /\ NULL \notin Addrs
    BY Apart DEF IInv, TypeOK
  <2>1. UNCHANGED <<rak, info>> /\ nat' \subseteq nat /\ t \in nat
    BY <1>8 DEF NatAnswers, EngineKeeps
  <2>2. ASSUME NEW type \in {"SUCCEEDED", "NAT_FAILED"}, queue' = <<About(type, t)>> \o queue PROVE HelperOk'
    <3>1. About(type, t) \in Packet /\ ~Refusal(About(type, t))
      BY <2>0 DEF About, Packet, Types, Refusal
    <3>2. /\ Behind(queue) => Behind(queue')
          /\ Grown(queue', queue, About(type, t))
      BY <2>0, <2>2, <3>1, Fronting
    <3>3. ResultIn(queue, Aid) => ResultIn(queue', Aid)
      BY <3>2 DEF Grown
    <3> QED BY <2>1, <3>2, <3>3, HelperStays
  <2>3. CASE queue' = Append(queue, [type |-> "NAT_FAILED", sa |-> Aid, id |-> t])
    <3> DEFINE m == [type |-> "NAT_FAILED", sa |-> Aid, id |-> t]
    <3>1. m \in Packet
      BY <2>0, Apart DEF Packet, Types
    <3> HIDE DEF m
    <3>2. Order(queue', queue, m) /\ Grown(queue', queue, m)
      BY <2>0, <2>3, <3>1, Appending DEF m
    <3>3. /\ ResultIn(queue, Aid) => ResultIn(queue', Aid)
          /\ Behind(queue) /\ ResultIn(queue, Aid) => Behind(queue')
      BY <3>2 DEF Grown, Order
    <3> QED BY <2>1, <3>3 DEF HelperOk
  <2> QED BY <1>8, <2>2, <2>3 DEF NatAnswers
<1> QED BY <1>1, <1>2, <1>4, <1>5, <1>6, <1>7, <1>8 DEF Network

LEMMA ProgramHelper ==
  ASSUME IInv, HelperOk, ~BusyHelper, Aid \notin Resolvable, Program \/ Resolved
  PROVE  HelperOk'
<1>0. queue \in Seq(Packet) /\ QueueOk(queue) /\ rak \in [Addrs -> RakStates] /\ nat \subseteq Targets
  BY DEF IInv, TypeOK
<1>1. ASSUME NEW a \in Addrs, Attempt(a) PROVE
        /\ ResultIn(queue, Aid) => ResultIn(queue', Aid)
        /\ Behind(queue) => Behind(queue')
        /\ rak'[Aid] = "connected" => rak[Aid] = "connected"
        /\ rak[Aid] = "connected" => rak'[Aid] = "connected"
        /\ rak'[Aid] = "connected" /\ a = Aid => ResultIn(queue', Aid)
  <2>1. CASE Active(a)
    <3>1. Posted(queue', queue, "ACCEPTED", a) /\ rak' = rak /\ "ACCEPTED" \in Notices
      BY <1>1, <2>1 DEF Attempt, Posted, Notices
    <3>2. ResultIn(queue', a)
      BY <1>0, <3>1, NoticePosted
    <3>3. (ResultIn(queue, Aid) => ResultIn(queue', Aid)) /\ (Behind(queue) => Behind(queue'))
      BY <1>0, <3>1, NoticeBehind
    <3> QED BY <3>1, <3>2, <3>3
  <2>2. CASE ~Active(a)
    <3>1. queue' = queue /\ rak' = [rak EXCEPT ![a] = "requested"]
      BY <1>1, <2>2 DEF Attempt
    <3>2. rak'[a] = "requested" /\ rak[a] # "connected" /\ \A b \in Addrs : b # a => rak'[b] = rak[b]
      BY <1>0, <2>2, <3>1 DEF Active
    <3> QED BY <3>1, <3>2, Apart
  <2> QED BY <2>1, <2>2
<1>2. ASSUME NEW a \in Addrs, Connect(a) PROVE HelperOk'
  <2>1. Attempt(a) /\ nat' = nat /\ DOMAIN info' = DOMAIN info \cup {a}
    BY <1>2, Putting DEF Connect, With
  <2>2. CASE a # Aid
    BY <1>1, <2>1, <2>2, HelperStays
  <2>3. CASE a = Aid
    <3>1. \A t \in Targets : ~NatPending(t)
      BY <1>2, <2>3 DEF Connect
    <3>2. nat = {} /\ Behind(queue)
      BY <1>0, <3>1 DEF NatPending, NatIn, Behind, Refusal, QueueOk, PacketOk
    <3> QED BY <1>1, <2>1, <2>3, <3>2 DEF HelperOk
  <2> QED BY <2>2, <2>3
<1>3. ASSUME NEW a \in Addrs, Close(a) PROVE HelperOk'
  <2>1. /\ UNCHANGED <<queue, info>> /\ nat' \subseteq nat /\ (a = Aid => nat' = {})
        /\ \A b \in Addrs : rak'[b] = "connected" => rak[b] = "connected"
        /\ \A b \in Addrs : b # a => rak'[b] = rak[b]
    BY <1>0, <1>3 DEF Close, Active
  <2> QED BY <2>1, HelperStays, Apart
<1>4. ASSUME NEW d \in Domains, ConnectToDomain(d) PROVE HelperOk'
  <2>1. UNCHANGED <<queue, rak, nat>> /\ DOMAIN info' = DOMAIN info \cup {d} /\ d # Aid
    BY <1>4, Putting, Apart DEF ConnectToDomain, With
  <2> QED BY <2>1, HelperStays
<1>5. ASSUME NEW t \in Targets, ConnectEx(t) PROVE HelperOk'
  <2>0. t \in Addrs /\ Ex(t) # Aid
    BY Apart
  <2>1. Aid \in DOMAIN info' => Aid \in DOMAIN info
    <3>1. CASE rak[t] = "connected" \/ rak[Aid] = "connected"
      <4>1. With(info', info, Ex(t), Entry(NULL, t, "ConnectingEx"))
        BY <1>5, <3>1, Putting DEF ConnectEx
      <4> QED BY <2>0, <4>1 DEF With
    <3>2. CASE ~(rak[t] = "connected" \/ rak[Aid] = "connected")
      <4>1. Less(info', info, {Ex(t)})
        BY <1>5, <3>2, Removing DEF ConnectEx
      <4> QED BY <4>1 DEF Less
    <3> QED BY <3>1, <3>2
  <2>2. CASE rak[t] = "connected"
    <3>1. Attempt(t) /\ rak' = rak /\ nat' = nat
      BY <1>5, <2>2 DEF ConnectEx, Attempt, Active
    <3> QED BY <1>1, <2>0, <2>1, <3>1, HelperStays
  <2>3. CASE rak[t] # "connected"
    <3>1. UNCHANGED <<queue, rak>> /\ nat' = (IF rak[Aid] = "connected" THEN nat \cup {t} ELSE nat)
      BY <1>5, <2>3 DEF ConnectEx
    <3> QED BY <2>1, <3>1, HelperStays
  <2> QED BY <2>2, <2>3
<1>6. ASSUME NEW d \in Domains, NEW a \in Resolvable \cup {NULL}, OnDnsParsed(d, a) PROVE HelperOk'
  <2>1. CASE NameFails(d, a)
    <3> DEFINE m == [type |-> "SPECIFIC", sa |-> NULL, id |-> d]
    <3>1. queue' = Append(queue, m) /\ info' = Without(info, {d}) /\ UNCHANGED <<rak, nat>>
      BY <1>6, <2>1 DEF OnDnsParsed
    <3>2. m \in Packet /\ ~Refusal(m)
      BY DEF Packet, Types, Refusal
    <3> HIDE DEF m
    <3>3. Order(queue', queue, m) /\ Grown(queue', queue, m)
      BY <1>0, <3>1, <3>2, Appending
    <3>4. (ResultIn(queue, Aid) => ResultIn(queue', Aid)) /\ (Behind(queue) => Behind(queue'))
      BY <3>2, <3>3 DEF Grown, Order
    <3>5. Less(info', info, {d})
      BY <3>1, Removing
    <3>6. Aid \in DOMAIN info' => Aid \in DOMAIN info
      BY <3>5 DEF Less
    <3> QED BY <3>1, <3>4, <3>6, HelperStays
  <2>2. CASE ~NameFails(d, a)
    <3>0. a \in Addrs /\ a # Aid
      BY <2>2, Apart DEF NameFails
    <3>1. nat' = nat /\ (UNCHANGED <<queue, rak>> \/ Attempt(a))
      BY <1>6, <2>2 DEF OnDnsParsed
    <3>2. PICK status : info' = Put([info EXCEPT ![d].directConn = a], a, Entry(d, d, status))
      BY <1>6, <2>2 DEF OnDnsParsed, Linked
    <3> DEFINE f == [info EXCEPT ![d].directConn = a]
    <3>6. With(info', f, a, Entry(d, d, status))
      BY <3>2, Putting
    <3>7. DOMAIN f = DOMAIN info
      OBVIOUS
    <3> HIDE DEF f
    <3>3. DOMAIN info' = DOMAIN info \cup {a}
      BY <3>6, <3>7 DEF With
    <3>4. CASE UNCHANGED <<queue, rak>>
      BY <3>0, <3>1, <3>3, <3>4, HelperStays
    <3>5. CASE Attempt(a)
      BY <1>1, <3>0, <3>1, <3>3, <3>5, HelperStays
    <3> QED BY <3>1, <3>4, <3>5
  <2> QED BY <2>1, <2>2
<1> QED BY <1>2, <1>3, <1>4, <1>5, <1>6 DEF Program, Resolved

\* What the packet at the head is told to.
LEMMA ToldTo ==
  ASSUME IInv, Aid \notin Resolvable, queue # <<>>, UNCHANGED <<nat, resolving>>,
         NEW p, p = Head(queue), Told(p)
  PROVE  \E o : /\ Answer(p, o) /\ From(p.sa, p.id) /\ p.type \in Answers
                /\ peers' = (IF p.type = "ACCEPTED" THEN peers \cup {p.sa} ELSE peers)
                /\ TellsTwo(p.sa, p.id, o) \/ \E S : Tells(p.sa, p.id, o, S)
<1>1. PICK o \in GetConnID(p.sa, p.id) :
         /\ Answer(p, o)
         /\ Forsake((IF Misled(p, o) THEN {Ex(p.id)} ELSE {})
                      \cup (IF p.type = "REFUSED" /\ rak[p.sa] = "handshake" THEN Unanswered(p.sa)' ELSE {}))
  BY DEF Told
<1>2. From(p.sa, p.id)
  BY <1>1, ToldIs
<1>3. EntriesOk(info, resolving) /\ MapOk(info)
  BY DEF IInv, TypeOK, MapOk
<1>4. TellsTwo(p.sa, p.id, o) \/ \E S : Tells(p.sa, p.id, o, S)
  BY <1>2, <1>3, OutcomeIs
<1>5. /\ p.type \in Answers
      /\ peers' = (IF p.type = "ACCEPTED" THEN peers \cup {p.sa} ELSE peers)
  BY DEF Told, Answers
<1> QED BY <1>1, <1>2, <1>4, <1>5

LEMMA TakenBehind ==
  ASSUME IInv, queue # <<>>, NEW p, p = Head(queue), Behind(queue)
  PROVE  ~Refusal(p) /\ (Behind(Tail(queue)) \/ Result(p, Aid))
BY Taking DEF IInv, TypeOK

LEMMA ToldHelper ==
  ASSUME IInv, HelperOk, Aid \notin Resolvable, queue # <<>>, UNCHANGED <<nat, resolving>>,
         NEW p, p = Head(queue), Told(p)
  PROVE  HelperOk'
<1>1. PICK o : /\ Answer(p, o) /\ From(p.sa, p.id) /\ p.type \in Answers
               /\ peers' = (IF p.type = "ACCEPTED" THEN peers \cup {p.sa} ELSE peers)
               /\ TellsTwo(p.sa, p.id, o) \/ \E S : Tells(p.sa, p.id, o, S)
  BY ToldTo
<1>2. Aid \in DOMAIN info' => Aid \in DOMAIN info /\ (p.sa = Aid => o.again)
  <2>1. CASE TellsTwo(p.sa, p.id, o)
    BY <1>1, <2>1 DEF TellsTwo, Answer, With
  <2>2. ASSUME NEW S, Tells(p.sa, p.id, o, S) PROVE Aid \in DOMAIN info' => Aid \in DOMAIN info /\ p.sa # Aid
    <3>1. DOMAIN info' = DOMAIN info \ S
      BY <1>1, <2>2 DEF Tells, Answer, Less
    <3>2. p.sa \in DOMAIN info => p.sa \in S
      BY <2>2 DEF Tells
    <3> QED BY <3>1, <3>2
  <2> QED BY <1>1, <2>1, <2>2
<1>3. TellsTwo(p.sa, p.id, o) => p.sa # Aid
  <2>1. ASSUME TellsTwo(p.sa, p.id, o), p.sa = Aid PROVE FALSE
    <3>1. EntryOk(info, resolving, Aid)
      BY <2>1, Apart DEF TellsTwo, IInv, EntriesOk
    <3> QED BY <2>1, <3>1 DEF TellsTwo, EntryOk
  <2> QED BY <2>1
<1>4. CASE Aid \notin DOMAIN info'
  BY <1>4 DEF HelperOk
<1>5. CASE Aid \in DOMAIN info'
  <2>1. p.sa # Aid /\ Aid \in DOMAIN info
    BY <1>1, <1>2, <1>3, <1>5 DEF Tells
  <2>2. ~Result(p, Aid) /\ Behind(queue)
    BY <2>1 DEF Result, HelperOk
  <2>3. ~Refusal(p) /\ Behind(Tail(queue))
    BY <2>2, TakenBehind
  <2>4. /\ ResultIn(queue, Aid) => ResultIn(queue', Aid)
        /\ rak' \in [Addrs -> RakStates]
    BY <1>1, <2>2, AnswerQueue
  <2>5. rak'[Aid] = rak[Aid]
    <3>1. rak' = CloseRefused(p) /\ rak \in [Addrs -> RakStates]
      BY <1>1 DEF Answer, IInv, TypeOK
    <3> QED BY <2>1, <3>1 DEF CloseRefused
  <2>6. Behind(queue')
    <3> DEFINE T == Tail(queue)
               u == IF o.again THEN <<p>> ELSE <<>>
               q1 == IF o.again THEN Append(T, p) ELSE T
               e == IF Lost(p) THEN <<About("ENDED", p.sa)>> ELSE <<>>
    <3>1. T \in Seq(Packet) /\ p \in Packet
      BY Taken
    <3>2. T \o u = q1 /\ q1 \in Seq(Packet)
      BY <3>1, Appending, ConcatEmptySeq
    <3>3. queue' = q1 \o e
      BY <1>1, <3>2 DEF Answer
    <3>4. Behind(q1)
      <4>1. CASE o.again
        <5>1. Order(q1, T, p)
          BY <3>1, <4>1, Appending
        <5> HIDE DEF q1, T
        <5> QED BY <2>3, <5>1 DEF Order, T
      <4>2. CASE ~o.again
        BY <2>3, <4>2
      <4> QED BY <4>1, <4>2
    <3> HIDE DEF q1, T, u
    <3>5. CASE Lost(p)
      <4>1. "ENDED" \in Notices /\ p.sa \in Addrs
        BY <1>1 DEF Notices, From
      <4>2. About("ENDED", p.sa) \in Packet /\ ~Refusal(About("ENDED", p.sa))
        BY <4>1, NoticeIs
      <4>3. queue' = Append(q1, About("ENDED", p.sa)) /\ Order(queue', q1, About("ENDED", p.sa))
        BY <3>2, <3>3, <3>5, <4>2, Appending
      <4> QED BY <3>4, <4>2, <4>3 DEF Order
    <3>6. CASE ~Lost(p)
      BY <3>2, <3>3, <3>4, <3>6, ConcatEmptySeq
    <3> QED BY <3>5, <3>6
  <2> QED BY <2>1, <2>4, <2>5, <2>6, HelperStays
<1> QED BY <1>4, <1>5

LEMMA ProcPacketHelper ==
  ASSUME IInv, HelperOk, Aid \notin Resolvable, queue # <<>>, UNCHANGED <<nat, resolving>>,
         NEW p, p = Head(queue), Told(p) \/ NameFailed(p) \/ Listed(p) \/ Punched(p)
  PROVE  HelperOk'
<1>1. CASE Told(p)
  BY <1>1, ToldHelper
<1>0. Tail(queue) \in Seq(Packet) /\ QueueOk(Tail(queue)) /\ PacketOk(p) /\ Grown(queue, Tail(queue), p)
  BY Taken
<1>2. ASSUME p.type \notin {"ACCEPTED", "FAILED", "REFUSED"}
      PROVE  /\ ResultIn(queue, Aid) => ResultIn(Tail(queue), Aid)
             /\ Behind(queue) => Behind(Tail(queue))
  <2>1. ~Result(p, Aid)
    BY <1>2 DEF Result
  <2> QED BY <1>0, <2>1, TakenBehind DEF Grown
<1>3. CASE NameFailed(p)
  BY <1>2, <1>3, HelperStays DEF NameFailed
<1>4. CASE Listed(p)
  BY <1>2, <1>4, HelperStays DEF Listed
<1>5. CASE Punched(p)
  <2>0. p.type = "SUCCEEDED"
    BY <1>5 DEF Punched
  <2>1. p.id \in Targets /\ p.id \in Addrs /\ p.id # Aid
    BY <1>0, <2>0, Apart DEF PacketOk
  <2>2. CASE ByPeer(info, p.id) = {}
    BY <1>2, <1>5, <2>0, <2>2, HelperStays DEF Punched
  <2>3. CASE ByPeer(info, p.id) # {}
    <3>1. PICK c : info' = Put([info EXCEPT ![c].directConn = p.id], p.id, Entry(p.id, p.id, "ConnOnAdvance"))
      BY <1>5, <2>3 DEF Punched, Advanced
    <3> DEFINE f == [info EXCEPT ![c].directConn = p.id]
    <3>6. With(info', f, p.id, Entry(p.id, p.id, "ConnOnAdvance"))
      BY <3>1, Putting
    <3>7. DOMAIN f = DOMAIN info
      OBVIOUS
    <3> HIDE DEF f
    <3>2. DOMAIN info' = DOMAIN info \cup {p.id}
      BY <3>6, <3>7 DEF With
    <3>3. rak'[Aid] = rak[Aid]
      <4>1. rak' = rak \/ rak' = [rak EXCEPT ![p.id] = "requested"]
        BY <1>5, <2>3 DEF Punched
      <4>2. rak \in [Addrs -> RakStates] /\ Aid \in Addrs
        BY Apart DEF IInv, TypeOK
      <4> QED BY <2>1, <4>1, <4>2
    <3>4. /\ ResultIn(queue, Aid) => ResultIn(queue', Aid)
          /\ Behind(queue) => Behind(queue')
      <4>1. CASE Active(p.id)
        <5>1. Posted(queue', Tail(queue), "ACCEPTED", p.id) /\ "ACCEPTED" \in Notices
          BY <1>5, <2>3, <4>1 DEF Punched, Posted, Notices
        <5>2. /\ Behind(Tail(queue)) => Behind(queue')
              /\ ResultIn(Tail(queue), Aid) => ResultIn(queue', Aid)
          BY <1>0, <2>1, <5>1, NoticeBehind
        <5> QED BY <1>2, <2>0, <5>2
      <4>2. CASE ~Active(p.id)
        BY <1>2, <1>5, <2>0, <2>3, <4>2 DEF Punched
      <4> QED BY <4>1, <4>2
    <3> QED BY <2>1, <3>2, <3>3, <3>4, HelperStays
  <2> QED BY <2>2, <2>3
<1> QED BY <1>1, <1>3, <1>4, <1>5

LEMMA HelperNext ==
  ASSUME IInv, HelperOk, ~BusyHelper, Aid \notin Resolvable, [Next]_vars
  PROVE  HelperOk'
<1>1. CASE ProcPacket
  <2>1. PICK p : p = Head(queue)
    OBVIOUS
  <2>2. /\ queue # <<>> /\ UNCHANGED <<nat, resolving>>
        /\ Told(p) \/ NameFailed(p) \/ Listed(p) \/ Punched(p)
    BY <1>1, <2>1 DEF ProcPacket
  <2> QED BY <2>1, <2>2, ProcPacketHelper
<1>2. CASE UNCHANGED vars
  BY <1>2 DEF vars, HelperOk
<1> QED BY <1>1, <1>2, ProgramHelper, NetworkHelper DEF Next

TellsRight == \A c \in waiting \ waiting' : StandsFor(c, Head(queue))

LEMMA ToldRight ==
  ASSUME IInv, HelperOk, Aid \notin Resolvable, queue # <<>>, UNCHANGED <<nat, resolving>>,
         NEW p, p = Head(queue), Told(p), NEW c \in waiting \ waiting'
  PROVE  StandsFor(c, p)
<1>1. PICK o : /\ Answer(p, o) /\ From(p.sa, p.id) /\ p.type \in Answers
               /\ peers' = (IF p.type = "ACCEPTED" THEN peers \cup {p.sa} ELSE peers)
               /\ TellsTwo(p.sa, p.id, o) \/ \E S : Tells(p.sa, p.id, o, S)
  BY ToldTo
<1>2. c = o.id
  BY <1>1 DEF Answer
<1>3. EntriesOk(info, resolving) /\ MapOk(info) /\ p.sa \in Addrs /\ p.id \in Addrs
  BY <1>1 DEF IInv, TypeOK, MapOk, From
<1>4. CASE TellsTwo(p.sa, p.id, o)
  <2>1. /\ p.sa \in DOMAIN info /\ info[p.sa].status = "ConnectingMulti"
        /\ o.id = info[p.sa].directConn /\ p.sa = p.id
    BY <1>4 DEF TellsTwo
  <2>2. o.id \in Domains \cap DOMAIN info /\ info[o.id].directConn = p.sa
    BY <1>3, <2>1, OwnersAre
  <2> QED BY <1>2, <2>1, <2>2 DEF StandsFor
<1>5. ASSUME NEW S, Tells(p.sa, p.id, o, S) PROVE StandsFor(c, p)
  <2>0. c # NULL
    <3>1. c \in ConnIDs
      BY DEF IInv, TypeOK
    <3> QED BY <3>1, Apart
  <2>1. CASE o.id \in ByPeer(info, p.id)
    BY <1>2, <1>3, <2>1, ByPeerIs DEF StandsFor
  <2>2. CASE o.id = Ex(p.id)
    BY <1>2, <2>2 DEF StandsFor
  <2>3. CASE p.sa \in DOMAIN info /\ p.sa = p.id /\ info[p.sa].status = "DomainResolve" /\ o.id = info[p.sa].directConn
    <3>1. o.id \in Domains \cap DOMAIN info /\ info[o.id].directConn = p.sa
      BY <1>3, <2>3, OwnersAre
    <3> QED BY <1>2, <2>3, <3>1 DEF StandsFor
  <2>4. CASE p.sa \in DOMAIN info /\ o.id = p.sa
    <3>1. CASE p.sa = p.id
      BY <1>2, <2>4, <3>1 DEF StandsFor
    <3>2. CASE p.sa # p.id
      <4>1. p.sa = Aid /\ Behind(queue)
        BY <1>1, <2>4, <3>2 DEF From, HelperOk
      <4>2. ~Refusal(p) /\ PacketOk(p)
        BY <4>1, TakenBehind, Taken
      <4> QED BY <1>1, <3>2, <4>1, <4>2 DEF PacketOk, Refusal, Answers
    <3> QED BY <3>1, <3>2
  <2> QED BY <1>2, <1>5, <2>0, <2>1, <2>2, <2>3, <2>4 DEF Tells
<1> QED BY <1>1, <1>4, <1>5

LEMMA RightNext ==
  ASSUME IInv, HelperOk, Aid \notin Resolvable, [Next]_vars
  PROVE  TellsRight
<1>1. CASE ProcPacket
  <2> SUFFICES ASSUME NEW c \in waiting \ waiting' PROVE StandsFor(c, Head(queue))
    BY DEF TellsRight
  <2>1. PICK p : p = Head(queue)
    OBVIOUS
  <2>2. /\ queue # <<>> /\ UNCHANGED <<nat, resolving>>
        /\ Told(p) \/ NameFailed(p) \/ Listed(p) \/ Punched(p)
    BY <1>1, <2>1 DEF ProcPacket
  <2>3. CASE Told(p)
    BY <2>1, <2>2, <2>3, ToldRight
  <2>4. CASE NameFailed(p)
    BY <2>1, <2>4 DEF NameFailed, StandsFor
  <2>5. CASE Listed(p) \/ Punched(p)
    BY <2>5 DEF Listed, Punched
  <2> QED BY <2>2, <2>3, <2>4, <2>5
<1>2. ASSUME waiting \subseteq waiting' PROVE TellsRight
  BY <1>2 DEF TellsRight
<1>3. CASE Program
  <2>1. ASSUME NEW a \in Addrs, Connect(a) PROVE waiting \subseteq waiting'
    BY <2>1 DEF Connect
  <2>2. ASSUME NEW a \in Addrs, Close(a) PROVE waiting \subseteq waiting'
    BY <2>2 DEF Close
  <2>3. ASSUME NEW d \in Domains, ConnectToDomain(d) PROVE waiting \subseteq waiting'
    BY <2>3 DEF ConnectToDomain
  <2>4. ASSUME NEW t \in Targets, ConnectEx(t) PROVE waiting \subseteq waiting'
    BY <2>4 DEF ConnectEx
  <2> QED BY <1>2, <1>3, <2>1, <2>2, <2>3, <2>4 DEF Program
<1>4. CASE Resolved
  BY <1>2, <1>4 DEF Resolved, OnDnsParsed
<1>5. CASE Network
  BY <1>2, <1>5 DEF Network, Handshake, Attempts, Accepted, AttemptFails, Refused, Incoming, Closed,
    Dropped, Reports, ConnectionEnds, NatAnswers, EngineKeeps
<1>6. CASE UNCHANGED vars
  BY <1>2, <1>6 DEF vars
<1> QED BY <1>1, <1>3, <1>4, <1>5, <1>6 DEF Next

\* _ProcPacket reports to a ConnID only what happened to the peer that it stands
\* for, in a program that does not connect to the helper itself while the helper
\* has its request: a refusal of the helper would be taken for that connect's.
THEOREM AnswersAreAboutThePeer ==
  ASSUME ~BusyHelper, Aid \notin Resolvable
  PROVE  Spec => RightPeer
<1>1. Init => IInv /\ HelperOk
  BY IInvInit DEF Init, HelperOk
<1>2. IInv /\ HelperOk /\ [Next]_vars => IInv' /\ HelperOk'
  BY IInvNext, HelperNext
<1>3. IInv /\ HelperOk /\ [Next]_vars => [\A c \in waiting \ waiting' : StandsFor(c, Head(queue))]_vars
  BY RightNext DEF TellsRight
<1> QED BY <1>1, <1>2, <1>3, PTL DEF Spec, RightPeer
=============================================================================
