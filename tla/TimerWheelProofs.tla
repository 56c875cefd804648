-------------------------- MODULE TimerWheelProofs --------------------------
(***************************************************************************)
(* Proofs about TimerWheel, for any granularity, number of slots and set   *)
(* of intervals: the lists of the wheel stay in order, every record has    *)
(* one owner, and the wheel implements Timers.                             *)
(***************************************************************************)
EXTENDS TimerWheel, FiniteSetTheorems, SequenceTheorems,
        WellFoundedInduction, TLAPS

-----------------------------------------------------------------------------
(* Numbers.                                                                *)

\* A non-empty set of numbers has a least one.
LEMMA Least ==
  ASSUME NEW T \in SUBSET Nat, T # {}
  PROVE  \E x \in T : \A y \in T : x <= y
<1> DEFINE R == {ss \in Nat \X Nat : ss[1] < ss[2]}
<1>1. IsWellFoundedOn(R, Nat)
  BY NatLessThanWellFounded DEF OpToRel
<1>2. PICK x \in T : \A y \in T : <<y, x>> \notin R
  <2> HIDE DEF R
  <2> QED BY <1>1, WFMin
<1>3. ASSUME NEW y \in T PROVE x <= y
  <2>1. <<y, x>> \in Nat \X Nat /\ <<y, x>> \notin R
    BY <1>2
  <2>2. <<y, x>>[1] = y /\ <<y, x>>[2] = x
    OBVIOUS
  <2>3. ~(y < x)
    BY <2>1, <2>2
  <2> QED BY <2>3
<1> QED BY <1>3

\* A set of positions that has all those before its own ends at its size.
LEMMA Prefix ==
  ASSUME NEW n \in Nat, NEW T \in SUBSET (1 .. n), \A k \in T : \A j \in 1 .. k : j \in T
  PROVE  Cardinality(T) \in 0 .. n /\ T = 1 .. Cardinality(T)
<1> DEFINE Rest == (1 .. n + 1) \ T
<1>1. PICK m \in Rest : \A y \in Rest : m <= y
  <2>1. Rest \in SUBSET Nat /\ n + 1 \in Rest
    OBVIOUS
  <2> HIDE DEF Rest
  <2> QED BY <2>1, Least
<1>2. m \in 1 .. n + 1 /\ m \notin T /\ \A y \in 1 .. n + 1 : y < m => y \in T
  BY <1>1
<1>3. T = 1 .. m - 1
  <2>1. ASSUME NEW y \in T PROVE y \in 1 .. m - 1
    <3>1. ~(m <= y)
      BY <1>2, <2>1
    <3> QED BY <1>2, <3>1
  <2>2. ASSUME NEW y \in 1 .. m - 1 PROVE y \in T
    BY <1>2
  <2> QED BY <2>1, <2>2
<1>4. Cardinality(1 .. m - 1) = m - 1
  <2>1. 1 \in Int /\ m - 1 \in Int
    BY <1>2
  <2>2. Cardinality(1 .. m - 1) = IF 1 > m - 1 THEN 0 ELSE (m - 1) - 1 + 1
    BY <2>1, FS_Interval
  <2> QED BY <1>2, <2>2
<1> QED BY <1>2, <1>3, <1>4

-----------------------------------------------------------------------------
(* The turn in which a node is due.                                        *)

\* d adds up the distances of the first n nodes.
Sums(list, d, n) ==
  d = [j \in 0 .. n |-> IF j = 0 THEN 0 ELSE d[j - 1] + list[j].interval]

LEMMA SumGoesOn ==
  ASSUME NEW list, NEW n \in Nat, NEW d, Sums(list, d, n)
  PROVE  \E e : Sums(list, e, n + 1)
<1> DEFINE next == d[n] + list[n + 1].interval
           e == [j \in 0 .. n + 1 |-> IF j = n + 1 THEN next ELSE d[j]]
<1>1. \A j \in 0 .. n : e[j] = d[j]
  OBVIOUS
<1>2. ASSUME NEW j \in 0 .. n + 1
      PROVE  e[j] = IF j = 0 THEN 0 ELSE e[j - 1] + list[j].interval
  <2>1. CASE j = n + 1
    <3>1. n \in 0 .. n /\ j - 1 = n /\ j # 0
      BY <2>1
    <3>2. e[j - 1] = d[n] /\ e[j] = next
      BY <1>1, <2>1, <3>1
    <3> HIDE DEF e
    <3> QED BY <2>1, <3>1, <3>2
  <2>2. CASE j # n + 1
    <3>1. j \in 0 .. n /\ (j # 0 => j - 1 \in 0 .. n)
      BY <2>2
    <3>2. e[j] = d[j] /\ (j # 0 => e[j - 1] = d[j - 1])
      BY <1>1, <3>1
    <3>3. d[j] = IF j = 0 THEN 0 ELSE d[j - 1] + list[j].interval
      BY <3>1 DEF Sums
    <3> HIDE DEF e
    <3> QED BY <3>2, <3>3
  <2> QED BY <2>1, <2>2
<1>3. e = [j \in 0 .. n + 1 |-> e[j]]
  OBVIOUS
<1> HIDE DEF e
<1>4. Sums(list, e, n + 1)
  BY <1>2, <1>3 DEF Sums
<1> QED BY <1>4

LEMMA DepthSums ==
  ASSUME NEW list \in Seq(Node)
  PROVE  \E d : Sums(list, d, Len(list)) /\ \A k : Depth(list, k) = d[k]
<1> DEFINE T == {n \in Nat : ~ \E d : Sums(list, d, n)}
<1>1. T = {}
  <2> SUFFICES ASSUME T # {} PROVE FALSE
    OBVIOUS
  <2>1. PICK n \in T : \A m \in T : n <= m
    <3>1. T \in SUBSET Nat
      OBVIOUS
    <3> HIDE DEF T
    <3> QED BY <3>1, Least
  <2>2. n # 0
    <3>1. Sums(list, [j \in 0 .. 0 |-> 0], 0)
      BY DEF Sums
    <3> QED BY <3>1, <2>1
  <2>3. n - 1 \in Nat /\ n - 1 \notin T
    BY <2>1, <2>2
  <2>4. PICK d : Sums(list, d, n - 1)
    BY <2>3
  <2>5. \E e : Sums(list, e, (n - 1) + 1)
    BY <2>3, <2>4, SumGoesOn
  <2>6. (n - 1) + 1 = n
    BY <2>1
  <2> QED BY <2>1, <2>5, <2>6
<1>2. Len(list) \in Nat
  OBVIOUS
<1>3. \E d : d = [j \in 0 .. Len(list) |-> IF j = 0 THEN 0 ELSE d[j - 1] + list[j].interval]
  BY <1>1, <1>2 DEF Sums
<1> DEFINE f == CHOOSE d : d = [j \in 0 .. Len(list) |->
                                  IF j = 0 THEN 0 ELSE d[j - 1] + list[j].interval]
<1>4. f = [j \in 0 .. Len(list) |-> IF j = 0 THEN 0 ELSE f[j - 1] + list[j].interval]
  BY ZenonT(60), <1>3
<1>5. \A k : Depth(list, k) = f[k]
  BY Zenon DEF Depth
<1> HIDE DEF f
<1> QED BY <1>4, <1>5 DEF Sums

LEMMA NodeFields ==
  ASSUME NEW node \in Node
  PROVE  node.interval \in Nat /\ node.msgs \subseteq Ids /\ node.msgs # {}
BY DEF Node

LEMMA DepthFacts ==
  ASSUME NEW list \in Seq(Node)
  PROVE  /\ Depth(list, 0) = 0
         /\ \A k \in 1 .. Len(list) : Depth(list, k) = Depth(list, k - 1) + list[k].interval
         /\ \A k \in 0 .. Len(list) : Depth(list, k) \in Nat
<1>1. PICK d : Sums(list, d, Len(list)) /\ \A k : Depth(list, k) = d[k]
  BY DepthSums
<1> DEFINE n == Len(list)
<1>2. n \in Nat /\ \A k \in 1 .. n : list[k].interval \in Nat
  BY NodeFields
<1> HIDE DEF n
<1>3. d[0] = 0
  BY <1>1, <1>2 DEF Sums, n
<1>4. \A k \in 1 .. n : d[k] = d[k - 1] + list[k].interval
  BY <1>1, <1>2 DEF Sums, n
<1>5. \A k \in 0 .. n : d[k] \in Nat
  <2> DEFINE T == {k \in 0 .. n : d[k] \notin Nat}
  <2>1. T = {}
    <3> SUFFICES ASSUME T # {} PROVE FALSE
      OBVIOUS
    <3>1. PICK x \in T : \A y \in T : x <= y
      <4>1. T \in SUBSET Nat
        BY <1>2
      <4> HIDE DEF T
      <4> QED BY <4>1, Least
    <3>2. x \in 1 .. n /\ x - 1 \in 0 .. n /\ x - 1 \notin T
      BY <1>2, <1>3, <3>1
    <3>3. d[x - 1] \in Nat /\ d[x] \notin Nat
      BY <3>1, <3>2
    <3>4. d[x] = d[x - 1] + list[x].interval /\ list[x].interval \in Nat
      BY <1>2, <1>4, <3>2
    <3> HIDE DEF T
    <3> QED BY <3>3, <3>4
  <2> QED BY <2>1
<1> QED BY <1>1, <1>3, <1>4, <1>5 DEF n

\* Nothing else adds up like this.
LEMMA DepthIs ==
  ASSUME NEW list \in Seq(Node), NEW d, d[0] = 0,
         \A k \in 1 .. Len(list) : d[k] = d[k - 1] + list[k].interval
  PROVE  \A k \in 0 .. Len(list) : Depth(list, k) = d[k]
<1> DEFINE n == Len(list)
           T == {k \in 0 .. n : Depth(list, k) # d[k]}
<1>1. n \in Nat
  OBVIOUS
<1>2. /\ Depth(list, 0) = 0
      /\ \A k \in 1 .. n : Depth(list, k) = Depth(list, k - 1) + list[k].interval
  BY DepthFacts
<1> HIDE DEF n
<1>3. T = {}
  <2> SUFFICES ASSUME T # {} PROVE FALSE
    OBVIOUS
  <2>1. PICK x \in T : \A y \in T : x <= y
    <3>1. T \in SUBSET Nat
      BY <1>1
    <3> HIDE DEF T
    <3> QED BY <3>1, Least
  <2>2. x \in 1 .. n /\ x - 1 \in 0 .. n /\ x - 1 \notin T
    BY <1>1, <1>2, <2>1
  <2>3. Depth(list, x - 1) = d[x - 1] /\ Depth(list, x) # d[x]
    BY <2>1, <2>2
  <2> HIDE DEF T
  <2> QED BY <1>2, <2>2, <2>3 DEF n
<1> QED BY <1>3 DEF n

\* Nodes further down are due later.
LEMMA DepthRises ==
  ASSUME NEW list, Ordered(list), NEW j \in 0 .. Len(list)
  PROVE  \A k \in 0 .. Len(list) :
           j < k => Depth(list, j) <= Depth(list, k) /\ (j > 0 => Depth(list, j) < Depth(list, k))
<1> DEFINE n == Len(list)
           Right(k) == j < k => /\ Depth(list, j) <= Depth(list, k)
                                /\ j > 0 => Depth(list, j) < Depth(list, k)
           T == {k \in 0 .. n : ~Right(k)}
<1>1. list \in Seq(Node) /\ n \in Nat /\ DOMAIN list = 1 .. n
  BY DEF Ordered
<1>2. /\ \A k \in 1 .. n : Depth(list, k) = Depth(list, k - 1) + list[k].interval
      /\ \A k \in 0 .. n : Depth(list, k) \in Nat
  BY <1>1, DepthFacts
<1>3. \A k \in 1 .. n : list[k].interval \in Nat /\ (k > 1 => list[k].interval > 0)
  BY <1>1, NodeFields DEF Ordered
<1>4. j \in 0 .. n
  OBVIOUS
<1> HIDE DEF n
<1>5. T = {}
  <2> SUFFICES ASSUME T # {} PROVE FALSE
    OBVIOUS
  <2>1. PICK x \in T : \A y \in T : x <= y
    <3>1. T \in SUBSET Nat
      BY <1>1
    <3> HIDE DEF T
    <3> QED BY <3>1, Least
  <2>2. x \in 1 .. n /\ j < x /\ x - 1 \in 0 .. n /\ x - 1 \notin T
    BY <1>1, <1>4, <2>1
  <2>3. Right(x - 1) /\ ~Right(x)
    BY <2>1, <2>2
  <2> HIDE DEF T
  <2>4. CASE j = x - 1
    BY <1>2, <1>3, <1>4, <2>2, <2>3, <2>4
  <2>5. CASE j < x - 1
    BY <1>2, <1>3, <1>4, <2>2, <2>3, <2>5
  <2> QED BY <1>4, <2>2, <2>4, <2>5
<1> QED BY <1>5 DEF n

\* Where a message is, and when it is due.
LEMMA TurnIs ==
  ASSUME NEW list, Ordered(list), NEW k \in DOMAIN list, NEW id \in list[k].msgs
  PROVE  NodeOf(list, id) = k /\ TurnOf(list, id) = Depth(list, k) /\ id \in MsgsOf(list)
<1>1. \A j \in DOMAIN list : id \in list[j].msgs => j = k
  BY DEF Ordered
<1>2. NodeOf(list, id) = k
  BY <1>1 DEF NodeOf
<1> QED BY <1>2 DEF TurnOf, MsgsOf

LEMMA MsgIsIn ==
  ASSUME NEW list, Ordered(list), NEW id \in MsgsOf(list)
  PROVE  \E k \in DOMAIN list : id \in list[k].msgs
BY DEF MsgsOf

LEMMA TurnType ==
  ASSUME NEW list, Ordered(list), NEW id \in MsgsOf(list)
  PROVE  TurnOf(list, id) \in Nat
<1>1. PICK k \in DOMAIN list : id \in list[k].msgs
  BY MsgIsIn
<1>2. list \in Seq(Node)
  BY DEF Ordered
<1>3. k \in 0 .. Len(list)
  BY <1>2
<1> QED BY <1>1, <1>2, <1>3, DepthFacts, TurnIs

-----------------------------------------------------------------------------
(* Lists that get or lose a node.                                          *)

LEMMA InsertAtFacts ==
  ASSUME NEW s \in Seq(Node), NEW k \in 1 .. Len(s) + 1, NEW e \in Node
  PROVE  /\ InsertAt(s, k, e) \in Seq(Node)
         /\ Len(InsertAt(s, k, e)) = Len(s) + 1
         /\ \A i \in 1 .. Len(s) + 1 :
              InsertAt(s, k, e)[i] = IF i < k THEN s[i] ELSE IF i = k THEN e ELSE s[i - 1]
<1> DEFINE n == Len(s)
           l == SubSeq(s, 1, k - 1)
           u == <<e>>
           r == SubSeq(s, k, n)
           lu == l \o u
           new == lu \o r
<1>1. l \in Seq(Node) /\ Len(l) = k - 1 /\ \A i \in 1 .. k - 1 : l[i] = s[i]
  OBVIOUS
<1>2. r \in Seq(Node) /\ Len(r) = n - k + 1 /\ \A i \in 1 .. n - k + 1 : r[i] = s[k + i - 1]
  OBVIOUS
<1>3. u \in Seq(Node) /\ Len(u) = 1 /\ u[1] = e
  OBVIOUS
<1>4. n \in Nat /\ k \in 1 .. n + 1 /\ InsertAt(s, k, e) = new
  BY DEF InsertAt
<1> HIDE DEF l, u, r, n
<1>5. /\ lu \in Seq(Node) /\ Len(lu) = k
      /\ \A i \in 1 .. k : lu[i] = IF i < k THEN s[i] ELSE e
  <2>1. /\ lu \in Seq(Node) /\ Len(lu) = Len(l) + Len(u)
        /\ \A i \in 1 .. Len(l) + Len(u) : lu[i] = IF i <= Len(l) THEN l[i] ELSE u[i - Len(l)]
    BY <1>1, <1>3, ConcatProperties
  <2>2. Len(l) + Len(u) = k
    BY <1>1, <1>3, <1>4
  <2>3. ASSUME NEW i \in 1 .. k PROVE lu[i] = IF i < k THEN s[i] ELSE e
    <3>1. CASE i < k
      BY <1>1, <1>4, <2>1, <2>2, <3>1
    <3>2. CASE i = k
      <4>1. i - Len(l) = 1 /\ ~(i <= Len(l))
        BY <1>1, <1>4, <3>2
      <4> QED BY <1>3, <2>1, <2>2, <3>2, <4>1
    <3>3. k \in Nat
      BY <1>4
    <3>4. i < k \/ i = k
      BY <3>3
    <3> QED BY <3>1, <3>2, <3>4
  <2> QED BY <2>1, <2>2, <2>3
<1> HIDE DEF lu
<1>6. /\ new \in Seq(Node) /\ Len(new) = n + 1
      /\ \A i \in 1 .. n + 1 : new[i] = IF i <= k THEN lu[i] ELSE r[i - k]
  <2>1. /\ new \in Seq(Node) /\ Len(new) = Len(lu) + Len(r)
        /\ \A i \in 1 .. Len(lu) + Len(r) : new[i] = IF i <= Len(lu) THEN lu[i] ELSE r[i - Len(lu)]
    BY <1>2, <1>5, ConcatProperties
  <2>2. Len(lu) + Len(r) = n + 1
    BY <1>2, <1>4, <1>5
  <2> QED BY <1>5, <2>1, <2>2
<1>7. ASSUME NEW i \in 1 .. n + 1
      PROVE  new[i] = IF i < k THEN s[i] ELSE IF i = k THEN e ELSE s[i - 1]
  <2>1. CASE i <= k
    BY <1>4, <1>5, <1>6, <2>1
  <2>2. CASE ~(i <= k)
    <3>1. i - k \in 1 .. n - k + 1 /\ k + (i - k) - 1 = i - 1 /\ ~(i < k) /\ i # k
      BY <1>4, <2>2
    <3>2. new[i] = r[i - k]
      BY <1>6, <2>2
    <3>3. r[i - k] = s[k + (i - k) - 1]
      BY <1>2, <3>1
    <3> QED BY <3>1, <3>2, <3>3
  <2> QED BY <2>1, <2>2
<1> HIDE DEF new
<1> QED BY <1>4, <1>6, <1>7 DEF n

LEMMA RemoveAtFacts ==
  ASSUME NEW S, NEW s \in Seq(S), NEW k \in 1 .. Len(s)
  PROVE  /\ RemoveAt(s, k) \in Seq(S)
         /\ Len(RemoveAt(s, k)) = Len(s) - 1
         /\ \A i \in 1 .. Len(s) - 1 : RemoveAt(s, k)[i] = IF i < k THEN s[i] ELSE s[i + 1]
<1> DEFINE n == Len(s)
           l == SubSeq(s, 1, k - 1)
           r == SubSeq(s, k + 1, n)
           new == l \o r
<1>1. l \in Seq(S) /\ Len(l) = k - 1 /\ \A i \in 1 .. k - 1 : l[i] = s[i]
  OBVIOUS
<1>2. r \in Seq(S) /\ Len(r) = n - k /\ \A i \in 1 .. n - k : r[i] = s[k + i]
  OBVIOUS
<1>3. n \in Nat /\ k \in 1 .. n /\ RemoveAt(s, k) = new
  BY DEF RemoveAt
<1> HIDE DEF l, r, n
<1>4. /\ new \in Seq(S) /\ Len(new) = n - 1
      /\ \A i \in 1 .. n - 1 : new[i] = IF i < k THEN l[i] ELSE r[i - (k - 1)]
  <2>1. /\ new \in Seq(S) /\ Len(new) = Len(l) + Len(r)
        /\ \A i \in 1 .. Len(l) + Len(r) : new[i] = IF i <= Len(l) THEN l[i] ELSE r[i - Len(l)]
    BY <1>1, <1>2, ConcatProperties
  <2>2. Len(l) + Len(r) = n - 1
    BY <1>1, <1>2, <1>3
  <2>3. \A i \in 1 .. n - 1 : i <= Len(l) <=> i < k
    BY <1>1, <1>3
  <2> QED BY <1>1, <2>1, <2>2, <2>3
<1>5. ASSUME NEW i \in 1 .. n - 1 PROVE new[i] = IF i < k THEN s[i] ELSE s[i + 1]
  <2>1. CASE i < k
    BY <1>1, <1>3, <1>4, <2>1
  <2>2. CASE ~(i < k)
    <3>1. i - (k - 1) \in 1 .. n - k /\ k + (i - (k - 1)) = i + 1
      BY <1>3, <2>2
    <3>2. new[i] = r[i - (k - 1)]
      BY <1>4, <2>2
    <3>3. r[i - (k - 1)] = s[k + (i - (k - 1))]
      BY <1>2, <3>1
    <3> QED BY <2>2, <3>1, <3>2, <3>3
  <2> QED BY <2>1, <2>2
<1> HIDE DEF new
<1> QED BY <1>3, <1>4, <1>5 DEF n

\* A node that is changed in its distance or its messages.
LEMMA ExceptFacts ==
  ASSUME NEW list \in Seq(Node), NEW k \in 1 .. Len(list), NEW node \in Node
  PROVE  /\ [list EXCEPT ![k] = node] \in Seq(Node)
         /\ Len([list EXCEPT ![k] = node]) = Len(list)
         /\ \A i \in 1 .. Len(list) : [list EXCEPT ![k] = node][i] = IF i = k THEN node ELSE list[i]
OBVIOUS

LEMMA NodeChanges ==
  ASSUME NEW node \in Node
  PROVE  /\ \A m \in (SUBSET Ids) \ {{}} :
              /\ [node EXCEPT !.msgs = m] \in Node
              /\ [node EXCEPT !.msgs = m].msgs = m
              /\ [node EXCEPT !.msgs = m].interval = node.interval
         /\ \A t \in Nat :
              /\ [node EXCEPT !.interval = t] \in Node
              /\ [node EXCEPT !.interval = t].msgs = node.msgs
              /\ [node EXCEPT !.interval = t].interval = t
BY DEF Node

-----------------------------------------------------------------------------
(* insert.                                                                 *)

\* Where the walk of insert ends.
LEMMA Passed ==
  ASSUME NEW list, Ordered(list), NEW layer \in Nat
  PROVE  LET T == {k \in DOMAIN list : Depth(list, k) < layer}
             p == Cardinality(T)
         IN /\ p \in 0 .. Len(list)
            /\ \A k \in 1 .. Len(list) : k <= p <=> Depth(list, k) < layer
            /\ Depth(list, p) <= layer /\ (p > 0 => Depth(list, p) < layer)
<1> DEFINE n == Len(list)
           T == {k \in DOMAIN list : Depth(list, k) < layer}
           p == Cardinality(T)
<1>1. list \in Seq(Node) /\ n \in Nat /\ DOMAIN list = 1 .. n
  BY DEF Ordered
<1>2. /\ Depth(list, 0) = 0
      /\ \A k \in 0 .. n : Depth(list, k) \in Nat
  BY <1>1, DepthFacts
<1>3. ASSUME NEW k \in T, NEW j \in 1 .. k PROVE j \in T
  <2>1. j \in 0 .. n /\ k \in 0 .. n /\ j \in 1 .. n
    BY <1>1
  <2>2. j = k \/ Depth(list, j) <= Depth(list, k)
    <3>1. CASE j < k
      BY <2>1, <3>1, DepthRises
    <3> QED BY <2>1, <3>1
  <2> HIDE DEF n
  <2> QED BY <1>1, <1>2, <2>1, <2>2
<1>4. T \in SUBSET (1 .. n)
  BY <1>1
<1> HIDE DEF T, n
<1>5. p \in 0 .. n /\ T = 1 .. p
  BY <1>1, <1>3, <1>4, Prefix
<1> HIDE DEF p
<1>6. \A k \in 1 .. n : k <= p <=> Depth(list, k) < layer
  <2>1. ASSUME NEW k \in 1 .. n PROVE k \in T <=> k <= p
    BY <1>1, <1>5
  <2> QED BY <1>1, <2>1 DEF T
<1>7. Depth(list, p) <= layer /\ (p > 0 => Depth(list, p) < layer)
  BY <1>1, <1>2, <1>5, <1>6
<1> QED BY <1>5, <1>6, <1>7 DEF p, T, n

\* What insert, erase and pop make of a list for a message.
InsertedAt(new, list, layer, id) ==
  /\ Ordered(new)
  /\ MsgsOf(new) = MsgsOf(list) \cup {id}
  /\ TurnOf(new, id) = layer
  /\ \A i \in MsgsOf(list) : TurnOf(new, i) = TurnOf(list, i)

\* The message joins the node of its turn.
LEMMA JoinFacts ==
  ASSUME NEW list, Ordered(list), NEW id \in Ids \ MsgsOf(list), NEW k \in DOMAIN list
  PROVE  InsertedAt([list EXCEPT ![k].msgs = @ \cup {id}], list, Depth(list, k), id)
<1> DEFINE n == Len(list)
           node == [list[k] EXCEPT !.msgs = list[k].msgs \cup {id}]
           new == [list EXCEPT ![k].msgs = @ \cup {id}]
<1>1. list \in Seq(Node) /\ n \in Nat /\ DOMAIN list = 1 .. n /\ k \in 1 .. n
  BY DEF Ordered
<1>2. list[k] \in Node /\ list[k].msgs \cup {id} \in (SUBSET Ids) \ {{}}
  BY <1>1, NodeFields
<1>3. node \in Node /\ node.msgs = list[k].msgs \cup {id} /\ node.interval = list[k].interval
  BY <1>2, NodeChanges
<1>4. new = [list EXCEPT ![k] = node]
  OBVIOUS
<1> HIDE DEF node
<1>5. /\ new \in Seq(Node) /\ Len(new) = n
      /\ \A i \in 1 .. n : new[i] = IF i = k THEN node ELSE list[i]
  BY <1>1, <1>3, <1>4, ExceptFacts
<1> HIDE DEF new, n
<1>6. \A i \in 1 .. n : /\ new[i].interval = list[i].interval
                        /\ new[i].msgs = list[i].msgs \cup (IF i = k THEN {id} ELSE {})
  BY <1>3, <1>5
<1>7. DOMAIN new = 1 .. n
  BY <1>5
<1>8. \A i \in 1 .. n : id \notin list[i].msgs
  BY <1>1 DEF MsgsOf
<1>9. Ordered(new)
  <2>1. ASSUME NEW i \in 1 .. n, NEW j \in 1 .. n, new[i].msgs \cap new[j].msgs # {} PROVE i = j
    <3>1. i = j \/ list[i].msgs \cap list[j].msgs # {}
      BY <1>6, <1>8, <2>1
    <3> QED BY <1>1, <3>1 DEF Ordered
  <2>2. \A i \in 1 .. n : i > 1 => new[i].interval > 0
    BY <1>1, <1>6 DEF Ordered
  <2> QED BY <1>5, <1>7, <2>1, <2>2 DEF Ordered
<1>10. \A i \in 0 .. n : Depth(new, i) = Depth(list, i)
  <2> DEFINE d == [i \in 0 .. n |-> Depth(list, i)]
  <2>1. /\ Depth(list, 0) = 0
        /\ \A i \in 1 .. n : Depth(list, i) = Depth(list, i - 1) + list[i].interval
    BY <1>1, DepthFacts DEF n
  <2>2. d[0] = 0 /\ \A i \in 1 .. n : d[i] = d[i - 1] + new[i].interval
    BY <1>1, <1>6, <2>1
  <2> HIDE DEF d
  <2>3. \A i \in 0 .. n : Depth(new, i) = d[i]
    BY <1>5, <2>2, DepthIs
  <2> QED BY <2>3 DEF d
<1>11. MsgsOf(new) = MsgsOf(list) \cup {id}
  BY <1>1, <1>6, <1>7 DEF MsgsOf
<1>12. TurnOf(new, id) = Depth(list, k)
  <2>1. id \in new[k].msgs /\ k \in DOMAIN new /\ k \in 0 .. n
    BY <1>1, <1>6, <1>7
  <2> QED BY <1>9, <1>10, <2>1, TurnIs
<1>13. ASSUME NEW i \in MsgsOf(list) PROVE TurnOf(new, i) = TurnOf(list, i)
  <2>1. PICK l \in DOMAIN list : i \in list[l].msgs
    BY MsgIsIn
  <2>2. l \in DOMAIN new /\ i \in new[l].msgs /\ l \in 0 .. n
    BY <1>1, <1>6, <1>7, <2>1
  <2>3. TurnOf(new, i) = Depth(new, l) /\ TurnOf(list, i) = Depth(list, l)
    BY <1>9, <2>1, <2>2, TurnIs
  <2> QED BY <1>10, <2>2, <2>3
<1> QED BY <1>9, <1>11, <1>12, <1>13 DEF InsertedAt, new

\* The message gets a node of its own in front of the p+1st, whose distance
\* becomes shorter.
LEMMA SplitFacts ==
  ASSUME NEW list, Ordered(list), NEW id \in Ids \ MsgsOf(list), NEW layer \in Nat,
         NEW p \in 0 .. Len(list), Depth(list, p) <= layer, p > 0 => Depth(list, p) < layer,
         p < Len(list) => Depth(list, p + 1) > layer
  PROVE  LET rest == layer - Depth(list, p)
         IN InsertedAt(InsertAt(Shortened(list, p + 1, rest), p + 1,
                                [interval |-> rest, msgs |-> {id}]),
                       list, layer, id)
<1> DEFINE n == Len(list)
           rest == layer - Depth(list, p)
           short == Shortened(list, p + 1, rest)
           node == [interval |-> rest, msgs |-> {id}]
           new == InsertAt(short, p + 1, node)
<1>1. list \in Seq(Node) /\ n \in Nat /\ DOMAIN list = 1 .. n /\ p \in 0 .. n
  BY DEF Ordered
<1>2. /\ Depth(list, 0) = 0
      /\ \A k \in 1 .. n : Depth(list, k) = Depth(list, k - 1) + list[k].interval
      /\ \A k \in 0 .. n : Depth(list, k) \in Nat
  BY <1>1, DepthFacts
<1>3. /\ rest \in Nat /\ (p > 0 => rest > 0) /\ layer = Depth(list, p) + rest
  BY <1>1, <1>2
<1>4. node \in Node /\ node.interval = rest /\ node.msgs = {id}
  BY <1>3 DEF Node
<1>5. p < n => list[p + 1].interval - rest \in Nat \ {0}
  <2> SUFFICES ASSUME p < n PROVE list[p + 1].interval - rest \in Nat \ {0}
    OBVIOUS
  <2>1. p + 1 \in 1 .. n /\ (p + 1) - 1 = p
    BY <1>1
  <2>2. Depth(list, p + 1) = Depth(list, p) + list[p + 1].interval
    BY <1>2, <2>1
  <2>3. Depth(list, p + 1) > layer /\ list[p + 1].interval \in Nat /\ Depth(list, p) \in Nat
    BY <1>1, <1>2, <2>1, NodeFields
  <2> QED BY <1>3, <2>2, <2>3
<1>6. /\ short \in Seq(Node) /\ Len(short) = n
      /\ \A k \in 1 .. n :
           /\ short[k].msgs = list[k].msgs
           /\ short[k].interval = list[k].interval - (IF k = p + 1 THEN rest ELSE 0)
  <2>1. CASE p < n
    <3> DEFINE m == [list[p + 1] EXCEPT !.interval = list[p + 1].interval - rest]
    <3>1. p + 1 \in 1 .. n /\ list[p + 1] \in Node
      BY <1>1, <2>1
    <3>2. m \in Node /\ m.msgs = list[p + 1].msgs /\ m.interval = list[p + 1].interval - rest
      BY <1>5, <2>1, <3>1, NodeChanges
    <3>3. short = [list EXCEPT ![p + 1] = m]
      BY <1>1, <3>1 DEF Shortened
    <3> HIDE DEF m, short, n
    <3>4. /\ short \in Seq(Node) /\ Len(short) = n
          /\ \A k \in 1 .. n : short[k] = IF k = p + 1 THEN m ELSE list[k]
      BY <1>1, <3>1, <3>2, <3>3, ExceptFacts DEF n
    <3> HIDE DEF rest
    <3>5. \A k \in 1 .. n : list[k].interval \in Nat
      BY <1>1, NodeFields
    <3> QED BY <3>2, <3>4, <3>5
  <2>2. CASE p = n
    <3>1. p + 1 \notin 1 .. n
      BY <1>1, <2>2
    <3>2. short = list
      BY <1>1, <3>1 DEF Shortened
    <3>3. \A k \in 1 .. n : list[k].interval \in Nat /\ k # p + 1
      BY <1>1, <3>1, NodeFields
    <3> HIDE DEF short, rest
    <3> QED BY <1>1, <3>2, <3>3
  <2> QED BY <1>1, <2>1, <2>2
<1> HIDE DEF short, node, rest, n
<1>7. p + 1 \in 1 .. n + 1
  BY <1>1
<1>8. /\ new \in Seq(Node) /\ Len(new) = n + 1
      /\ \A i \in 1 .. n + 1 :
           new[i] = IF i < p + 1 THEN short[i] ELSE IF i = p + 1 THEN node ELSE short[i - 1]
  <2>1. p + 1 \in 1 .. Len(short) + 1
    BY <1>6, <1>7
  <2>2. /\ new \in Seq(Node) /\ Len(new) = Len(short) + 1
        /\ \A i \in 1 .. Len(short) + 1 :
             new[i] = IF i < p + 1 THEN short[i] ELSE IF i = p + 1 THEN node ELSE short[i - 1]
    <3>1. /\ InsertAt(short, p + 1, node) \in Seq(Node)
          /\ Len(InsertAt(short, p + 1, node)) = Len(short) + 1
          /\ \A i \in 1 .. Len(short) + 1 :
               InsertAt(short, p + 1, node)[i] =
                 IF i < p + 1 THEN short[i] ELSE IF i = p + 1 THEN node ELSE short[i - 1]
      <4> HIDE DEF new
      <4>1. short \in Seq(Node) /\ node \in Node
        BY <1>4, <1>6
      <4> DEFINE pos == p + 1
      <4>2. pos \in 1 .. Len(short) + 1
        BY <2>1
      <4> HIDE DEF pos
      <4>3. /\ InsertAt(short, pos, node) \in Seq(Node)
            /\ Len(InsertAt(short, pos, node)) = Len(short) + 1
            /\ \A i \in 1 .. Len(short) + 1 :
                 InsertAt(short, pos, node)[i] =
                   IF i < pos THEN short[i] ELSE IF i = pos THEN node ELSE short[i - 1]
        BY <4>1, <4>2, InsertAtFacts
      <4> QED BY <4>3 DEF pos
    <3> QED BY <3>1
  <2> HIDE DEF new
  <2> QED BY <1>6, <2>2
<1> HIDE DEF new
<1>9. /\ DOMAIN new = 1 .. n + 1
      /\ new[p + 1].interval = rest /\ new[p + 1].msgs = {id}
  BY <1>4, <1>7, <1>8
<1>10. \A i \in 1 .. p : /\ new[i].interval = list[i].interval
                         /\ new[i].msgs = list[i].msgs
  <2>1. ASSUME NEW i \in 1 .. p
        PROVE  new[i].interval = list[i].interval /\ new[i].msgs = list[i].msgs
    <3>1. i \in 1 .. n /\ i \in 1 .. n + 1 /\ i < p + 1 /\ i # p + 1
      BY <1>1
    <3>2. new[i] = short[i] /\ list[i].interval \in Nat
      BY <1>1, <1>8, <3>1, NodeFields
    <3>3. short[i].interval = list[i].interval /\ short[i].msgs = list[i].msgs
      BY <1>6, <3>1, <3>2
    <3> QED BY <3>2, <3>3
  <2> QED BY <2>1
<1>11. \A i \in p + 1 .. n :
         /\ new[i + 1].msgs = list[i].msgs
         /\ new[i + 1].interval = list[i].interval - (IF i = p + 1 THEN rest ELSE 0)
  <2>1. ASSUME NEW i \in p + 1 .. n
        PROVE  /\ new[i + 1].msgs = list[i].msgs
               /\ new[i + 1].interval = list[i].interval - (IF i = p + 1 THEN rest ELSE 0)
    <3>1. i \in 1 .. n /\ i + 1 \in 1 .. n + 1 /\ ~(i + 1 < p + 1) /\ i + 1 # p + 1
          /\ (i + 1) - 1 = i
      BY <1>1
    <3>2. new[i + 1] = short[i]
      BY <1>8, <3>1
    <3> QED BY <1>6, <3>1, <3>2
  <2> QED BY <2>1
\* Where the i-th node of the new list was.
<1>12. \A i \in 1 .. n + 1 : i \in 1 .. p \/ i = p + 1 \/ (i - 1 \in p + 1 .. n /\ (i - 1) + 1 = i)
  BY <1>1
<1>13. \A i \in 1 .. n : id \notin list[i].msgs
  BY <1>1 DEF MsgsOf
<1>14. Ordered(new)
  <2> DEFINE was(i) == IF i <= p THEN i ELSE i - 1
  <2>1. ASSUME NEW i \in 1 .. n + 1, i # p + 1 PROVE was(i) \in 1 .. n /\ new[i].msgs = list[was(i)].msgs
    <3>1. CASE i \in 1 .. p
      BY <1>1, <1>10, <3>1
    <3>2. CASE i - 1 \in p + 1 .. n /\ (i - 1) + 1 = i
      <4>1. was(i) = i - 1 /\ was(i) \in 1 .. n
        BY <1>1, <3>2
      <4> QED BY <1>11, <3>2, <4>1
    <3> QED BY <1>12, <2>1, <3>1, <3>2
  <2>2. ASSUME NEW i \in 1 .. n + 1, NEW j \in 1 .. n + 1, new[i].msgs \cap new[j].msgs # {}
        PROVE  i = j
    <3>1. CASE i # p + 1 /\ j # p + 1
      <4>1. was(i) = was(j)
        BY <1>1, <2>1, <2>2, <3>1 DEF Ordered
      <4> QED BY <1>1, <3>1, <4>1
    <3>2. CASE i = p + 1 /\ j # p + 1
      BY <1>9, <1>13, <2>1, <2>2, <3>2
    <3>3. CASE j = p + 1 /\ i # p + 1
      BY <1>9, <1>13, <2>1, <2>2, <3>3
    <3> QED BY <3>1, <3>2, <3>3
  <2>3. ASSUME NEW i \in 1 .. n + 1, i > 1 PROVE new[i].interval > 0
    <3>1. CASE i \in 1 .. p
      <4>1. i \in 1 .. n
        BY <1>1, <3>1
      <4> QED BY <1>1, <1>10, <2>3, <3>1, <4>1 DEF Ordered
    <3>2. CASE i = p + 1
      BY <1>1, <1>3, <1>9, <2>3, <3>2
    <3>3. CASE i - 1 \in p + 1 .. n /\ (i - 1) + 1 = i
      <4>1. CASE i - 1 = p + 1
        <5>1. p < n
          BY <1>1, <3>3, <4>1
        <5>2. new[i].interval = list[p + 1].interval - rest
          BY <1>11, <3>3, <4>1
        <5> QED BY <1>5, <5>1, <5>2
      <4>2. CASE i - 1 # p + 1
        <5>1. i - 1 \in 1 .. n /\ i - 1 > 1
          BY <1>1, <3>3, <4>2
        <5>2. list[i - 1].interval > 0 /\ list[i - 1].interval \in Nat
          BY <1>1, <5>1, NodeFields DEF Ordered
        <5>3. new[i].interval = list[i - 1].interval - 0
          BY <1>11, <3>3, <4>2
        <5> QED BY <5>2, <5>3
      <4> QED BY <4>1, <4>2
    <3> QED BY <1>12, <3>1, <3>2, <3>3
  <2> QED BY <1>8, <1>9, <2>2, <2>3 DEF Ordered
<1>15. /\ \A i \in 0 .. p : Depth(new, i) = Depth(list, i)
       /\ Depth(new, p + 1) = layer
       /\ \A i \in p + 1 .. n : Depth(new, i + 1) = Depth(list, i)
  <2> DEFINE d == [i \in 0 .. n + 1 |-> IF i <= p THEN Depth(list, i)
                                        ELSE IF i = p + 1 THEN layer ELSE Depth(list, i - 1)]
  <2>1. /\ \A i \in 0 .. p : d[i] = Depth(list, i)
        /\ d[p + 1] = layer
        /\ \A i \in p + 1 .. n : d[i + 1] = Depth(list, i)
    BY <1>1
  <2> HIDE DEF d
  <2>2. d[0] = 0
    BY <1>1, <1>2, <2>1
  <2>3. ASSUME NEW i \in 1 .. n + 1 PROVE d[i] = d[i - 1] + new[i].interval
    <3>1. CASE i \in 1 .. p
      <4>1. i \in 0 .. p /\ i - 1 \in 0 .. p /\ i \in 1 .. n
        BY <1>1, <3>1
      <4> QED BY <1>2, <1>10, <2>1, <3>1, <4>1
    <3>2. CASE i = p + 1
      <4>1. i - 1 \in 0 .. p /\ i - 1 = p
        BY <1>1, <3>2
      <4> QED BY <1>3, <1>9, <2>1, <3>2, <4>1
    <3>3. CASE i - 1 = p + 1
      <4>1. p + 1 \in p + 1 .. n /\ p + 1 \in 1 .. n /\ i = (p + 1) + 1 /\ (p + 1) - 1 = p /\ p \in 0 .. n
        BY <1>1, <3>3
      <4>2. d[i] = Depth(list, p + 1) /\ d[i - 1] = layer
        BY <2>1, <3>3, <4>1
      <4>3. new[i].interval = list[p + 1].interval - rest
        BY <1>11, <4>1
      <4>4. Depth(list, p + 1) = Depth(list, p) + list[p + 1].interval
        BY <1>2, <4>1
      <4>5. list[p + 1].interval \in Nat /\ Depth(list, p) \in Nat
        BY <1>1, <1>2, <4>1, NodeFields
      <4> QED BY <1>3, <4>2, <4>3, <4>4, <4>5
    <3>4. CASE i - 1 \in p + 1 .. n /\ i - 1 # p + 1 /\ (i - 1) + 1 = i
      <4>1. i - 1 \in 1 .. n /\ i - 2 \in p + 1 .. n /\ (i - 2) + 1 = i - 1 /\ (i - 1) - 1 = i - 2
        BY <1>1, <3>4
      <4>2. d[i] = Depth(list, i - 1)
        BY <2>1, <3>4
      <4>3. d[i - 1] = Depth(list, i - 2)
        BY <2>1, <4>1
      <4>4. new[i].interval = list[i - 1].interval - 0
        BY <1>11, <3>4
      <4>5. Depth(list, i - 1) = Depth(list, i - 2) + list[i - 1].interval
        BY <1>2, <4>1
      <4>6. list[i - 1].interval \in Nat
        BY <1>1, <4>1, NodeFields
      <4> QED BY <4>2, <4>3, <4>4, <4>5, <4>6
    <3> QED BY <1>12, <3>1, <3>2, <3>3, <3>4
  <2>4. \A i \in 0 .. n + 1 : Depth(new, i) = d[i]
    BY <1>8, <2>2, <2>3, DepthIs
  <2>5. /\ \A i \in 0 .. p : i \in 0 .. n + 1
        /\ p + 1 \in 0 .. n + 1
        /\ \A i \in p + 1 .. n : i + 1 \in 0 .. n + 1
    BY <1>1
  <2> QED BY <2>1, <2>4, <2>5
<1>16. TurnOf(new, id) = layer
  <2>1. p + 1 \in DOMAIN new /\ id \in new[p + 1].msgs
    BY <1>7, <1>9
  <2>2. TurnOf(new, id) = Depth(new, p + 1)
    BY <1>14, <2>1, TurnIs
  <2> QED BY <1>15, <2>2
<1>17. ASSUME NEW i \in MsgsOf(list) PROVE TurnOf(new, i) = TurnOf(list, i) /\ i \in MsgsOf(new)
  <2>1. PICK k \in DOMAIN list : i \in list[k].msgs
    BY MsgIsIn
  <2>2. TurnOf(list, i) = Depth(list, k)
    BY <2>1, TurnIs
  <2>3. CASE k <= p
    <3>1. k \in 1 .. p /\ k \in 0 .. p /\ k \in DOMAIN new
      BY <1>1, <1>9, <2>3
    <3> QED BY <1>10, <1>14, <1>15, <2>1, <2>2, <3>1, TurnIs
  <2>4. CASE ~(k <= p)
    <3>1. k \in p + 1 .. n /\ k + 1 \in DOMAIN new
      BY <1>1, <1>9, <2>4
    <3> QED BY <1>11, <1>14, <1>15, <2>1, <2>2, <3>1, TurnIs
  <2> QED BY <2>3, <2>4
<1>18. MsgsOf(new) = MsgsOf(list) \cup {id}
  <2>1. ASSUME NEW i \in MsgsOf(new), i # id PROVE i \in MsgsOf(list)
    <3>1. PICK k \in 1 .. n + 1 : i \in new[k].msgs
      BY <1>9 DEF MsgsOf
    <3>2. CASE k \in 1 .. p
      <4>1. k \in DOMAIN list
        BY <1>1, <3>2
      <4> QED BY <1>10, <3>1, <3>2, <4>1 DEF MsgsOf
    <3>3. CASE k = p + 1
      BY <1>9, <2>1, <3>1, <3>3
    <3>4. CASE k - 1 \in p + 1 .. n /\ (k - 1) + 1 = k
      <4>1. k - 1 \in DOMAIN list
        BY <1>1, <3>4
      <4>2. i \in list[k - 1].msgs
        BY <1>11, <3>1, <3>4
      <4> QED BY <4>1, <4>2 DEF MsgsOf
    <3> QED BY <1>12, <3>2, <3>3, <3>4
  <2>2. id \in MsgsOf(new)
    BY <1>7, <1>9 DEF MsgsOf
  <2> QED BY <1>17, <2>1, <2>2
<1> QED BY <1>14, <1>16, <1>17, <1>18 DEF InsertedAt, new, short, node, rest

\* insert puts the message into the turn it asks for, and leaves every other
\* in its own.
LEMMA InsertFacts ==
  ASSUME NEW list, Ordered(list), NEW id \in Ids \ MsgsOf(list), NEW layer \in Nat
  PROVE  InsertedAt(Insert(list, layer, id), list, layer, id)
<1> DEFINE T == {k \in DOMAIN list : Depth(list, k) < layer}
           p == Cardinality(T)
           n == Len(list)
           rest == layer - Depth(list, p)
<1>1. /\ p \in 0 .. n
      /\ \A k \in 1 .. n : k <= p <=> Depth(list, k) < layer
      /\ Depth(list, p) <= layer /\ (p > 0 => Depth(list, p) < layer)
  BY Passed
<1>2. list \in Seq(Node) /\ n \in Nat /\ DOMAIN list = 1 .. n
  BY DEF Ordered
<1>3. Insert(list, layer, id) =
        IF p + 1 \in DOMAIN list /\ list[p + 1].interval = rest
        THEN [list EXCEPT ![p + 1].msgs = @ \cup {id}]
        ELSE InsertAt(Shortened(list, p + 1, rest), p + 1, [interval |-> rest, msgs |-> {id}])
  BY DEF Insert
<1> HIDE DEF T, p
<1>4. /\ \A k \in 1 .. n : Depth(list, k) = Depth(list, k - 1) + list[k].interval
      /\ \A k \in 0 .. n : Depth(list, k) \in Nat
  BY <1>2, DepthFacts
<1>5. p < n => /\ p + 1 \in 1 .. n /\ (p + 1) - 1 = p
               /\ Depth(list, p + 1) = Depth(list, p) + list[p + 1].interval
               /\ list[p + 1].interval \in Nat
               /\ Depth(list, p + 1) >= layer
  <2> SUFFICES ASSUME p < n
               PROVE  /\ p + 1 \in 1 .. n /\ (p + 1) - 1 = p
                      /\ Depth(list, p + 1) = Depth(list, p) + list[p + 1].interval
                      /\ list[p + 1].interval \in Nat
                      /\ Depth(list, p + 1) >= layer
    OBVIOUS
  <2>1. p + 1 \in 1 .. n /\ (p + 1) - 1 = p /\ ~(p + 1 <= p) /\ p + 1 \in 0 .. n
    BY <1>1, <1>2
  <2>2. Depth(list, p + 1) \in Nat /\ ~(Depth(list, p + 1) < layer)
    BY <1>1, <1>4, <2>1
  <2> QED BY <1>2, <1>4, <2>1, <2>2, NodeFields
<1>6. Depth(list, p) \in Nat
  BY <1>1, <1>4
<1>7. CASE p < n /\ list[p + 1].interval = rest
  <2>1. Depth(list, p + 1) = layer
    BY <1>5, <1>6, <1>7
  <2>2. p + 1 \in DOMAIN list
    BY <1>2, <1>5, <1>7
  <2>3. InsertedAt([list EXCEPT ![p + 1].msgs = @ \cup {id}], list, Depth(list, p + 1), id)
    BY <2>2, JoinFacts
  <2> HIDE DEF rest
  <2> QED BY <1>3, <1>7, <2>1, <2>2, <2>3
<1>8. CASE ~(p < n /\ list[p + 1].interval = rest)
  <2>1. p < n => Depth(list, p + 1) > layer
    BY <1>5, <1>6, <1>8
  <2>2. InsertedAt(InsertAt(Shortened(list, p + 1, rest), p + 1, [interval |-> rest, msgs |-> {id}]),
                   list, layer, id)
    BY <1>1, <2>1, SplitFacts
  <2>3. p + 1 \in DOMAIN list => p < n
    BY <1>1, <1>2
  <2> HIDE DEF rest
  <2> QED BY <1>3, <1>8, <2>2, <2>3
<1> QED BY <1>7, <1>8

-----------------------------------------------------------------------------
(* eraseTimer.                                                             *)

ErasedFrom(new, list, id) ==
  /\ Ordered(new)
  /\ MsgsOf(new) = MsgsOf(list) \ {id}
  /\ \A i \in MsgsOf(new) : TurnOf(new, i) = TurnOf(list, i)

\* A node that keeps other messages stays.
LEMMA ThinFacts ==
  ASSUME NEW list, Ordered(list), NEW k \in DOMAIN list, NEW id \in list[k].msgs,
         list[k].msgs # {id}
  PROVE  ErasedFrom([list EXCEPT ![k].msgs = @ \ {id}], list, id)
<1> DEFINE n == Len(list)
           node == [list[k] EXCEPT !.msgs = list[k].msgs \ {id}]
           new == [list EXCEPT ![k].msgs = @ \ {id}]
<1>1. list \in Seq(Node) /\ n \in Nat /\ DOMAIN list = 1 .. n /\ k \in 1 .. n
  BY DEF Ordered
<1>2. list[k] \in Node /\ list[k].msgs \ {id} \in (SUBSET Ids) \ {{}}
  BY <1>1, NodeFields
<1>3. node \in Node /\ node.msgs = list[k].msgs \ {id} /\ node.interval = list[k].interval
  BY <1>2, NodeChanges
<1>4. new = [list EXCEPT ![k] = node]
  OBVIOUS
<1> HIDE DEF node, new
<1>5. /\ new \in Seq(Node) /\ Len(new) = n
      /\ \A i \in 1 .. n : new[i] = IF i = k THEN node ELSE list[i]
  BY <1>1, <1>3, <1>4, ExceptFacts
<1> HIDE DEF n
<1>6. \A i \in 1 .. n : id \in list[i].msgs => i = k
  BY <1>1 DEF Ordered
<1>7. \A i \in 1 .. n : /\ new[i].interval = list[i].interval
                        /\ new[i].msgs = list[i].msgs \ {id}
  BY <1>3, <1>5, <1>6
<1>8. DOMAIN new = 1 .. n
  BY <1>5
<1>9. Ordered(new)
  <2>1. ASSUME NEW i \in 1 .. n, NEW j \in 1 .. n, new[i].msgs \cap new[j].msgs # {} PROVE i = j
    <3>1. list[i].msgs \cap list[j].msgs # {}
      BY <1>7, <2>1
    <3> QED BY <1>1, <3>1 DEF Ordered
  <2>2. \A i \in 1 .. n : i > 1 => new[i].interval > 0
    BY <1>1, <1>7 DEF Ordered
  <2> QED BY <1>5, <1>8, <2>1, <2>2 DEF Ordered
<1>10. \A i \in 0 .. n : Depth(new, i) = Depth(list, i)
  <2> DEFINE d == [i \in 0 .. n |-> Depth(list, i)]
  <2>1. /\ Depth(list, 0) = 0
        /\ \A i \in 1 .. n : Depth(list, i) = Depth(list, i - 1) + list[i].interval
    BY <1>1, DepthFacts DEF n
  <2>2. d[0] = 0 /\ \A i \in 1 .. n : d[i] = d[i - 1] + new[i].interval
    BY <1>1, <1>7, <2>1
  <2> HIDE DEF d
  <2>3. \A i \in 0 .. n : Depth(new, i) = d[i]
    BY <1>5, <2>2, DepthIs
  <2> QED BY <2>3 DEF d
<1>11. MsgsOf(new) = MsgsOf(list) \ {id}
  BY <1>1, <1>7, <1>8 DEF MsgsOf
<1>12. ASSUME NEW i \in MsgsOf(new) PROVE TurnOf(new, i) = TurnOf(list, i)
  <2>1. PICK l \in DOMAIN new : i \in new[l].msgs
    BY <1>9, MsgIsIn
  <2>2. l \in DOMAIN list /\ i \in list[l].msgs /\ l \in 0 .. n
    BY <1>1, <1>7, <1>8, <2>1
  <2>3. TurnOf(new, i) = Depth(new, l) /\ TurnOf(list, i) = Depth(list, l)
    BY <1>9, <2>1, <2>2, TurnIs
  <2> QED BY <1>10, <2>2, <2>3
<1> QED BY <1>9, <1>11, <1>12 DEF ErasedFrom, new

\* A node that is left empty goes, and the next one takes over its turns.
LEMMA UnlinkFacts ==
  ASSUME NEW list, Ordered(list), NEW k \in DOMAIN list, NEW id, list[k].msgs = {id}
  PROVE  ErasedFrom(Lengthened(RemoveAt(list, k), k, list[k].interval), list, id)
<1> DEFINE n == Len(list)
           by == list[k].interval
           rem == RemoveAt(list, k)
           new == Lengthened(rem, k, by)
<1>1. list \in Seq(Node) /\ n \in Nat /\ DOMAIN list = 1 .. n /\ k \in 1 .. n
  BY DEF Ordered
<1>2. /\ Depth(list, 0) = 0
      /\ \A i \in 1 .. n : Depth(list, i) = Depth(list, i - 1) + list[i].interval
      /\ \A i \in 0 .. n : Depth(list, i) \in Nat
  BY <1>1, DepthFacts
<1>3. /\ rem \in Seq(Node) /\ Len(rem) = n - 1
      /\ \A i \in 1 .. n - 1 : rem[i] = IF i < k THEN list[i] ELSE list[i + 1]
  BY <1>1, RemoveAtFacts
<1>4. by \in Nat /\ \A i \in 1 .. n : list[i].interval \in Nat
  BY <1>1, NodeFields
<1> HIDE DEF n, by, rem
<1>5. n - 1 \in Nat /\ DOMAIN rem = 1 .. n - 1
  BY <1>1, <1>3
<1>6. /\ new \in Seq(Node) /\ Len(new) = n - 1
      /\ \A i \in 1 .. n - 1 :
           /\ new[i].msgs = rem[i].msgs
           /\ new[i].interval = rem[i].interval + (IF i = k THEN by ELSE 0)
  <2>1. \A i \in 1 .. n - 1 : rem[i].interval \in Nat
    BY <1>3, <1>5, NodeFields
  <2>2. CASE k \in 1 .. n - 1
    <3> DEFINE m == [rem[k] EXCEPT !.interval = rem[k].interval + by]
    <3>1. rem[k] \in Node /\ rem[k].interval + by \in Nat
      BY <1>3, <1>4, <1>5, <2>1, <2>2
    <3>2. m \in Node /\ m.msgs = rem[k].msgs /\ m.interval = rem[k].interval + by
      BY <3>1, NodeChanges
    <3>3. new = [rem EXCEPT ![k] = m]
      BY <1>5, <2>2 DEF Lengthened
    <3> HIDE DEF m, new
    <3>4. /\ new \in Seq(Node) /\ Len(new) = n - 1
          /\ \A i \in 1 .. n - 1 : new[i] = IF i = k THEN m ELSE rem[i]
      <4>1. k \in 1 .. Len(rem)
        BY <1>3, <2>2
      <4>2. /\ new \in Seq(Node) /\ Len(new) = Len(rem)
            /\ \A i \in 1 .. Len(rem) : new[i] = IF i = k THEN m ELSE rem[i]
        BY <1>3, <3>2, <3>3, <4>1, ExceptFacts
      <4> QED BY <1>3, <4>2
    <3> QED BY <2>1, <3>2, <3>4
  <2>3. CASE k \notin 1 .. n - 1
    <3>1. new = rem
      BY <1>5, <2>3 DEF Lengthened
    <3> HIDE DEF new
    <3> QED BY <1>3, <2>1, <2>3, <3>1
  <2> QED BY <2>2, <2>3
<1> HIDE DEF new
<1>7. DOMAIN new = 1 .. n - 1
  BY <1>6
<1> DEFINE was(i) == IF i < k THEN i ELSE i + 1
<1>8. ASSUME NEW i \in 1 .. n - 1
      PROVE  /\ was(i) \in 1 .. n /\ was(i) # k
             /\ new[i].msgs = list[was(i)].msgs
             /\ new[i].interval = list[was(i)].interval + (IF i = k THEN by ELSE 0)
  <2>1. was(i) \in 1 .. n /\ was(i) # k
    BY <1>1
  <2>2. rem[i] = list[was(i)]
    BY <1>3
  <2> HIDE DEF was
  <2> QED BY <1>6, <2>1, <2>2
<1>9. ASSUME NEW j \in 1 .. n, j # k PROVE \E i \in 1 .. n - 1 : was(i) = j
  <2>1. CASE j < k
    <3>1. j \in 1 .. n - 1 /\ was(j) = j
      BY <1>1, <2>1
    <3> QED BY <3>1
  <2>2. CASE j > k
    <3>1. j - 1 \in 1 .. n - 1 /\ was(j - 1) = j
      BY <1>1, <2>2
    <3> QED BY <3>1
  <2> QED BY <1>1, <1>9, <2>1, <2>2
<1>10. \A i \in 1 .. n : id \in list[i].msgs => i = k
  BY <1>1 DEF Ordered
<1>11. Ordered(new)
  <2>1. ASSUME NEW i \in 1 .. n - 1, NEW j \in 1 .. n - 1, new[i].msgs \cap new[j].msgs # {}
        PROVE  i = j
    <3>1. was(i) = was(j)
      <4> HIDE DEF was
      <4> QED BY <1>1, <1>8, <2>1 DEF Ordered
    <3> QED BY <1>1, <3>1
  <2>2. ASSUME NEW i \in 1 .. n - 1, i > 1 PROVE new[i].interval > 0
    <3>1. was(i) > 1
      BY <1>1, <2>2
    <3> HIDE DEF was
    <3>2. list[was(i)].interval > 0 /\ list[was(i)].interval \in Nat
      BY <1>1, <1>4, <1>8, <3>1 DEF Ordered
    <3> QED BY <1>4, <1>8, <3>2
  <2> QED BY <1>6, <1>7, <2>1, <2>2 DEF Ordered
<1>12. \A i \in 1 .. n - 1 : Depth(new, i) = Depth(list, was(i))
  <2> DEFINE d == [i \in 0 .. n - 1 |-> IF i < k THEN Depth(list, i) ELSE Depth(list, i + 1)]
  <2>1. d[0] = 0
    BY <1>1, <1>2, <1>5
  <2>2. ASSUME NEW i \in 1 .. n - 1 PROVE d[i] = d[i - 1] + new[i].interval
    <3>1. i - 1 \in 0 .. n - 1 /\ i \in 0 .. n - 1 /\ i \in 1 .. n /\ i + 1 \in 1 .. n
      BY <1>1
    <3>5. i \in Nat
      BY <1>1
    <3>2. CASE i < k
      <4>1. d[i] = Depth(list, i) /\ d[i - 1] = Depth(list, i - 1) /\ was(i) = i /\ i # k
        BY <1>1, <3>1, <3>2
      <4> HIDE DEF d, was
      <4>2. new[i].interval = list[i].interval
        BY <1>4, <1>8, <3>1, <4>1
      <4> QED BY <1>2, <3>1, <4>1, <4>2
    <3>3. CASE i = k
      <4>1. d[i] = Depth(list, i + 1) /\ d[i - 1] = Depth(list, i - 1) /\ was(i) = i + 1
        BY <1>1, <3>1, <3>3
      <4> HIDE DEF d, was
      <4>2. new[i].interval = list[i + 1].interval + list[i].interval
        BY <1>8, <3>3, <4>1 DEF by
      <4>3. Depth(list, i + 1) = Depth(list, i) + list[i + 1].interval
        <5>1. (i + 1) - 1 = i
          BY <3>5
        <5> QED BY <1>2, <3>1, <5>1
      <4>4. Depth(list, i) = Depth(list, i - 1) + list[i].interval
        BY <1>2, <3>1
      <4>5. Depth(list, i - 1) \in Nat /\ list[i].interval \in Nat /\ list[i + 1].interval \in Nat
        <5>1. i - 1 \in 0 .. n
          BY <1>1, <3>1
        <5> QED BY <1>2, <1>4, <3>1, <5>1
      <4> QED BY <4>1, <4>2, <4>3, <4>4, <4>5
    <3>4. CASE i > k
      <4>1. d[i] = Depth(list, i + 1) /\ d[i - 1] = Depth(list, i) /\ was(i) = i + 1 /\ i # k
        BY <1>1, <3>1, <3>4
      <4> HIDE DEF d, was
      <4>2. new[i].interval = list[i + 1].interval
        BY <1>4, <1>8, <3>1, <4>1
      <4>3. Depth(list, i + 1) = Depth(list, i) + list[i + 1].interval
        <5>1. (i + 1) - 1 = i
          BY <3>5
        <5> QED BY <1>2, <3>1, <5>1
      <4> QED BY <4>1, <4>2, <4>3
    <3> QED BY <1>1, <3>2, <3>3, <3>4
  <2>3. \A i \in 1 .. n - 1 : i \in 0 .. n - 1 /\ d[i] = Depth(list, was(i))
    BY <1>1
  <2> HIDE DEF d, was
  <2>4. \A i \in 0 .. n - 1 : Depth(new, i) = d[i]
    BY <1>6, <2>1, <2>2, DepthIs
  <2> QED BY <2>3, <2>4
<1> HIDE DEF was
<1>13. MsgsOf(new) = MsgsOf(list) \ {id}
  <2>1. ASSUME NEW i \in MsgsOf(new) PROVE i \in MsgsOf(list) \ {id}
    <3>1. PICK j \in 1 .. n - 1 : i \in new[j].msgs
      BY <1>7 DEF MsgsOf
    <3>2. was(j) \in DOMAIN list /\ i \in list[was(j)].msgs /\ was(j) # k
      BY <1>1, <1>8, <3>1
    <3> QED BY <1>1, <1>10, <3>2 DEF MsgsOf
  <2>2. ASSUME NEW i \in MsgsOf(list), i # id PROVE i \in MsgsOf(new)
    <3>1. PICK j \in 1 .. n : i \in list[j].msgs
      BY <1>1 DEF MsgsOf
    <3>2. j # k
      BY <2>2, <3>1
    <3>3. PICK l \in 1 .. n - 1 : was(l) = j
      BY <1>9, <3>2
    <3>4. i \in new[l].msgs /\ l \in DOMAIN new
      BY <1>7, <1>8, <3>1, <3>3
    <3> QED BY <3>4 DEF MsgsOf
  <2> QED BY <2>1, <2>2
<1>14. ASSUME NEW i \in MsgsOf(new) PROVE TurnOf(new, i) = TurnOf(list, i)
  <2>1. PICK j \in DOMAIN new : i \in new[j].msgs
    BY <1>11, MsgIsIn
  <2>2. was(j) \in DOMAIN list /\ i \in list[was(j)].msgs /\ j \in 1 .. n - 1
    BY <1>1, <1>7, <1>8, <2>1
  <2>3. TurnOf(new, i) = Depth(new, j) /\ TurnOf(list, i) = Depth(list, was(j))
    BY <1>11, <2>1, <2>2, TurnIs
  <2> QED BY <1>12, <2>2, <2>3
<1> QED BY <1>11, <1>13, <1>14 DEF ErasedFrom, new, rem, by

\* eraseTimer takes out one message, and leaves every other in its turn.
LEMMA EraseFacts ==
  ASSUME NEW list, Ordered(list), NEW id \in MsgsOf(list)
  PROVE  ErasedFrom(EraseTimer(list, id), list, id)
<1>1. PICK k \in DOMAIN list : id \in list[k].msgs
  BY MsgIsIn
<1>2. NodeOf(list, id) = k
  BY <1>1, TurnIs
<1>3. EraseTimer(list, id) = IF list[k].msgs # {id} THEN [list EXCEPT ![k].msgs = @ \ {id}]
                             ELSE Lengthened(RemoveAt(list, k), k, list[k].interval)
  BY <1>2 DEF EraseTimer
<1> QED BY <1>1, <1>3, ThinFacts, UnlinkFacts

-----------------------------------------------------------------------------
(* popExpire.                                                              *)

\* Due in one of the first `layer` turns; at layer 0, due at once.
Over(turn, layer) == turn < layer \/ (turn = 0 /\ layer = 0)

PoppedFrom(new, list, layer) ==
  /\ Ordered(new)
  /\ MsgsOf(new) = {i \in MsgsOf(list) : ~Over(TurnOf(list, i), layer)}
  /\ \A i \in MsgsOf(new) : TurnOf(new, i) = TurnOf(list, i) - layer

\* The walk of popExpire stops in front of the first node that is not due.
LEMMA ExpiredFacts ==
  ASSUME NEW list, Ordered(list), NEW layer \in Nat
  PROVE  LET p == Cardinality(Expired(list, layer))
         IN /\ p \in 0 .. Len(list)
            /\ \A k \in 1 .. Len(list) : k <= p <=> Over(Depth(list, k), layer)
<1> DEFINE n == Len(list)
           p == Cardinality(Expired(list, layer))
           C(j) == LET rest == layer - Depth(list, j - 1)
                   IN list[j].interval < rest \/ (rest = 0 /\ list[j].interval = 0)
<1>1. list \in Seq(Node) /\ n \in Nat /\ DOMAIN list = 1 .. n
  BY DEF Ordered
<1>2. /\ Depth(list, 0) = 0
      /\ \A k \in 1 .. n : Depth(list, k) = Depth(list, k - 1) + list[k].interval
      /\ \A k \in 0 .. n : Depth(list, k) \in Nat
  BY <1>1, DepthFacts
<1>3. \A k \in 1 .. n : list[k].interval \in Nat /\ (k > 1 => list[k].interval > 0)
  BY <1>1, NodeFields DEF Ordered
<1>4. Expired(list, layer) = {k \in 1 .. n : \A j \in 1 .. k : C(j)}
  BY <1>1 DEF Expired
<1>5. \A j, k \in 1 .. n : j < k => Depth(list, j) <= Depth(list, k)
  <2>1. \A j \in 1 .. n : j \in 0 .. n
    BY <1>1
  <2> QED BY <2>1, DepthRises
<1> HIDE DEF n
<1>6. ASSUME NEW j \in 1 .. n PROVE C(j) <=> Over(Depth(list, j), layer)
  <2>1. j - 1 \in 0 .. n /\ j \in 0 .. n
    BY <1>1
  <2>2. /\ Depth(list, j - 1) \in Nat /\ Depth(list, j) = Depth(list, j - 1) + list[j].interval
        /\ list[j].interval \in Nat /\ (j > 1 => list[j].interval > 0)
        /\ j = 1 => Depth(list, j - 1) = 0
    BY <1>2, <1>3, <2>1
  <2>3. j = 1 \/ j > 1
    BY <1>1
  <2> QED BY <2>2, <2>3 DEF Over
<1> HIDE DEF C
<1>7. \A k \in 1 .. n : k \in Expired(list, layer) <=> Over(Depth(list, k), layer)
  <2>1. ASSUME NEW k \in 1 .. n, Over(Depth(list, k), layer), NEW j \in 1 .. k PROVE C(j)
    <3>1. j \in 1 .. n /\ (j < k \/ j = k) /\ j \in 0 .. n /\ k \in 0 .. n
      BY <1>1
    <3>2. Depth(list, j) <= Depth(list, k) \/ j = k
      BY <1>5, <3>1
    <3>3. Over(Depth(list, j), layer)
      BY <1>2, <2>1, <3>1, <3>2 DEF Over
    <3> QED BY <1>6, <3>1, <3>3
  <2>2. ASSUME NEW k \in Expired(list, layer) PROVE k \in 1 .. n /\ C(k)
    BY <1>1, <1>4
  <2> QED BY <1>4, <1>6, <2>1, <2>2
<1>8. p \in 0 .. n /\ Expired(list, layer) = 1 .. p
  <2>1. Expired(list, layer) \in SUBSET (1 .. n)
    BY <1>4
  <2>2. ASSUME NEW k \in Expired(list, layer), NEW j \in 1 .. k PROVE j \in Expired(list, layer)
    <3>1. j \in 1 .. n /\ \A i \in 1 .. j : i \in 1 .. k
      BY <1>1, <2>1
    <3> QED BY <1>4, <2>2, <3>1
  <2> QED BY <1>1, <2>1, <2>2, Prefix
<1> HIDE DEF p
<1>9. \A k \in 1 .. n : k <= p <=> Over(Depth(list, k), layer)
  <2>1. ASSUME NEW k \in 1 .. n PROVE k \in Expired(list, layer) <=> k <= p
    BY <1>1, <1>8
  <2> QED BY <1>7, <2>1
<1> QED BY <1>8, <1>9 DEF n, p

\* popExpire takes out what is due, and brings the rest that much nearer.
LEMMA PopFacts ==
  ASSUME NEW list, Ordered(list), NEW layer \in Nat
  PROVE  PoppedFrom(PopExpire(list, layer), list, layer)
<1> DEFINE n == Len(list)
           p == Cardinality(Expired(list, layer))
           rest == layer - Depth(list, p)
           tail == SubSeq(list, p + 1, n)
           new == Shortened(tail, 1, rest)
<1>1. list \in Seq(Node) /\ n \in Nat /\ DOMAIN list = 1 .. n
  BY DEF Ordered
<1>2. /\ Depth(list, 0) = 0
      /\ \A k \in 1 .. n : Depth(list, k) = Depth(list, k - 1) + list[k].interval
      /\ \A k \in 0 .. n : Depth(list, k) \in Nat
  BY <1>1, DepthFacts
<1>3. \A k \in 1 .. n : list[k].interval \in Nat /\ (k > 1 => list[k].interval > 0)
  BY <1>1, NodeFields DEF Ordered
<1>4. p \in 0 .. n /\ \A k \in 1 .. n : k <= p <=> Over(Depth(list, k), layer)
  BY ExpiredFacts
<1>5. PopExpire(list, layer) = new
  BY DEF PopExpire
<1> HIDE DEF p
<1>6. tail \in Seq(Node) /\ Len(tail) = n - p /\ \A i \in 1 .. n - p : tail[i] = list[p + i]
  BY <1>1, <1>4
<1> HIDE DEF n, tail
<1>7. n - p \in Nat /\ DOMAIN tail = 1 .. n - p /\ \A i \in 1 .. n - p : p + i \in 1 .. n
  BY <1>1, <1>4, <1>6
<1>8. p < n => /\ 1 \in 1 .. n - p /\ p + 1 \in 1 .. n
               /\ Depth(list, p + 1) - layer \in Nat
               /\ list[p + 1].interval - rest = Depth(list, p + 1) - layer
  <2> SUFFICES ASSUME p < n
               PROVE  /\ 1 \in 1 .. n - p /\ p + 1 \in 1 .. n
                      /\ Depth(list, p + 1) - layer \in Nat
                      /\ list[p + 1].interval - rest = Depth(list, p + 1) - layer
    OBVIOUS
  <2>1. /\ p + 1 \in 1 .. n /\ p + 1 \in 0 .. n /\ (p + 1) - 1 = p /\ ~(p + 1 <= p)
        /\ 1 \in 1 .. n - p
    BY <1>1, <1>4
  <2>2. Depth(list, p + 1) \in Nat /\ ~Over(Depth(list, p + 1), layer)
    BY <1>2, <1>4, <2>1
  <2>3. Depth(list, p + 1) - layer \in Nat
    BY <2>2 DEF Over
  <2>4. Depth(list, p + 1) = Depth(list, p) + list[p + 1].interval /\ Depth(list, p) \in Nat
        /\ list[p + 1].interval \in Nat
    BY <1>2, <1>3, <1>4, <2>1
  <2> QED BY <2>1, <2>3, <2>4
<1> HIDE DEF rest
<1>9. /\ new \in Seq(Node) /\ Len(new) = n - p
      /\ \A i \in 1 .. n - p :
           /\ new[i].msgs = list[p + i].msgs
           /\ new[i].interval = IF i = 1 THEN Depth(list, p + 1) - layer ELSE list[p + i].interval
  <2>1. CASE p < n
    <3> DEFINE m == [tail[1] EXCEPT !.interval = tail[1].interval - rest]
    <3>1. tail[1] \in Node /\ tail[1] = list[p + 1] /\ 1 \in 1 .. n - p
      BY <1>6, <1>8, <2>1
    <3>2. tail[1].interval - rest \in Nat
      BY <1>8, <2>1, <3>1
    <3>3. /\ m \in Node /\ m.msgs = list[p + 1].msgs
          /\ m.interval = Depth(list, p + 1) - layer
      BY <1>8, <2>1, <3>1, <3>2, NodeChanges
    <3>4. new = [tail EXCEPT ![1] = m]
      BY <1>7, <3>1 DEF Shortened
    <3> HIDE DEF m, new
    <3>5. /\ new \in Seq(Node) /\ Len(new) = n - p
          /\ \A i \in 1 .. n - p : new[i] = IF i = 1 THEN m ELSE tail[i]
      <4> DEFINE one == 1
      <4>1. one \in 1 .. Len(tail)
        BY <1>6, <3>1
      <4>2. new = [tail EXCEPT ![one] = m]
        BY <3>4
      <4> HIDE DEF one
      <4>3. /\ new \in Seq(Node) /\ Len(new) = Len(tail)
            /\ \A i \in 1 .. Len(tail) : new[i] = IF i = one THEN m ELSE tail[i]
        BY <1>6, <3>3, <4>1, <4>2, ExceptFacts
      <4> QED BY <1>6, <4>3 DEF one
    <3>6. ASSUME NEW i \in 1 .. n - p
          PROVE  /\ new[i].msgs = list[p + i].msgs
                 /\ new[i].interval =
                      IF i = 1 THEN Depth(list, p + 1) - layer ELSE list[p + i].interval
      BY <1>6, <3>3, <3>5
    <3> QED BY <3>5, <3>6
  <2>2. CASE p = n
    <3>1. n - p = 0 /\ 1 \notin DOMAIN tail
      BY <1>1, <1>7, <2>2
    <3>2. new = tail
      BY <3>1 DEF Shortened
    <3> HIDE DEF new
    <3> QED BY <1>6, <3>1, <3>2
  <2> QED BY <1>1, <1>4, <2>1, <2>2
<1> HIDE DEF new
<1>10. DOMAIN new = 1 .. n - p
  BY <1>9
<1>11. Ordered(new)
  <2>1. ASSUME NEW i \in 1 .. n - p, NEW j \in 1 .. n - p, new[i].msgs \cap new[j].msgs # {}
        PROVE  i = j
    <3>1. p + i = p + j
      BY <1>1, <1>7, <1>9, <2>1 DEF Ordered
    <3> QED BY <1>4, <3>1
  <2>2. ASSUME NEW i \in 1 .. n - p, i > 1 PROVE new[i].interval > 0
    <3>1. p + i \in 1 .. n /\ p + i > 1 /\ i # 1
      BY <1>4, <1>7, <2>2
    <3> QED BY <1>3, <1>9, <3>1
  <2> QED BY <1>9, <1>10, <2>1, <2>2 DEF Ordered
<1>12. \A i \in 1 .. n - p : Depth(new, i) = Depth(list, p + i) - layer
  <2> DEFINE d == [i \in 0 .. n - p |-> IF i = 0 THEN 0 ELSE Depth(list, p + i) - layer]
  <2>1. d[0] = 0 /\ \A i \in 1 .. n - p : d[i] = Depth(list, p + i) - layer
    BY <1>7
  <2> HIDE DEF d
  <2>2. ASSUME NEW i \in 1 .. n - p PROVE d[i] = d[i - 1] + new[i].interval
    <3>1. p + i \in 1 .. n /\ p + i \in 0 .. n /\ Depth(list, p + i) \in Nat
      BY <1>2, <1>7
    <3>2. CASE i = 1
      <4>1. d[i - 1] = 0 /\ d[i] = Depth(list, p + 1) - layer
        BY <2>1, <3>2
      <4>2. new[i].interval = Depth(list, p + 1) - layer
        BY <1>9, <3>2
      <4> QED BY <3>1, <3>2, <4>1, <4>2
    <3>3. CASE i # 1
      <4>0. p \in Int /\ i \in Int /\ n \in Int
        BY <1>1, <1>4
      <4>1. i - 1 \in 1 .. n - p /\ p + (i - 1) = (p + i) - 1 /\ (p + i) - 1 \in 0 .. n
        <5>1. p + (i - 1) = (p + i) - 1
          BY <4>0
        <5>2. i - 1 \in 1 .. n - p
          BY <1>7, <3>3, <4>0
        <5>3. (p + i) - 1 \in 0 .. n
          BY <3>1, <4>0
        <5> QED BY <5>1, <5>2, <5>3
      <4>2. d[i - 1] = Depth(list, (p + i) - 1) - layer
        BY <2>1, <4>1
      <4>3. new[i].interval = list[p + i].interval /\ list[p + i].interval \in Nat
        BY <1>3, <1>9, <3>1, <3>3
      <4>4. /\ Depth(list, p + i) = Depth(list, (p + i) - 1) + list[p + i].interval
            /\ Depth(list, (p + i) - 1) \in Nat
        BY <1>2, <3>1, <4>1
      <4> QED BY <2>1, <4>2, <4>3, <4>4
    <3> QED BY <3>2, <3>3
  <2>3. \A i \in 0 .. n - p : Depth(new, i) = d[i]
    BY <1>9, <2>1, <2>2, DepthIs
  <2> QED BY <2>1, <2>3
<1>13. MsgsOf(new) = {i \in MsgsOf(list) : ~Over(TurnOf(list, i), layer)}
  <2>1. ASSUME NEW i \in MsgsOf(new) PROVE i \in MsgsOf(list) /\ ~Over(TurnOf(list, i), layer)
    <3>1. PICK j \in 1 .. n - p : i \in new[j].msgs
      BY <1>10 DEF MsgsOf
    <3>2. p + j \in DOMAIN list /\ i \in list[p + j].msgs /\ ~(p + j <= p)
      BY <1>1, <1>4, <1>7, <1>9, <3>1
    <3> QED BY <1>1, <1>4, <3>2, TurnIs
  <2>2. ASSUME NEW i \in MsgsOf(list), ~Over(TurnOf(list, i), layer) PROVE i \in MsgsOf(new)
    <3>1. PICK k \in DOMAIN list : i \in list[k].msgs
      BY MsgIsIn
    <3>2. TurnOf(list, i) = Depth(list, k) /\ k \in 1 .. n
      BY <1>1, <3>1, TurnIs
    <3>3. ~(k <= p)
      BY <1>4, <2>2, <3>2
    <3>4. k - p \in 1 .. n - p /\ p + (k - p) = k
      <4>1. p \in Int /\ k \in Int /\ n \in Int /\ p < k /\ k <= n
        BY <1>1, <1>4, <3>2, <3>3
      <4> QED BY <4>1
    <3>5. i \in new[k - p].msgs /\ k - p \in DOMAIN new
      BY <1>9, <1>10, <3>1, <3>4
    <3> QED BY <3>5 DEF MsgsOf
  <2> QED BY <2>1, <2>2
<1>14. ASSUME NEW i \in MsgsOf(new) PROVE TurnOf(new, i) = TurnOf(list, i) - layer
  <2>1. PICK j \in DOMAIN new : i \in new[j].msgs
    BY <1>11, MsgIsIn
  <2>2. p + j \in DOMAIN list /\ i \in list[p + j].msgs /\ j \in 1 .. n - p
    BY <1>1, <1>7, <1>9, <1>10, <2>1
  <2>3. TurnOf(new, i) = Depth(new, j) /\ TurnOf(list, i) = Depth(list, p + j)
    BY <1>11, <2>1, <2>2, TurnIs
  <2> QED BY <1>12, <2>2, <2>3
<1> QED BY <1>5, <1>11, <1>13, <1>14 DEF PoppedFrom

-----------------------------------------------------------------------------
(* Turns and slots.                                                        *)

LEMMA Products ==
  ASSUME NEW c \in Nat, NEW a \in Nat, NEW b \in Nat
  PROVE  /\ c * a \in Nat
         /\ c * (a + 1) = c * a + c
         /\ a <= b => c * a <= c * b
         /\ a <= b => c * (b - a) = c * b - c * a
         /\ a < b => c * a + c <= c * b
<1>1. c * a \in Nat /\ c * (a + 1) = c * a + c
  OBVIOUS
<1>2. ASSUME NEW x \in Nat, NEW y \in Nat, x <= y
      PROVE  c * x <= c * y /\ c * (y - x) = c * y - c * x
  <2>1. y - x \in Nat
    BY <1>2
  <2>2. c * (y - x) \in Nat /\ c * (y - x) = c * y - c * x
    BY <2>1
  <2>3. c * x \in Int /\ c * y \in Int
    OBVIOUS
  <2> QED BY <2>2, <2>3
<1>3. ASSUME a < b PROVE c * a + c <= c * b
  <2>1. a + 1 \in Nat /\ a + 1 <= b
    BY <1>3
  <2>2. c * (a + 1) <= c * b
    BY <1>2, <2>1
  <2> QED BY <1>1, <2>2
<1> QED BY <1>1, <1>2, <1>3

LEMMA Divided ==
  ASSUME NEW c \in Nat \ {0}, NEW k \in Nat
  PROVE  /\ k \div c \in Nat /\ k % c \in 0 .. c - 1
         /\ k = c * (k \div c) + (k % c)
         /\ c * (k \div c) \in Nat
OBVIOUS

\* There is one way to write a number as turns and a rest.
LEMMA OneRest ==
  ASSUME NEW c \in Nat \ {0}, NEW q \in Nat, NEW r \in 0 .. c - 1
  PROVE  (c * q + r) % c = r
<1> DEFINE k == c * q + r
           p == k \div c
           s == k % c
<1>1. k \in Nat /\ c * q \in Nat
  OBVIOUS
<1>2. p \in Nat /\ s \in 0 .. c - 1 /\ k = c * p + s /\ c * p \in Nat
  BY <1>1, Divided
<1> HIDE DEF p, s
<1>3. ~(p < q)
  <2>1. p < q => c * p + c <= c * q
    BY <1>2, Products
  <2> QED BY <1>1, <1>2, <2>1
<1>4. ~(q < p)
  <2>1. q < p => c * q + c <= c * p
    BY <1>2, Products
  <2> QED BY <1>1, <1>2, <2>1
<1>5. p = q
  BY <1>2, <1>3, <1>4
<1>6. c * p = c * q
  BY <1>5
<1>7. s = r
  BY <1>1, <1>2, <1>6
<1> QED BY <1>7 DEF s

LEMMA Slot ==
  ASSUME NEW c \in Nat \ {0}, NEW h \in 0 .. c - 1, NEW k \in Nat
  PROVE  (h + k) % c = IF h + (k % c) < c THEN h + (k % c) ELSE h + (k % c) - c
<1> DEFINE q == k \div c
           r == k % c
<1>1. q \in Nat /\ r \in 0 .. c - 1 /\ k = c * q + r /\ c * q \in Nat
  BY Divided
<1> HIDE DEF q, r
<1>2. CASE h + r < c
  <2>1. h + r \in 0 .. c - 1 /\ h + k = c * q + (h + r)
    BY <1>1, <1>2
  <2>2. (c * q + (h + r)) % c = h + r
    BY <1>1, <2>1, OneRest
  <2> QED BY <1>2, <2>1, <2>2 DEF r
<1>3. CASE ~(h + r < c)
  <2>1. c * (q + 1) = c * q + c /\ q + 1 \in Nat
    BY <1>1, Products
  <2>2. h + r - c \in 0 .. c - 1 /\ h + k = c * (q + 1) + (h + r - c)
    BY <1>1, <1>3, <2>1
  <2>3. (c * (q + 1) + (h + r - c)) % c = h + r - c
    BY <2>1, <2>2, OneRest
  <2> QED BY <1>3, <2>2, <2>3 DEF r
<1> QED BY <1>2, <1>3

\* How far a slot is ahead of the hand h.
AheadOf(h, slot) == (slot + CycleNodes - h) % CycleNodes

LEMMA AheadIs ==
  ASSUME NEW h \in Slots, NEW slot \in Slots
  PROVE  /\ AheadOf(h, slot) = IF slot >= h THEN slot - h ELSE slot - h + CycleNodes
         /\ AheadOf(h, slot) \in 0 .. CycleNodes - 1
<1> DEFINE c == CycleNodes
           r == slot + c - h
<1>1. c \in Nat \ {0} /\ h \in 0 .. c - 1 /\ slot \in 0 .. c - 1 /\ AheadOf(h, slot) = r % c
  BY TimerAssumption DEF Slots, AheadOf
<1>2. CASE slot >= h
  <2>1. slot - h \in 0 .. c - 1 /\ r = c * 1 + (slot - h) /\ 1 \in Nat
    BY <1>1, <1>2
  <2>2. (c * 1 + (slot - h)) % c = slot - h
    BY <1>1, <2>1, OneRest
  <2> QED BY <1>1, <1>2, <2>1, <2>2
<1>3. CASE ~(slot >= h)
  <2>1. slot - h + c \in 0 .. c - 1 /\ r = c * 0 + (slot - h + c) /\ 0 \in Nat
    BY <1>1, <1>3
  <2>2. (c * 0 + (slot - h + c)) % c = slot - h + c
    BY <1>1, <2>1, OneRest
  <2> QED BY <1>1, <1>3, <2>1, <2>2
<1> QED BY <1>2, <1>3

\* The slot k ticks from now, and the others after the hand moved there.
LEMMA HandMoves ==
  ASSUME NEW h \in Slots, NEW k \in Nat
  PROVE  LET new == (h + k) % CycleNodes
             r == k % CycleNodes
         IN /\ new \in Slots
            /\ AheadOf(h, new) = r
            /\ \A s \in Slots : AheadOf(new, s) = IF AheadOf(h, s) >= r THEN AheadOf(h, s) - r
                                                  ELSE AheadOf(h, s) - r + CycleNodes
<1> DEFINE c == CycleNodes
           new == (h + k) % c
           r == k % c
<1>1. c \in Nat \ {0} /\ Slots = 0 .. c - 1
  BY TimerAssumption DEF Slots
<1>2. r \in 0 .. c - 1 /\ new = IF h + r < c THEN h + r ELSE h + r - c
  BY <1>1, Divided, Slot
<1> HIDE DEF new, r
<1>3. new \in Slots
  BY <1>1, <1>2
<1>4. AheadOf(h, new) = r
  <2>1. AheadOf(h, new) = IF new >= h THEN new - h ELSE new - h + c
    BY <1>3, AheadIs
  <2> QED BY <1>1, <1>2, <2>1
<1>5. ASSUME NEW s \in Slots
      PROVE  AheadOf(new, s) = IF AheadOf(h, s) >= r THEN AheadOf(h, s) - r
                               ELSE AheadOf(h, s) - r + c
  <2>1. AheadOf(h, s) = IF s >= h THEN s - h ELSE s - h + c
    BY AheadIs
  <2>2. AheadOf(new, s) = IF s >= new THEN s - new ELSE s - new + c
    BY <1>3, AheadIs
  <2> QED BY <1>1, <1>2, <2>1, <2>2
<1> QED BY <1>3, <1>4, <1>5 DEF new, r

\* What a poll does to a timer that is a slots and t turns away.
LEMMA Ticked ==
  ASSUME NEW a \in 0 .. CycleNodes - 1, NEW t \in Nat, NEW k \in Nat
  PROVE  LET c == CycleNodes
             q == k \div c
             r == k % c
             turns == IF a < r THEN q + 1 ELSE q
             left == a + c * t
             now == IF a >= r THEN a - r ELSE a - r + c
         IN /\ left \in Nat /\ turns \in Nat
            /\ k >= c \/ a <= r =>
                 /\ Over(t, turns) => left <= k
                 /\ left < k => Over(t, turns)
                 /\ k < c /\ left = k => Over(t, turns)
                 /\ ~Over(t, turns) => now + c * (t - turns) = left - k
            /\ ~(k >= c \/ a <= r) => left > k /\ now + c * t = left - k
<1> DEFINE c == CycleNodes
           q == k \div c
           r == k % c
           turns == IF a < r THEN q + 1 ELSE q
           left == a + c * t
           now == IF a >= r THEN a - r ELSE a - r + c
<1>1. c \in Nat \ {0} /\ a \in 0 .. c - 1
  BY TimerAssumption
<1>2. q \in Nat /\ r \in 0 .. c - 1 /\ k = c * q + r /\ c * q \in Nat
  BY <1>1, Divided
<1> HIDE DEF q, r, c
<1>3. c * t \in Nat /\ c * (q + 1) = c * q + c /\ q + 1 \in Nat
  BY <1>1, <1>2, Products
<1>4. /\ t < q => c * t + c <= c * q
      /\ t <= q => c * t <= c * q
      /\ q <= t => c * q <= c * t /\ c * (t - q) = c * t - c * q
      /\ q + 1 <= t => c * (q + 1) <= c * t /\ c * (t - (q + 1)) = c * t - c * (q + 1)
  <2>1. q <= t => c * q <= c * t /\ c * (t - q) = c * t - c * q
    BY <1>1, <1>2, Products
  <2>2. q + 1 <= t => c * (q + 1) <= c * t /\ c * (t - (q + 1)) = c * t - c * (q + 1)
    BY <1>1, <1>3, Products
  <2>3. (t < q => c * t + c <= c * q) /\ (t <= q => c * t <= c * q)
    BY <1>1, <1>2, Products
  <2> QED BY <2>1, <2>2, <2>3
<1>5. k < c <=> q = 0
  <2>1. CASE q = 0
    <3>1. c * q = 0
      BY <1>1, <2>1
    <3> QED BY <1>1, <1>2, <2>1, <3>1
  <2>2. CASE q # 0
    <3>1. c * 0 + c <= c * q
      BY <1>1, <1>2, <2>2, Products
    <3>2. c * 0 = 0
      BY <1>1
    <3> QED BY <1>1, <1>2, <2>2, <3>1, <3>2
  <2> QED BY <2>1, <2>2
<1>6. t = 0 => c * t = 0
  BY <1>1
<1>7. q = 0 => c * q = 0
  BY <1>1
<1>8. left \in Nat /\ turns \in Nat
  BY <1>1, <1>2, <1>3
<1>9. ASSUME k >= c \/ a <= r
      PROVE  /\ Over(t, turns) => left <= k
             /\ left < k => Over(t, turns)
             /\ k < c /\ left = k => Over(t, turns)
             /\ ~Over(t, turns) => now + c * (t - turns) = left - k
  <2>1. CASE a < r
    <3>1. turns = q + 1 /\ now = a - r + c
      BY <1>1, <1>2, <2>1
    <3>2. Over(t, turns) <=> t <= q
      BY <1>2, <3>1 DEF Over
    <3> HIDE DEF turns, now
    <3>3. CASE t <= q
      <4>1. c * t <= c * q
        BY <1>4, <3>3
      <4>2. left < k
        BY <1>1, <1>2, <1>3, <2>1, <4>1
      <4> QED BY <1>2, <1>8, <3>2, <3>3, <4>2
    <3>4. CASE ~(t <= q)
      <4>1. q + 1 <= t
        BY <1>2, <3>4
      <4>2. c * (q + 1) <= c * t /\ c * (t - (q + 1)) = c * t - c * (q + 1)
        BY <1>4, <4>1
      <4>3. left > k
        BY <1>1, <1>2, <1>3, <4>2
      <4>4. now + c * (t - turns) = left - k
        BY <1>1, <1>2, <1>3, <3>1, <4>2
      <4> QED BY <1>2, <1>8, <3>2, <3>4, <4>3, <4>4
    <3> QED BY <3>3, <3>4
  <2>2. CASE ~(a < r)
    <3>1. turns = q /\ now = a - r
      BY <1>1, <1>2, <2>2
    <3>2. Over(t, turns) <=> t < q \/ (t = 0 /\ q = 0)
      BY <3>1 DEF Over
    <3> HIDE DEF turns, now
    <3>3. CASE t < q
      <4>1. c * t + c <= c * q
        BY <1>4, <3>3
      <4>2. left < k
        BY <1>1, <1>2, <1>3, <4>1
      <4> QED BY <1>2, <1>8, <3>2, <3>3, <4>2
    <3>4. CASE t = 0 /\ q = 0
      <4>1. a = r
        BY <1>1, <1>2, <1>5, <1>9, <2>2, <3>4
      <4>2. left = k
        BY <1>1, <1>2, <1>6, <1>7, <3>4, <4>1
      <4> QED BY <1>2, <3>2, <3>4, <4>2
    <3>5. CASE ~(t < q) /\ ~(t = 0 /\ q = 0)
      <4>1. q <= t /\ (q = 0 => q < t)
        BY <1>2, <3>5
      <4>2. c * q <= c * t /\ c * (t - q) = c * t - c * q
        BY <1>4, <4>1
      <4>3. left >= k
        BY <1>1, <1>2, <1>3, <2>2, <4>2
      <4>4. now + c * (t - turns) = left - k
        BY <1>1, <1>2, <1>3, <3>1, <4>2
      <4>5. k < c => left > k
        <5>1. k < c => q + 1 <= t
          BY <1>2, <1>5, <4>1
        <5>2. k < c => c * (q + 1) <= c * t
          BY <1>4, <5>1
        <5> QED BY <1>1, <1>2, <1>3, <5>2
      <4> QED BY <1>2, <1>8, <3>2, <3>5, <4>3, <4>4, <4>5
    <3> QED BY <3>3, <3>4, <3>5
  <2> QED BY <2>1, <2>2
<1>10. ASSUME ~(k >= c \/ a <= r)
       PROVE  left > k /\ now + c * t = left - k
  <2>1. c * q = 0 /\ a > r
    BY <1>1, <1>2, <1>5, <1>7, <1>10
  <2> QED BY <1>1, <1>2, <1>3, <2>1
<1> QED BY <1>8, <1>9, <1>10 DEF q, r, c

-----------------------------------------------------------------------------
(* The steps of the wheel.                                                 *)

WheelInv == IInv /\ PoolExact

\* Ticks until a message of this list is due, for a hand at h.
LeftAt(h, slot, list, id) == AheadOf(h, slot) + CycleNodes * TurnOf(list, id)

LEMMA NodeInvIs ==
  ASSUME NEW interval \in Nat, NEW ph \in 0 .. Granularity - 1
  PROVE  /\ NodeInv(interval, ph) \in Nat
         /\ NodeInv(interval, ph) * Granularity < interval + Granularity
         /\ interval < (NodeInv(interval, ph) + 1) * Granularity
<1> DEFINE g == Granularity
           d == NodeInv(interval, ph)
           r == (interval + ph) % g
<1>1. g \in Nat \ {0} /\ ph \in 0 .. g - 1 /\ interval + ph \in Nat
  BY TimerAssumption
<1>2. d \in Nat /\ r \in 0 .. g - 1 /\ interval + ph = g * d + r /\ g * d \in Nat
  BY <1>1, Divided DEF NodeInv
<1> HIDE DEF d, r, g
<1>3. d * g = g * d /\ (d + 1) * g = g * d + g
  BY <1>1, <1>2
<1>4. d * g < interval + g /\ interval < (d + 1) * g
  BY <1>1, <1>2, <1>3
<1> QED BY <1>2, <1>4 DEF d, g

\* What IInv says of the lists.
WheelOf(ns, run, m) ==
  /\ ns \in [Slots -> Seq(Node)]
  /\ \A s \in Slots :
       /\ Ordered(ns[s])
       /\ MsgsOf(ns[s]) = {id \in run : m[id].hindex = s}

\* A timer that starts runs in the slot and the turn of its interval, and
\* disturbs no other.
LEMMA ScheduledFacts ==
  ASSUME IInv, NEW id \in Ids \ timers, NEW m \in TriggerMsg, Scheduled(id, m)
  PROVE  /\ timers' = timers \cup {id}
         /\ DOMAIN msg' = DOMAIN msg \cup {id} /\ msg' \in [DOMAIN msg' -> TriggerMsg]
         /\ \A i \in DOMAIN msg \ {id} : msg'[i] = msg[i]
         /\ msg'[id].autoRestart = m.autoRestart /\ msg'[id].interval = m.interval
         /\ WheelOf(nodes', timers', msg')
         /\ \A i \in timers :
              LeftAt(lastNode, msg'[i].hindex, nodes'[msg'[i].hindex], i)
                = LeftAt(lastNode, msg[i].hindex, nodes[msg[i].hindex], i)
         /\ LeftAt(lastNode, msg'[id].hindex, nodes'[msg'[id].hindex], id)
              = NodeInv(m.interval, phase)
<1> DEFINE inv == NodeInv(m.interval, phase)
           slot == (lastNode + inv) % CycleNodes
           layer == inv \div CycleNodes
           new == Insert(nodes[slot], layer, id)
           rec == [m EXCEPT !.hindex = slot]
<1>1. /\ lastNode \in Slots /\ phase \in 0 .. Granularity - 1
      /\ m.interval \in Nat /\ timers \subseteq DOMAIN msg
      /\ msg \in [DOMAIN msg -> TriggerMsg]
      /\ WheelOf(nodes, timers, msg)
  BY TimerAssumption DEF IInv, TriggerMsg, WheelOf
<1>2. inv \in Nat
  BY <1>1, NodeInvIs
<1>3. /\ nodes' = [nodes EXCEPT ![slot] = new]
      /\ msg' = [i \in DOMAIN msg \cup {id} |-> IF i = id THEN rec ELSE msg[i]]
      /\ timers' = timers \cup {id}
  BY DEF Scheduled
<1> HIDE DEF inv
<1>4. slot \in Slots /\ AheadOf(lastNode, slot) = inv % CycleNodes
  BY <1>1, <1>2, HandMoves
<1>5. layer \in Nat /\ inv = CycleNodes * layer + (inv % CycleNodes)
      /\ inv % CycleNodes \in Nat /\ CycleNodes * layer \in Nat
  BY <1>2, TimerAssumption, Divided
<1> HIDE DEF slot, layer
<1>6. rec \in TriggerMsg /\ rec.hindex = slot /\ rec.interval = m.interval
      /\ rec.autoRestart = m.autoRestart
  BY <1>4 DEF TriggerMsg
<1> HIDE DEF rec
<1>7. /\ DOMAIN msg' = DOMAIN msg \cup {id} /\ msg' \in [DOMAIN msg' -> TriggerMsg]
      /\ \A i \in DOMAIN msg \ {id} : msg'[i] = msg[i]
      /\ msg'[id] = rec
  BY <1>1, <1>3, <1>6
<1>8. Ordered(nodes[slot]) /\ id \in Ids \ MsgsOf(nodes[slot])
  BY <1>1, <1>4 DEF WheelOf
<1>9. InsertedAt(new, nodes[slot], layer, id)
  BY <1>5, <1>8, InsertFacts
<1> HIDE DEF new
<1>10. new \in Seq(Node)
  BY <1>9 DEF InsertedAt, Ordered
<1>11. /\ nodes' \in [Slots -> Seq(Node)] /\ nodes'[slot] = new
       /\ \A s \in Slots \ {slot} : nodes'[s] = nodes[s]
  BY <1>1, <1>3, <1>4, <1>10 DEF WheelOf
<1>12. \A i \in timers : i \in DOMAIN msg \ {id}
  BY <1>1
<1>13. WheelOf(nodes', timers', msg')
  <2>1. ASSUME NEW s \in Slots
        PROVE  Ordered(nodes'[s]) /\ MsgsOf(nodes'[s]) = {i \in timers' : msg'[i].hindex = s}
    <3>1. {i \in timers' : msg'[i].hindex = s}
            = {i \in timers : msg[i].hindex = s} \cup (IF s = slot THEN {id} ELSE {})
      BY <1>3, <1>6, <1>7, <1>12
    <3>2. MsgsOf(nodes[s]) = {i \in timers : msg[i].hindex = s} /\ Ordered(nodes[s])
      BY <1>1 DEF WheelOf
    <3>3. CASE s = slot
      BY <1>9, <1>11, <3>1, <3>2, <3>3 DEF InsertedAt
    <3>4. CASE s # slot
      BY <1>11, <3>1, <3>2, <3>4
    <3> QED BY <3>3, <3>4
  <2> QED BY <1>11, <2>1 DEF WheelOf
<1>14. ASSUME NEW i \in timers
       PROVE  LeftAt(lastNode, msg'[i].hindex, nodes'[msg'[i].hindex], i)
                = LeftAt(lastNode, msg[i].hindex, nodes[msg[i].hindex], i)
  <2>1. msg'[i] = msg[i] /\ msg[i].hindex \in Slots
    BY <1>1, <1>7, <1>12 DEF TriggerMsg
  <2>2. i \in MsgsOf(nodes[msg[i].hindex])
    BY <1>1, <2>1 DEF WheelOf
  <2>3. TurnOf(nodes'[msg[i].hindex], i) = TurnOf(nodes[msg[i].hindex], i)
    <3>1. CASE msg[i].hindex = slot
      BY <1>9, <1>11, <2>2, <3>1 DEF InsertedAt
    <3>2. CASE msg[i].hindex # slot
      BY <1>11, <2>1, <3>2
    <3> QED BY <3>1, <3>2
  <2> QED BY <2>1, <2>3 DEF LeftAt
<1>15. LeftAt(lastNode, msg'[id].hindex, nodes'[msg'[id].hindex], id) = inv
  <2>1. TurnOf(nodes'[slot], id) = layer
    BY <1>9, <1>11 DEF InsertedAt
  <2>2. LeftAt(lastNode, slot, nodes'[slot], id) = (inv % CycleNodes) + CycleNodes * layer
    BY <1>4, <2>1 DEF LeftAt
  <2>3. (inv % CycleNodes) + CycleNodes * layer = inv
    BY <1>5
  <2> QED BY <1>6, <1>7, <2>2, <2>3
<1> QED BY <1>3, <1>6, <1>7, <1>13, <1>14, <1>15 DEF inv

\* A running timer that is cancelled goes, and disturbs no other.
LEMMA CancelRunningFacts ==
  ASSUME IInv, NEW id \in Ids, CancelRunning(id), msg' = Without(msg, {id})
  PROVE  /\ id \in timers /\ timers' = timers \ {id} /\ timeout' = timeout
         /\ DOMAIN msg' = DOMAIN msg \ {id} /\ msg' \in [DOMAIN msg' -> TriggerMsg]
         /\ \A i \in DOMAIN msg' : msg'[i] = msg[i]
         /\ WheelOf(nodes', timers', msg')
         /\ \A i \in timers' :
              LeftAt(lastNode, msg'[i].hindex, nodes'[msg'[i].hindex], i)
                = LeftAt(lastNode, msg[i].hindex, nodes[msg[i].hindex], i)
<1> DEFINE slot == msg[id].hindex
           new == EraseTimer(nodes[slot], id)
<1>1. /\ timers \subseteq DOMAIN msg
      /\ msg \in [DOMAIN msg -> TriggerMsg]
      /\ WheelOf(nodes, timers, msg)
  BY DEF IInv, WheelOf
<1>2. /\ id \in timers /\ timers' = timers \ {id} /\ timeout' = timeout
      /\ nodes' = [nodes EXCEPT ![slot] = new]
  BY DEF CancelRunning
<1>3. /\ DOMAIN msg' = DOMAIN msg \ {id} /\ msg' \in [DOMAIN msg' -> TriggerMsg]
      /\ \A i \in DOMAIN msg' : msg'[i] = msg[i]
  BY <1>1 DEF Without
<1>4. slot \in Slots
  BY <1>1, <1>2 DEF TriggerMsg
<1> HIDE DEF new
<1>5. Ordered(nodes[slot]) /\ id \in MsgsOf(nodes[slot])
  BY <1>1, <1>2, <1>4 DEF WheelOf
<1>6. ErasedFrom(new, nodes[slot], id)
  BY <1>5, EraseFacts DEF new
<1>7. new \in Seq(Node)
  BY <1>6 DEF ErasedFrom, Ordered
<1>8. /\ nodes' \in [Slots -> Seq(Node)] /\ nodes'[slot] = new
      /\ \A s \in Slots \ {slot} : nodes'[s] = nodes[s]
  BY <1>1, <1>2, <1>4, <1>7 DEF WheelOf
<1>9. WheelOf(nodes', timers', msg')
  <2>1. ASSUME NEW s \in Slots
        PROVE  Ordered(nodes'[s]) /\ MsgsOf(nodes'[s]) = {i \in timers' : msg'[i].hindex = s}
    <3>1. {i \in timers' : msg'[i].hindex = s} = {i \in timers : msg[i].hindex = s} \ {id}
      BY <1>1, <1>2, <1>3
    <3>2. MsgsOf(nodes[s]) = {i \in timers : msg[i].hindex = s} /\ Ordered(nodes[s])
      BY <1>1 DEF WheelOf
    <3>3. CASE s = slot
      BY <1>6, <1>8, <3>1, <3>2, <3>3 DEF ErasedFrom
    <3>4. CASE s # slot
      <4>1. id \notin MsgsOf(nodes[s])
        BY <3>2, <3>4
      <4> QED BY <1>8, <3>1, <3>2, <3>4, <4>1
    <3> QED BY <3>3, <3>4
  <2> QED BY <1>8, <2>1 DEF WheelOf
<1>10. ASSUME NEW i \in timers'
       PROVE  LeftAt(lastNode, msg'[i].hindex, nodes'[msg'[i].hindex], i)
                = LeftAt(lastNode, msg[i].hindex, nodes[msg[i].hindex], i)
  <2>1. msg'[i] = msg[i] /\ msg[i].hindex \in Slots /\ i \in timers /\ i # id
    BY <1>1, <1>2, <1>3 DEF TriggerMsg
  <2>2. i \in MsgsOf(nodes[msg[i].hindex]) \ {id}
    BY <1>1, <2>1 DEF WheelOf
  <2>3. TurnOf(nodes'[msg[i].hindex], i) = TurnOf(nodes[msg[i].hindex], i)
    <3>1. CASE msg[i].hindex = slot
      BY <1>6, <1>8, <2>2, <3>1 DEF ErasedFrom
    <3>2. CASE msg[i].hindex # slot
      BY <1>8, <2>1, <3>2
    <3> QED BY <3>1, <3>2
  <2> QED BY <2>1, <2>3 DEF LeftAt
<1> QED BY <1>2, <1>3, <1>9, <1>10

\* A poll that lets k ticks pass takes out what is due, and brings the rest k
\* ticks nearer.
LEMMA PollFacts ==
  ASSUME IInv, NEW k \in Nat, PopAllExpire(k), msg' = msg
  PROVE  /\ timeout' \subseteq timers /\ timers' = timers \ timeout'
         /\ lastNode' \in Slots
         /\ WheelOf(nodes', timers', msg)
         /\ \A i \in timers :
              LET left == LeftAt(lastNode, msg[i].hindex, nodes[msg[i].hindex], i)
              IN /\ left \in Nat
                 /\ i \in timeout' => left <= k
                 /\ left < k => i \in timeout'
                 /\ k < CycleNodes /\ left = k => i \in timeout'
                 /\ i \in timers' =>
                      LeftAt(lastNode', msg[i].hindex, nodes'[msg[i].hindex], i) = left - k
<1> DEFINE a(s) == AheadOf(lastNode, s)
           turns(s) == TurnsOf(s, k)
           reached(s) == k >= CycleNodes \/ a(s) <= k % CycleNodes
           popped(s) == IF s \in Reached(k) THEN PopExpire(nodes[s], TurnsOf(s, k)) ELSE nodes[s]
<1>1. /\ timers \subseteq DOMAIN msg /\ lastNode \in Slots
      /\ msg \in [DOMAIN msg -> TriggerMsg]
      /\ WheelOf(nodes, timers, msg)
  BY DEF IInv, WheelOf
<1>2. /\ nodes' = [s \in Slots |-> popped(s)]
      /\ timeout' = UNION {MsgsOf(nodes[s]) \ MsgsOf(nodes'[s]) : s \in Slots}
      /\ timers' = timers \ timeout'
      /\ lastNode' = (lastNode + k) % CycleNodes
  BY DEF PopAllExpire
<1>3. \A s \in Slots : nodes'[s] = popped(s)
  BY <1>2
<1>4. \A s \in Slots : s \in Reached(k) <=> reached(s)
  BY DEF Reached, Ahead, AheadOf
<1>5. \A s \in Slots : turns(s) = IF a(s) < k % CycleNodes THEN (k \div CycleNodes) + 1
                                  ELSE k \div CycleNodes
  BY DEF TurnsOf, Ahead, AheadOf
<1>6. /\ lastNode' \in Slots
      /\ \A s \in Slots : AheadOf(lastNode', s) = IF a(s) >= k % CycleNodes THEN a(s) - (k % CycleNodes)
                                                  ELSE a(s) - (k % CycleNodes) + CycleNodes
  BY <1>1, <1>2, HandMoves
<1>7. \A s \in Slots : a(s) \in 0 .. CycleNodes - 1
  BY <1>1, AheadIs
<1>8. \A s \in Slots : turns(s) \in Nat
  <2>1. k \div CycleNodes \in Nat
    BY TimerAssumption, Divided
  <2> QED BY <1>5, <2>1
<1>9. ASSUME NEW s \in Slots, reached(s) PROVE PoppedFrom(nodes'[s], nodes[s], turns(s))
  <2>1. nodes'[s] = PopExpire(nodes[s], turns(s))
    BY <1>3, <1>4, <1>9
  <2>2. Ordered(nodes[s])
    BY <1>1 DEF WheelOf
  <2> HIDE DEF turns
  <2> QED BY <1>8, <2>1, <2>2, PopFacts
<1>10. ASSUME NEW s \in Slots, ~reached(s) PROVE nodes'[s] = nodes[s]
  BY <1>3, <1>4, <1>10
<1> HIDE DEF a, turns, reached, popped
<1>11. \A s \in Slots : Ordered(nodes'[s]) /\ MsgsOf(nodes'[s]) \subseteq MsgsOf(nodes[s])
  <2>1. ASSUME NEW s \in Slots
        PROVE  Ordered(nodes'[s]) /\ MsgsOf(nodes'[s]) \subseteq MsgsOf(nodes[s])
    <3>1. CASE reached(s)
      BY <1>9, <3>1 DEF PoppedFrom
    <3>2. CASE ~reached(s)
      <4>1. Ordered(nodes[s])
        BY <1>1 DEF WheelOf
      <4> QED BY <1>10, <3>2, <4>1
    <3> QED BY <3>1, <3>2
  <2> QED BY <2>1
\* Each running timer is in the list its record names, and in no other.
<1>12. ASSUME NEW i \in timers
       PROVE  /\ msg[i].hindex \in Slots
              /\ \A s \in Slots : i \in MsgsOf(nodes[s]) <=> s = msg[i].hindex
  BY <1>1 DEF WheelOf, TriggerMsg
<1>13. \A s \in Slots : MsgsOf(nodes[s]) \subseteq timers
  BY <1>1 DEF WheelOf
<1>14. timeout' \subseteq timers
  BY <1>2, <1>13
<1>15. ASSUME NEW i \in timers PROVE i \in timeout' <=> i \notin MsgsOf(nodes'[msg[i].hindex])
  BY <1>2, <1>12
<1>16. WheelOf(nodes', timers', msg)
  <2>1. nodes' \in [Slots -> Seq(Node)]
    <3>1. \A s \in Slots : nodes'[s] \in Seq(Node)
      BY <1>11 DEF Ordered
    <3>2. nodes' = [s \in Slots |-> nodes'[s]]
      BY <1>2
    <3> QED BY <3>1, <3>2
  <2>2. ASSUME NEW s \in Slots PROVE MsgsOf(nodes'[s]) = {i \in timers' : msg[i].hindex = s}
    <3>1. ASSUME NEW i \in MsgsOf(nodes'[s]) PROVE i \in timers' /\ msg[i].hindex = s
      <4>1. i \in timers /\ i \in MsgsOf(nodes[s])
        BY <1>11, <1>13
      <4>2. msg[i].hindex = s
        BY <1>12, <4>1
      <4> QED BY <1>2, <1>15, <4>1, <4>2
    <3>2. ASSUME NEW i \in timers', msg[i].hindex = s PROVE i \in MsgsOf(nodes'[s])
      BY <1>2, <1>15, <3>2
    <3> QED BY <3>1, <3>2
  <2> QED BY <1>11, <2>1, <2>2 DEF WheelOf
<1>17. ASSUME NEW i \in timers
       PROVE  LET left == LeftAt(lastNode, msg[i].hindex, nodes[msg[i].hindex], i)
              IN /\ left \in Nat
                 /\ i \in timeout' => left <= k
                 /\ left < k => i \in timeout'
                 /\ k < CycleNodes /\ left = k => i \in timeout'
                 /\ i \in timers' =>
                      LeftAt(lastNode', msg[i].hindex, nodes'[msg[i].hindex], i) = left - k
  <2> DEFINE s == msg[i].hindex
             t == TurnOf(nodes[s], i)
             left == LeftAt(lastNode, s, nodes[s], i)
             now == AheadOf(lastNode', s)
  <2>1. s \in Slots /\ i \in MsgsOf(nodes[s]) /\ Ordered(nodes[s])
    BY <1>1, <1>12 DEF WheelOf
  <2> HIDE DEF s
  <2>2. t \in Nat
    BY <2>1, TurnType
  <2> HIDE DEF t
  <2>3. left = a(s) + CycleNodes * t /\ a(s) \in 0 .. CycleNodes - 1
    BY <1>7, <2>1 DEF LeftAt, a, t
  <2>4. i \in timeout' <=> i \notin MsgsOf(nodes'[s])
    BY <1>15 DEF s
  <2>5. i \in timers' <=> i \in MsgsOf(nodes'[s])
    BY <1>2, <2>4
  <2>6. now = IF a(s) >= k % CycleNodes THEN a(s) - (k % CycleNodes)
              ELSE a(s) - (k % CycleNodes) + CycleNodes
    BY <1>6, <2>1
  <2>7. turns(s) = IF a(s) < k % CycleNodes THEN (k \div CycleNodes) + 1 ELSE k \div CycleNodes
    BY <1>5, <2>1
  <2> HIDE DEF now
  <2>8. /\ left \in Nat
        /\ reached(s) =>
             /\ Over(t, turns(s)) => left <= k
             /\ left < k => Over(t, turns(s))
             /\ k < CycleNodes /\ left = k => Over(t, turns(s))
             /\ ~Over(t, turns(s)) => now + CycleNodes * (t - turns(s)) = left - k
        /\ ~reached(s) => left > k /\ now + CycleNodes * t = left - k
    <3> HIDE DEF left
    <3> DEFINE x == a(s)
    <3>1. x \in 0 .. CycleNodes - 1
      BY <2>3
    <3>2. reached(s) <=> k >= CycleNodes \/ x <= k % CycleNodes
      BY DEF reached
    <3>3. left = x + CycleNodes * t
      BY <2>3
    <3>4. now = IF x >= k % CycleNodes THEN x - (k % CycleNodes)
                ELSE x - (k % CycleNodes) + CycleNodes
      BY <2>6
    <3>5. turns(s) = IF x < k % CycleNodes THEN (k \div CycleNodes) + 1 ELSE k \div CycleNodes
      BY <2>7
    <3> HIDE DEF x
    <3> QED BY <2>2, <3>1, <3>2, <3>3, <3>4, <3>5, Ticked
  <2>9. CASE reached(s)
    <3>1. /\ i \in MsgsOf(nodes'[s]) <=> ~Over(t, turns(s))
          /\ i \in MsgsOf(nodes'[s]) => TurnOf(nodes'[s], i) = t - turns(s)
      BY <1>9, <2>1, <2>9 DEF PoppedFrom, t
    <3>2. i \in timers' => LeftAt(lastNode', s, nodes'[s], i) = left - k
      <4>1. SUFFICES ASSUME i \in timers'
                     PROVE  LeftAt(lastNode', s, nodes'[s], i) = left - k
        OBVIOUS
      <4>2. LeftAt(lastNode', s, nodes'[s], i) = now + CycleNodes * (t - turns(s))
        BY <2>5, <3>1, <4>1 DEF LeftAt, now
      <4> QED BY <2>5, <2>8, <2>9, <3>1, <4>1, <4>2
    <3> HIDE DEF left
    <3> QED BY <2>4, <2>8, <2>9, <3>1, <3>2 DEF left, s
  <2>10. CASE ~reached(s)
    <3>1. nodes'[s] = nodes[s]
      BY <1>10, <2>1, <2>10
    <3>2. LeftAt(lastNode', s, nodes'[s], i) = now + CycleNodes * t
      BY <3>1 DEF LeftAt, now, t
    <3>3. i \notin timeout' /\ left > k /\ left \in Nat
      BY <2>1, <2>4, <2>8, <2>10, <3>1
    <3>4. LeftAt(lastNode', s, nodes'[s], i) = left - k
      BY <2>8, <2>10, <3>2
    <3> HIDE DEF left
    <3>5. ~(left < k) /\ left # k
      BY <3>3
    <3> QED BY <3>3, <3>4, <3>5 DEF left, s
  <2> QED BY <2>9, <2>10
<1> QED BY <1>2, <1>6, <1>14, <1>16, <1>17

-----------------------------------------------------------------------------
(* The inductive invariant.  A restart must find its timer out of every    *)
(* list, and a release must find its record owned by nobody else: so IInv  *)
(* needs PoolExact, and PoolExact the shape of the wheel in IInv.          *)

Typed ==
  /\ serial \in 0 .. MaxTimers /\ phase \in 0 .. Granularity - 1 /\ lastNode \in Slots
  /\ msg \in [DOMAIN msg -> TriggerMsg] /\ DOMAIN msg \subseteq 1 .. serial
  /\ timers \subseteq DOMAIN msg /\ timeout \subseteq DOMAIN msg /\ timers \cap timeout = {}
  /\ calling = NotCalling \/ calling \in [id : 1 .. serial, restarted : BOOLEAN]

LEMMA IInvParts ==
  /\ IInv <=> Typed /\ WheelOf(nodes, timers, msg)
  /\ IInv' <=> Typed' /\ WheelOf(nodes', timers', msg')
BY DEF IInv, Typed, WheelOf

LEMMA WheelInit == Init => WheelInv
<1> SUFFICES ASSUME Init PROVE WheelInv
  OBVIOUS
<1>1. DOMAIN msg = {}
  BY DEF Init, Without
<1>2. Typed
  <2>1. msg \in [DOMAIN msg -> TriggerMsg]
    BY <1>1 DEF Init, Without
  <2>2. serial = 0 /\ phase \in 0 .. Granularity - 1 /\ lastNode = 0 /\ timers = {}
        /\ timeout = {} /\ calling = NotCalling
    BY DEF Init
  <2> QED BY <1>1, <2>1, <2>2, TimerAssumption DEF Typed, Slots
<1>3. Ordered(<<>>) /\ MsgsOf(<<>>) = {}
  BY DEF Ordered, MsgsOf
<1>4. nodes = [s \in Slots |-> <<>>] /\ timers = {}
  BY DEF Init
<1>5. WheelOf(nodes, timers, msg)
  BY <1>3, <1>4 DEF WheelOf
<1>6. PoolExact
  BY <1>1 DEF Init, PoolExact, NotCalling
<1> QED BY <1>2, <1>5, <1>6, IInvParts DEF WheelInv

\* The record of the callback that runs, if nobody else owns it.
InCallback == IF calling # NotCalling /\ ~calling.restarted THEN {calling.id} ELSE {}

LEMMA PoolParts ==
  /\ PoolExact <=>
       /\ DOMAIN msg = timers \cup timeout \cup InCallback
       /\ \A id \in InCallback : id \notin timers \cup timeout /\ ~msg[id].autoRestart
  /\ PoolExact' <=>
       /\ DOMAIN msg' = timers' \cup timeout' \cup InCallback'
       /\ \A id \in InCallback' : id \notin timers' \cup timeout' /\ ~msg'[id].autoRestart
BY DEF PoolExact, InCallback

LEMMA StartStep ==
  ASSUME WheelInv, NEW interval \in Intervals, NEW autoRestart \in BOOLEAN,
         Start(interval, autoRestart)
  PROVE  WheelInv'
<1> DEFINE id == serial + 1
           m == [interval |-> interval, autoRestart |-> autoRestart, hindex |-> 0]
<1>1. /\ InCaller /\ serial < MaxTimers /\ serial' = id
      /\ Scheduled(id, m)
      /\ phase' = phase /\ lastNode' = lastNode /\ timeout' = timeout /\ calling' = calling
  BY DEF Start
<1>2. IInv /\ Typed /\ PoolExact
  BY IInvParts DEF WheelInv
<1>3. id \in Ids /\ id \in 1 .. serial' /\ serial' \in 0 .. MaxTimers
      /\ id \notin 1 .. serial /\ 1 .. serial \subseteq 1 .. serial'
  BY <1>1, <1>2, TimerAssumption DEF Typed, Ids
<1>4. m \in TriggerMsg
  BY TimerAssumption DEF TriggerMsg, Slots
<1> HIDE DEF id, m
<1>5. id \notin DOMAIN msg /\ id \notin timers /\ id \notin timeout
  BY <1>2, <1>3 DEF Typed
<1>6. /\ timers' = timers \cup {id}
      /\ DOMAIN msg' = DOMAIN msg \cup {id} /\ msg' \in [DOMAIN msg' -> TriggerMsg]
      /\ \A i \in DOMAIN msg \ {id} : msg'[i] = msg[i]
      /\ WheelOf(nodes', timers', msg')
  BY <1>1, <1>2, <1>3, <1>4, <1>5, ScheduledFacts
<1>7. Typed'
  <2>1. calling' = NotCalling \/ calling' \in [id : 1 .. serial', restarted : BOOLEAN]
    BY <1>1, <1>2, <1>3 DEF Typed
  <2>2. DOMAIN msg' \subseteq 1 .. serial'
    BY <1>2, <1>3, <1>6 DEF Typed
  <2> QED BY <1>1, <1>2, <1>3, <1>5, <1>6, <2>1, <2>2 DEF Typed
<1>8. PoolExact'
  <2>1. InCallback' = InCallback /\ InCallback \subseteq DOMAIN msg
    BY <1>1, <1>2, PoolParts DEF InCallback
  <2> QED BY <1>1, <1>2, <1>5, <1>6, <2>1, PoolParts
<1> QED BY <1>6, <1>7, <1>8, IInvParts DEF WheelInv

LEMMA CancelStep ==
  ASSUME WheelInv, NEW id \in Ids, Cancel(id)
  PROVE  WheelInv'
<1>1. /\ CancelRunning(id) \/ CancelExpired(id)
      /\ msg' = Without(msg, {id})
      /\ serial' = serial /\ phase' = phase /\ lastNode' = lastNode /\ calling' = calling
  BY DEF Cancel
<1>2. IInv /\ Typed /\ PoolExact /\ WheelOf(nodes, timers, msg)
  BY IInvParts DEF WheelInv
<1>3. /\ id \in timers \cup timeout
      /\ timers' = timers \ {id} /\ timeout' = timeout \ {id}
      /\ DOMAIN msg' = DOMAIN msg \ {id} /\ msg' \in [DOMAIN msg' -> TriggerMsg]
      /\ \A i \in DOMAIN msg' : msg'[i] = msg[i]
      /\ WheelOf(nodes', timers', msg')
  <2>1. CASE CancelRunning(id)
    <3>1. /\ id \in timers /\ timers' = timers \ {id} /\ timeout' = timeout
          /\ DOMAIN msg' = DOMAIN msg \ {id} /\ msg' \in [DOMAIN msg' -> TriggerMsg]
          /\ \A i \in DOMAIN msg' : msg'[i] = msg[i]
          /\ WheelOf(nodes', timers', msg')
      BY <1>1, <1>2, <2>1, CancelRunningFacts
    <3>2. id \notin timeout
      BY <1>2, <3>1 DEF Typed
    <3> QED BY <3>1, <3>2
  <2>2. CASE CancelExpired(id)
    <3>1. id \in timeout /\ id \notin timers /\ timeout' = timeout \ {id}
          /\ timers' = timers /\ nodes' = nodes
      BY <2>2 DEF CancelExpired
    <3>2. /\ DOMAIN msg' = DOMAIN msg \ {id} /\ msg' \in [DOMAIN msg' -> TriggerMsg]
          /\ \A i \in DOMAIN msg' : msg'[i] = msg[i]
      BY <1>1, <1>2 DEF Typed, Without
    <3>3. \A i \in timers : msg'[i] = msg[i]
      BY <1>2, <3>1, <3>2 DEF Typed
    <3>4. \A s \in Slots : {i \in timers : msg'[i].hindex = s} = {i \in timers : msg[i].hindex = s}
      BY <3>3
    <3>5. WheelOf(nodes', timers', msg')
      BY <1>2, <3>1, <3>4 DEF WheelOf
    <3> QED BY <3>1, <3>2, <3>5
  <2> QED BY <1>1, <2>1, <2>2
<1>4. Typed'
  BY <1>1, <1>2, <1>3 DEF Typed
<1>5. PoolExact'
  <2>1. InCallback' = InCallback /\ id \notin InCallback /\ InCallback \subseteq DOMAIN msg
    BY <1>1, <1>2, <1>3, PoolParts DEF InCallback
  <2> QED BY <1>2, <1>3, <2>1, PoolParts
<1> QED BY <1>3, <1>4, <1>5, IInvParts DEF WheelInv

\* A poll that lets k ticks pass, none if the clock is behind.
LEMMA PollStep ==
  ASSUME WheelInv, NEW k \in Nat, PopAllExpire(k), timeout = {}, calling = NotCalling,
         phase' \in 0 .. Granularity - 1, UNCHANGED <<serial, msg, calling>>
  PROVE  WheelInv'
<1>1. IInv /\ Typed /\ PoolExact
  BY IInvParts DEF WheelInv
<1>2. /\ timeout' \subseteq timers /\ timers' = timers \ timeout'
      /\ lastNode' \in Slots
      /\ WheelOf(nodes', timers', msg)
  BY <1>1, PollFacts
<1>3. Typed'
  BY <1>1, <1>2 DEF Typed
<1>4. PoolExact'
  <2>1. InCallback' = {} /\ InCallback = {}
    BY DEF InCallback
  <2> QED BY <1>1, <1>2, <2>1, PoolParts
<1> QED BY <1>2, <1>3, <1>4, IInvParts DEF WheelInv

LEMMA FireStep ==
  ASSUME WheelInv, Fire
  PROVE  WheelInv' /\ Min0(timeout) \in timeout /\ \A j \in timeout : Min0(timeout) <= j
<1> DEFINE id == Min0(timeout)
<1>1. IInv /\ Typed /\ PoolExact /\ WheelOf(nodes, timers, msg)
  BY IInvParts DEF WheelInv
<1>2. id \in timeout /\ \A j \in timeout : id <= j
  <2>1. timeout \in SUBSET Nat /\ timeout # {}
    BY <1>1 DEF Typed, Fire
  <2>2. \E i \in timeout : \A j \in timeout : i <= j
    BY <2>1, Least
  <2> QED BY <2>2 DEF Min0
<1>3. /\ timeout' = timeout \ {id} /\ calling = NotCalling
      /\ calling' = [id |-> id, restarted |-> msg[id].autoRestart]
      /\ IF msg[id].autoRestart THEN Scheduled(id, msg[id]) ELSE UNCHANGED <<nodes, msg, timers>>
      /\ serial' = serial /\ phase' = phase /\ lastNode' = lastNode
  BY DEF Fire
<1> HIDE DEF id
<1>4. id \in DOMAIN msg /\ id \in 1 .. serial /\ id \notin timers /\ id \in Ids /\ msg[id] \in TriggerMsg
  BY <1>1, <1>2, TimerAssumption DEF Typed, Ids
<1>5. calling' \in [id : 1 .. serial', restarted : BOOLEAN] /\ calling' # NotCalling
      /\ calling'.id = id /\ calling'.restarted = msg[id].autoRestart
  BY <1>3, <1>4 DEF TriggerMsg, NotCalling
<1>6. InCallback = {}
  BY <1>3 DEF InCallback
<1>7. CASE msg[id].autoRestart
  <2>1. /\ timers' = timers \cup {id}
        /\ DOMAIN msg' = DOMAIN msg \cup {id} /\ msg' \in [DOMAIN msg' -> TriggerMsg]
        /\ WheelOf(nodes', timers', msg')
    BY <1>1, <1>3, <1>4, <1>7, ScheduledFacts
  <2>2. DOMAIN msg' = DOMAIN msg
    BY <1>4, <2>1
  <2>3. Typed'
    BY <1>1, <1>2, <1>3, <1>4, <1>5, <2>1, <2>2 DEF Typed
  <2>4. InCallback' = {}
    BY <1>5, <1>7 DEF InCallback
  <2>5. PoolExact'
    BY <1>1, <1>2, <1>3, <1>6, <2>1, <2>2, <2>4, PoolParts
  <2> QED BY <1>2, <2>1, <2>3, <2>5, IInvParts DEF WheelInv, id
<1>8. CASE ~msg[id].autoRestart
  <2>1. nodes' = nodes /\ msg' = msg /\ timers' = timers
    BY <1>3, <1>8
  <2>2. Typed'
    BY <1>1, <1>2, <1>3, <1>4, <1>5, <2>1 DEF Typed
  <2>3. InCallback' = {id}
    BY <1>5, <1>8 DEF InCallback
  <2>4. PoolExact'
    BY <1>1, <1>2, <1>3, <1>4, <1>6, <1>8, <2>1, <2>3, PoolParts
  <2> QED BY <1>1, <1>2, <2>1, <2>2, <2>4, IInvParts DEF WheelInv, id
<1> QED BY <1>7, <1>8

LEMMA ReturnStep ==
  ASSUME WheelInv, Return
  PROVE  WheelInv'
<1>1. IInv /\ Typed /\ PoolExact /\ WheelOf(nodes, timers, msg)
  BY IInvParts DEF WheelInv
<1>2. /\ calling # NotCalling /\ calling' = NotCalling
      /\ msg' = Without(msg, ReleasedAfter) /\ ReleasedAfter = InCallback
      /\ serial' = serial /\ phase' = phase /\ lastNode' = lastNode
      /\ nodes' = nodes /\ timers' = timers /\ timeout' = timeout
  BY DEF Return, ReleasedAfter, InCallback
<1>3. /\ DOMAIN msg' = DOMAIN msg \ InCallback /\ msg' \in [DOMAIN msg' -> TriggerMsg]
      /\ \A i \in DOMAIN msg' : msg'[i] = msg[i]
  BY <1>1, <1>2 DEF Typed, Without
<1>4. DOMAIN msg = timers \cup timeout \cup InCallback /\ InCallback \cap (timers \cup timeout) = {}
  BY <1>1, PoolParts
<1>5. DOMAIN msg' = timers \cup timeout
  BY <1>3, <1>4
<1>6. Typed'
  BY <1>1, <1>2, <1>3, <1>5 DEF Typed
<1>7. WheelOf(nodes', timers', msg')
  <2>1. \A i \in timers : msg'[i] = msg[i]
    BY <1>3, <1>5
  <2>2. \A s \in Slots : {i \in timers : msg'[i].hindex = s} = {i \in timers : msg[i].hindex = s}
    BY <2>1
  <2> QED BY <1>1, <1>2, <2>2 DEF WheelOf
<1>8. PoolExact'
  <2>1. InCallback' = {}
    BY <1>2 DEF InCallback
  <2> QED BY <1>2, <1>5, <2>1, PoolParts
<1> QED BY <1>6, <1>7, <1>8, IInvParts DEF WheelInv

LEMMA WheelStep == WheelInv /\ [Next]_vars => WheelInv'
<1> SUFFICES ASSUME WheelInv, [Next]_vars PROVE WheelInv'
  OBVIOUS
<1>1. CASE \E interval \in Intervals, autoRestart \in BOOLEAN : Start(interval, autoRestart)
  BY <1>1, StartStep
<1>2. CASE \E id \in Ids : Cancel(id)
  BY <1>2, CancelStep
<1>3. ASSUME NEW elapsed \in 0 .. MaxElapsed, Poll(elapsed) PROVE WheelInv'
  <2>1. phase \in 0 .. Granularity - 1
    BY IInvParts DEF WheelInv, Typed
  <2>2. elapsed \in Nat /\ phase + elapsed \in Nat
    BY <2>1, TimerAssumption
  <2>3. NodeInv(elapsed, phase) \in Nat /\ (phase + elapsed) % Granularity \in 0 .. Granularity - 1
    BY <2>1, <2>2, NodeInvIs, Divided, TimerAssumption
  <2>4. /\ timeout = {} /\ calling = NotCalling /\ PopAllExpire(NodeInv(elapsed, phase))
        /\ phase' \in 0 .. Granularity - 1 /\ UNCHANGED <<serial, msg, calling>>
    BY <1>3, <2>3 DEF Poll
  <2> QED BY <2>3, <2>4, PollStep
<1>4. CASE PollSetBack
  <2>1. /\ timeout = {} /\ calling = NotCalling /\ PopAllExpire(0)
        /\ phase' \in 0 .. Granularity - 1 /\ UNCHANGED <<serial, msg, calling>>
    BY <1>4 DEF PollSetBack
  <2> QED BY <2>1, PollStep
<1>5. CASE Fire
  BY <1>5, FireStep
<1>6. CASE Return
  BY <1>6, ReturnStep
<1>7. CASE UNCHANGED vars
  <2>1. Typed' /\ WheelOf(nodes', timers', msg') /\ PoolExact'
    BY <1>7, IInvParts DEF WheelInv, vars, Typed, PoolExact
  <2> QED BY <2>1, IInvParts DEF WheelInv
<1> QED BY <1>1, <1>2, <1>3, <1>4, <1>5, <1>6, <1>7 DEF Next

LEMMA WheelInvariant == Spec => []WheelInv
BY WheelInit, WheelStep, PTL DEF Spec

\* The lists of the wheel stay in order, and hold exactly the timers that run,
\* each in the slot that its record names: insert, eraseTimer and popExpire of
\* jintimer.cpp, for every wheel and every order of starts, cancels and polls.
THEOREM WheelInOrder == Spec => []IInv
<1>1. WheelInv => IInv
  BY DEF WheelInv
<1> QED BY <1>1, WheelInvariant, PTL

\* Every record of the pool has one owner, so the releases of cancel and of
\* poll (jintimer.cpp:443) neither leak one nor release it twice.
THEOREM PoolIsExact == Spec => []PoolExact
<1>1. WheelInv => PoolExact
  BY DEF WheelInv
<1> QED BY <1>1, WheelInvariant, PTL

-----------------------------------------------------------------------------
(* The wheel implements Timers.                                            *)

\* The variables of Timers, as the mapping of TimerWheel gives them.
Left == [id \in timers |-> LeftOf(id)]
Every == [id \in DOMAIN msg |-> msg[id].interval]
Again == {id \in DOMAIN msg : msg[id].autoRestart}

LEMMA Mapped ==
  /\ Left = [i \in timers |-> LeftAt(lastNode, msg[i].hindex, nodes[msg[i].hindex], i)]
  /\ Left' = [i \in timers' |-> LeftAt(lastNode', msg'[i].hindex, nodes'[msg'[i].hindex], i)]
  /\ Every' = [i \in DOMAIN msg' |-> msg'[i].interval]
  /\ Again' = {i \in DOMAIN msg' : msg'[i].autoRestart}
BY DEF Left, LeftOf, Ahead, LeftAt, AheadOf, Every, Again

LEMMA IdsArePositive == WheelInv => 0 \notin Ids /\ (calling # NotCalling => calling.id # 0)
BY IInvParts DEF WheelInv, Typed, Ids, NotCalling

LEMMA FreeToCall == WheelInv /\ InCaller => calling.id # 0 \/ timeout = {}
BY IdsArePositive DEF InCaller

LEMMA TickOf ==
  ASSUME NEW t \in Intervals \cup 0 .. MaxElapsed, NEW ph \in 0 .. Granularity - 1
  PROVE  NodeInv(t, ph) \in Ticks
BY DEF Ticks

LEMMA NoTick == 0 \in Ticks /\ 0 \in Nat
<1> DEFINE d == NodeInv(0, 0)
<1>1. 0 \in 0 .. Granularity - 1 /\ 0 \in Intervals \cup 0 .. MaxElapsed
  BY TimerAssumption
<1>2. d \in Nat /\ d * Granularity < 0 + Granularity
  BY <1>1, NodeInvIs
<1>3. d \in Ticks
  BY <1>1, TickOf
<1> HIDE DEF d
<1>4. d = 0
  <2>1. 0 < d => Granularity * 0 + Granularity <= Granularity * d
    BY <1>2, TimerAssumption, Products
  <2>2. Granularity * d = d * Granularity /\ Granularity * 0 = 0
    BY <1>2, TimerAssumption
  <2> QED BY <1>2, <2>1, <2>2, TimerAssumption
<1> QED BY <1>3, <1>4

\* Starting a timer.
LEMMA StartMaps ==
  ASSUME WheelInv, NEW interval \in Intervals, NEW autoRestart \in BOOLEAN,
         Start(interval, autoRestart)
  PROVE  Abs!AbsNext
<1> DEFINE id == serial + 1
           m == [interval |-> interval, autoRestart |-> autoRestart, hindex |-> 0]
           d == NodeInv(interval, phase)
<1>1. /\ InCaller /\ serial < MaxTimers
      /\ Scheduled(id, m)
      /\ phase' = phase /\ lastNode' = lastNode /\ timeout' = timeout /\ calling' = calling
  BY DEF Start
<1>2. IInv /\ Typed /\ PoolExact
  BY IInvParts DEF WheelInv
<1>3. id \in Ids /\ id \notin 1 .. serial
  BY <1>1, <1>2, TimerAssumption DEF Typed, Ids
<1>4. m \in TriggerMsg /\ m.interval = interval /\ m.autoRestart = autoRestart
  BY TimerAssumption DEF TriggerMsg, Slots
<1> HIDE DEF id, m
<1>5. id \notin DOMAIN msg /\ id \notin timers
  BY <1>2, <1>3 DEF Typed
<1>6. /\ timers' = timers \cup {id}
      /\ DOMAIN msg' = DOMAIN msg \cup {id}
      /\ \A i \in DOMAIN msg \ {id} : msg'[i] = msg[i]
      /\ msg'[id].autoRestart = autoRestart /\ msg'[id].interval = interval
      /\ \A i \in timers :
           LeftAt(lastNode, msg'[i].hindex, nodes'[msg'[i].hindex], i)
             = LeftAt(lastNode, msg[i].hindex, nodes[msg[i].hindex], i)
      /\ LeftAt(lastNode, msg'[id].hindex, nodes'[msg'[id].hindex], id) = d
  BY <1>2, <1>3, <1>4, <1>5, <1>1, ScheduledFacts
<1>7. phase \in 0 .. Granularity - 1 /\ interval \in Nat
  BY <1>2, TimerAssumption DEF Typed
<1>8. d \in Ticks /\ d * Granularity < interval + Granularity /\ interval < (d + 1) * Granularity
  BY <1>7, TickOf, NodeInvIs
<1> HIDE DEF d
<1>9. Left' = [j \in DOMAIN Left \cup {id} |-> IF j = id THEN d ELSE Left[j]]
  <2>1. DOMAIN Left = timers
    BY Mapped
  <2>2. \A j \in timers' : LeftAt(lastNode', msg'[j].hindex, nodes'[msg'[j].hindex], j)
                             = IF j = id THEN d ELSE Left[j]
    BY <1>1, <1>5, <1>6, Mapped
  <2>3. Left' = [j \in timers' |-> IF j = id THEN d ELSE Left[j]]
    BY <2>2, Mapped
  <2> QED BY <1>6, <2>1, <2>3
<1>10. /\ Every' = [j \in DOMAIN Every \cup {id} |-> IF j = id THEN interval ELSE Every[j]]
       /\ id \notin DOMAIN Every
       /\ id \in DOMAIN Every' /\ Every'[id] = interval
  <2>1. \A j \in DOMAIN msg' : msg'[j].interval = IF j = id THEN interval ELSE Every[j]
    BY <1>5, <1>6 DEF Every
  <2>2. Every' = [j \in DOMAIN msg' |-> IF j = id THEN interval ELSE Every[j]]
    BY <2>1, Mapped
  <2> QED BY <1>5, <1>6, <2>2 DEF Every
<1>11. Again' = IF autoRestart THEN Again \cup {id} ELSE Again
  BY <1>5, <1>6, Mapped DEF Again
<1>12. calling.id # 0 \/ timeout = {}
  BY <1>1, FreeToCall
<1>13. timeout' = timeout /\ calling'.id = calling.id
  BY <1>1
<1>14. Abs!AbsStart(id, interval, d, autoRestart)
  BY <1>8, <1>9, <1>10, <1>11, <1>12, <1>13
     DEF Abs!AbsStart, Abs!Free, Abs!Rounded, Left, Every, Again
<1>15. id \in DOMAIN [i \in DOMAIN msg |-> msg[i].interval]'
       /\ [i \in DOMAIN msg |-> msg[i].interval]'[id] = interval
  BY <1>10 DEF Every
<1> QED BY <1>3, <1>8, <1>14, <1>15 DEF Abs!AbsNext

LEMMA CancelMaps ==
  ASSUME WheelInv, NEW id \in Ids, Cancel(id)
  PROVE  Abs!AbsNext
<1>1. /\ InCaller /\ (CancelRunning(id) \/ CancelExpired(id))
      /\ msg' = Without(msg, {id})
      /\ lastNode' = lastNode /\ calling' = calling
  BY DEF Cancel
<1>2. IInv /\ Typed /\ InCaller
  BY IInvParts DEF WheelInv, Cancel
<1>3. /\ id \in timers \cup timeout
      /\ timers' = timers \ {id} /\ timeout' = timeout \ {id}
      /\ DOMAIN msg' = DOMAIN msg \ {id}
      /\ \A i \in DOMAIN msg' : msg'[i] = msg[i]
      /\ \A i \in timers' :
           LeftAt(lastNode, msg'[i].hindex, nodes'[msg'[i].hindex], i)
             = LeftAt(lastNode, msg[i].hindex, nodes[msg[i].hindex], i)
  <2>1. CASE CancelRunning(id)
    <3>1. id \in timers => id \notin timeout
      BY <1>2 DEF Typed
    <3> QED BY <1>1, <1>2, <2>1, <3>1, CancelRunningFacts
  <2>2. CASE CancelExpired(id)
    <3>1. id \in timeout /\ id \notin timers /\ timeout' = timeout \ {id}
          /\ timers' = timers /\ nodes' = nodes
      BY <2>2 DEF CancelExpired
    <3>2. DOMAIN msg' = DOMAIN msg \ {id} /\ \A i \in DOMAIN msg' : msg'[i] = msg[i]
      BY <1>1 DEF Without
    <3>3. \A i \in timers' : msg'[i] = msg[i]
      BY <1>2, <3>1, <3>2 DEF Typed
    <3> QED BY <3>1, <3>2, <3>3
  <2> QED BY <1>1, <2>1, <2>2
<1>4. Left' = [j \in DOMAIN Left \ {id} |-> Left[j]]
  <2>1. DOMAIN Left = timers
    BY Mapped
  <2>2. \A j \in timers' : LeftAt(lastNode', msg'[j].hindex, nodes'[msg'[j].hindex], j) = Left[j]
    BY <1>1, <1>3, Mapped
  <2>3. Left' = [j \in timers' |-> Left[j]]
    BY <2>2, Mapped
  <2> QED BY <1>3, <2>1, <2>3
<1>5. Every' = [j \in DOMAIN Every \ {id} |-> Every[j]] /\ Again' = Again \ {id}
  <2>1. \A j \in DOMAIN msg' : msg'[j].interval = Every[j]
    BY <1>3 DEF Every
  <2>2. Every' = [j \in DOMAIN msg' |-> Every[j]]
    BY <2>1, Mapped
  <2>3. Again' = Again \ {id}
    BY <1>3, Mapped DEF Again
  <2> QED BY <1>3, <2>2, <2>3 DEF Every
<1>6. calling.id # 0 \/ timeout = {}
  BY <1>2, FreeToCall
<1>7. id \in DOMAIN Left \cup timeout /\ timeout' = timeout \ {id} /\ calling'.id = calling.id
  BY <1>1, <1>3, Mapped
<1>8. Abs!AbsCancel(id)
  BY <1>4, <1>5, <1>6, <1>7 DEF Abs!AbsCancel, Abs!Free, Abs!Of, Left, Every, Again
<1> QED BY <1>8 DEF Abs!AbsNext

LEMMA PollMaps ==
  ASSUME WheelInv, NEW k \in Ticks, k \in Nat, PopAllExpire(k), timeout = {},
         calling = NotCalling, msg' = msg, calling' = calling
  PROVE  Abs!AbsNext
<1>1. IInv /\ Typed
  BY IInvParts DEF WheelInv
<1>2. /\ timeout' \subseteq timers /\ timers' = timers \ timeout'
      /\ \A i \in timers :
           LET left == LeftAt(lastNode, msg[i].hindex, nodes[msg[i].hindex], i)
           IN /\ left \in Nat
              /\ i \in timeout' => left <= k
              /\ left < k => i \in timeout'
              /\ k < CycleNodes /\ left = k => i \in timeout'
              /\ i \in timers' =>
                   LeftAt(lastNode', msg[i].hindex, nodes'[msg[i].hindex], i) = left - k
  BY <1>1, PollFacts
<1>3. DOMAIN Left = timers /\ \A i \in timers :
        Left[i] = LeftAt(lastNode, msg[i].hindex, nodes[msg[i].hindex], i)
  BY Mapped
<1>4. /\ \A i \in DOMAIN Left : Left[i] < k => i \in timeout'
      /\ \A i \in timeout' : i \in DOMAIN Left /\ Left[i] <= k
      /\ k < CycleNodes => \A i \in DOMAIN Left : Left[i] = k => i \in timeout'
  BY <1>2, <1>3
<1>5. Left' = [i \in DOMAIN Left \ timeout' |-> Left[i] - k]
  <2>1. \A i \in timers' :
          LeftAt(lastNode', msg'[i].hindex, nodes'[msg'[i].hindex], i) = Left[i] - k
    BY <1>2, <1>3
  <2>2. Left' = [i \in timers' |-> Left[i] - k]
    BY <2>1, Mapped
  <2> QED BY <1>2, <1>3, <2>2
<1>6. Every' = Every /\ Again' = Again /\ calling'.id = calling.id /\ calling.id = 0
  BY Mapped DEF Every, Again, NotCalling
<1>7. Abs!AbsPoll(k)
  BY <1>4, <1>5, <1>6 DEF Abs!AbsPoll, Left, Every, Again
<1> QED BY <1>7 DEF Abs!AbsNext

LEMMA FireMaps ==
  ASSUME WheelInv, Fire
  PROVE  Abs!AbsNext
<1> DEFINE id == Min0(timeout)
<1>1. IInv /\ Typed
  BY IInvParts DEF WheelInv
<1>2. id \in timeout /\ \A j \in timeout : id <= j
  BY FireStep
<1>3. /\ timeout' = timeout \ {id} /\ calling = NotCalling
      /\ calling' = [id |-> id, restarted |-> msg[id].autoRestart]
      /\ IF msg[id].autoRestart THEN Scheduled(id, msg[id]) ELSE UNCHANGED <<nodes, msg, timers>>
      /\ phase' = phase /\ lastNode' = lastNode
  BY DEF Fire
<1> HIDE DEF id
<1>4. id \in DOMAIN msg /\ id \notin timers /\ id \in Ids /\ msg[id] \in TriggerMsg
  BY <1>1, <1>2, TimerAssumption DEF Typed, Ids
<1>5. calling.id = 0 /\ calling'.id = id
  BY <1>3 DEF NotCalling
<1>6. id \in Again <=> msg[id].autoRestart
  BY <1>4 DEF Again
<1>7. CASE msg[id].autoRestart
  <2> DEFINE d == NodeInv(msg[id].interval, phase)
  <2>1. /\ timers' = timers \cup {id}
        /\ DOMAIN msg' = DOMAIN msg \cup {id}
        /\ \A i \in DOMAIN msg \ {id} : msg'[i] = msg[i]
        /\ msg'[id].autoRestart = msg[id].autoRestart /\ msg'[id].interval = msg[id].interval
        /\ \A i \in timers :
             LeftAt(lastNode, msg'[i].hindex, nodes'[msg'[i].hindex], i)
               = LeftAt(lastNode, msg[i].hindex, nodes[msg[i].hindex], i)
        /\ LeftAt(lastNode, msg'[id].hindex, nodes'[msg'[id].hindex], id) = d
    BY <1>1, <1>3, <1>4, <1>7, ScheduledFacts
  <2>2. phase \in 0 .. Granularity - 1 /\ msg[id].interval \in Intervals /\ msg[id].interval \in Nat
    BY <1>1, <1>4, TimerAssumption DEF Typed, TriggerMsg
  <2>3. /\ d \in Ticks /\ d * Granularity < msg[id].interval + Granularity
        /\ msg[id].interval < (d + 1) * Granularity
    BY <2>2, TickOf, NodeInvIs
  <2> HIDE DEF d
  <2>4. Left' = [j \in DOMAIN Left \cup {id} |-> IF j = id THEN d ELSE Left[j]]
    <3>1. DOMAIN Left = timers
      BY Mapped
    <3>2. \A j \in timers' : LeftAt(lastNode', msg'[j].hindex, nodes'[msg'[j].hindex], j)
                               = IF j = id THEN d ELSE Left[j]
      BY <1>3, <1>4, <2>1, Mapped
    <3>3. Left' = [j \in timers' |-> IF j = id THEN d ELSE Left[j]]
      BY <3>2, Mapped
    <3> QED BY <2>1, <3>1, <3>3
  <2>5. Every[id] = msg[id].interval
    BY <1>4 DEF Every
  <2>6. Every' = Every /\ Again' = Again
    <3>1. DOMAIN msg' = DOMAIN msg
      BY <1>4, <2>1
    <3>2. \A i \in DOMAIN msg : msg'[i].interval = msg[i].interval
                                /\ msg'[i].autoRestart = msg[i].autoRestart
      BY <2>1
    <3> QED BY <3>1, <3>2, Mapped DEF Every, Again
  <2>7. Abs!AbsFire(id, d)
    BY <1>2, <1>3, <1>5, <1>6, <1>7, <2>3, <2>4, <2>5, <2>6
       DEF Abs!AbsFire, Abs!Rounded, Left, Every, Again
  <2> QED BY <1>4, <2>3, <2>7 DEF Abs!AbsNext
<1>8. CASE ~msg[id].autoRestart
  <2>1. nodes' = nodes /\ msg' = msg /\ timers' = timers
    BY <1>3, <1>8
  <2>2. Left' = Left /\ Every' = Every /\ Again' = Again
    BY <1>3, <2>1, Mapped DEF Every, Again
  <2>3. Abs!AbsFire(id, 0)
    BY <1>2, <1>3, <1>5, <1>6, <1>8, <2>2 DEF Abs!AbsFire, Left, Every, Again
  <2> QED BY <1>4, <2>3, NoTick DEF Abs!AbsNext
<1> QED BY <1>7, <1>8

LEMMA ReturnMaps ==
  ASSUME WheelInv, Return
  PROVE  Abs!AbsNext
<1>1. IInv /\ Typed /\ PoolExact
  BY IInvParts DEF WheelInv
<1>2. /\ calling # NotCalling /\ calling' = NotCalling
      /\ msg' = Without(msg, ReleasedAfter) /\ ReleasedAfter = InCallback
      /\ lastNode' = lastNode /\ nodes' = nodes /\ timers' = timers /\ timeout' = timeout
  BY DEF Return, ReleasedAfter, InCallback
<1>3. /\ DOMAIN msg' = DOMAIN msg \ InCallback
      /\ \A i \in DOMAIN msg' : msg'[i] = msg[i]
  BY <1>2 DEF Without
<1>4. /\ DOMAIN msg = timers \cup timeout \cup InCallback
      /\ \A i \in InCallback : i \notin timers \cup timeout /\ ~msg[i].autoRestart
  BY <1>1, PoolParts
<1>5. DOMAIN msg' = timers \cup timeout
  BY <1>3, <1>4
<1>6. \A i \in timers : msg'[i] = msg[i]
  BY <1>3, <1>5
<1>7. Left' = Left /\ DOMAIN Left = timers
  BY <1>2, <1>6, Mapped
<1>8. Every' = [i \in DOMAIN Left \cup timeout |-> Every[i]]
  <2>1. \A i \in DOMAIN msg' : msg'[i].interval = Every[i]
    BY <1>3 DEF Every
  <2>2. Every' = [i \in DOMAIN msg' |-> Every[i]]
    BY <2>1, Mapped
  <2> QED BY <1>5, <1>7, <2>2
<1>9. Again' = Again
  BY <1>3, <1>4, Mapped DEF Again
<1>10. calling.id # 0 /\ calling'.id = 0
  BY <1>2, IdsArePositive DEF NotCalling
<1>11. Abs!AbsReturn
  BY <1>2, <1>7, <1>8, <1>9, <1>10 DEF Abs!AbsReturn, Abs!Of, Left, Every, Again
<1> QED BY <1>11 DEF Abs!AbsNext

LEMMA InitMaps == Init => Abs!AbsInit
<1> SUFFICES ASSUME Init PROVE Abs!AbsInit
  OBVIOUS
<1>1. DOMAIN msg = {} /\ timers = {} /\ timeout = {} /\ calling.id = 0
  BY DEF Init, Without, NotCalling
<1> QED BY <1>1 DEF Abs!AbsInit, Abs!Of

LEMMA StepMaps == WheelInv /\ [Next]_vars => [Abs!AbsNext]_(Abs!absVars)
<1> SUFFICES ASSUME WheelInv, [Next]_vars PROVE [Abs!AbsNext]_(Abs!absVars)
  OBVIOUS
<1>1. CASE \E interval \in Intervals, autoRestart \in BOOLEAN : Start(interval, autoRestart)
  BY <1>1, StartMaps
<1>2. CASE \E id \in Ids : Cancel(id)
  BY <1>2, CancelMaps
<1>3. ASSUME NEW elapsed \in 0 .. MaxElapsed, Poll(elapsed) PROVE Abs!AbsNext
  <2>1. phase \in 0 .. Granularity - 1
    BY IInvParts DEF WheelInv, Typed
  <2>2. NodeInv(elapsed, phase) \in Nat /\ NodeInv(elapsed, phase) \in Ticks
    BY <2>1, NodeInvIs, TickOf
  <2>3. /\ timeout = {} /\ calling = NotCalling /\ PopAllExpire(NodeInv(elapsed, phase))
        /\ msg' = msg /\ calling' = calling
    BY <1>3 DEF Poll
  <2> QED BY <2>2, <2>3, PollMaps
<1>4. CASE PollSetBack
  <2>1. /\ timeout = {} /\ calling = NotCalling /\ PopAllExpire(0)
        /\ msg' = msg /\ calling' = calling
    BY <1>4 DEF PollSetBack
  <2> QED BY <2>1, NoTick, PollMaps
<1>5. CASE Fire
  BY <1>5, FireMaps
<1>6. CASE Return
  BY <1>6, ReturnMaps
<1>7. CASE UNCHANGED vars
  <2>1. Left' = Left /\ Every' = Every /\ Again' = Again /\ timeout' = timeout /\ calling' = calling
    BY <1>7, Mapped DEF vars, Every, Again
  <2> QED BY <2>1 DEF Abs!absVars, Left, Every, Again
<1> QED BY <1>1, <1>2, <1>3, <1>4, <1>5, <1>6, <1>7 DEF Next

\* The wheel, with its differences between the nodes and the walks of poll's
\* popAllExpire (jintimer.cpp:173), behaves as a set of timers with ticks
\* left: none fires early, none that is due before a poll is missed by it, and
\* a cancelled one is never called.
THEOREM WheelImplementsTimers == Spec => ImplementsTimers
BY InitMaps, StepMaps, WheelInvariant, PTL DEF Spec, ImplementsTimers, Abs!AbsSpec
=============================================================================
