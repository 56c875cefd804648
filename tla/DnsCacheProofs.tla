--------------------------- MODULE DnsCacheProofs ---------------------------
(***************************************************************************)
(* Proofs about module DnsCache: its invariant, and that a good address is *)
(* offered while there is one, for every set of addresses and MaxCount.    *)
(***************************************************************************)
EXTENDS DnsCache, WellFoundedInduction, TLAPS

\* A non-empty set of numbers has a least one.
LEMMA Least ==
  ASSUME NEW T \in SUBSET Nat, T # {}
  PROVE  \E x \in T : \A y \in T : x <= y
<1> DEFINE R == {ss \in Nat \X Nat : ss[1] < ss[2]}
<1>1. IsWellFoundedOn(R, Nat)
  BY NatLessThanWellFounded DEF OpToRel
<1>2. PICK x \in T : \A y \in T : <<y, x>> \notin R
  <2> HIDE DEF R
  <2> QED BY <1>1, WFMin
<1>3. ASSUME NEW y \in T PROVE x <= y
  <2>1. <<y, x>> \in Nat \X Nat /\ <<y, x>> \notin R
    BY <1>2
  <2>2. <<y, x>>[1] = y /\ <<y, x>>[2] = x
    OBVIOUS
  <2>3. ~(y < x)
    BY <2>1, <2>2
  <2> QED BY <2>3
<1> QED BY <1>3

\* The loop of NotifyIpAddressValid arrives at a count that fits.
LEMMA CountFits ==
  ASSUME TypeOK, NEW i \in Places(ipCount)
  PROVE  CountOfStartW1(i) \in 0 .. i + 1 /\ StartsWith(CountOfStartW1(i), i)
<1> DEFINE T == {c \in 0 .. i + 1 : c = i + 1 \/ weigh[c] < 1}
<1>1. i \in Nat /\ i < ipCount /\ ipCount \in Nat
  BY CacheAssumption DEF TypeOK, Places
<1>2. PICK c \in T : \A y \in T : c <= y
  <2>1. i + 1 \in T /\ T \in SUBSET Nat
    BY <1>1
  <2> HIDE DEF T
  <2> QED BY <2>1, Least
<1>3. StartsWith(c, i)
  <2>1. ASSUME NEW k \in Places(c) PROVE weigh[k] >= 1
    <3>1. k \in 0 .. i + 1 /\ k < c /\ k \in Places(ipCount)
      BY <1>1, <1>2 DEF Places
    <3>2. k \notin T
      BY <3>1, <1>1, <1>2
    <3>3. weigh[k] \in -1 .. 2
      BY <3>1 DEF TypeOK
    <3> QED BY <3>1, <3>2, <3>3
  <2>2. c <= i => weigh[c] < 1
    BY <1>1, <1>2
  <2> QED BY <2>1, <2>2 DEF StartsWith
<1>4. c \in 0 .. i + 1
  BY <1>2
<1> QED BY <1>3, <1>4 DEF CountOfStartW1

\* A move is a permutation of the places.
LEMMA MovedKeeps ==
  ASSUME NEW n \in Nat, NEW S, NEW f \in [Places(n) -> S],
         NEW from \in Places(n), NEW to \in Places(n), NEW value \in S
  PROVE  Moved(f, from, to, value) \in [Places(n) -> S]
<1>1. ASSUME NEW k \in Places(n)
      PROVE  from <= k /\ k < to => k + 1 \in Places(n)
  BY <1>1 DEF Places
<1>2. ASSUME NEW k \in Places(n)
      PROVE  to < k /\ k <= from => k - 1 \in Places(n)
  BY <1>2 DEF Places
<1> QED BY <1>1, <1>2 DEF Moved

Source(k, from, to) ==
  IF k = to THEN from
  ELSE IF from <= k /\ k < to THEN k + 1
  ELSE IF to < k /\ k <= from THEN k - 1
  ELSE k

LEMMA SourceIsOne ==
  ASSUME NEW n \in Nat, NEW from \in Places(n), NEW to \in Places(n),
         NEW i \in Places(n), NEW j \in Places(n)
  PROVE  /\ Source(i, from, to) \in Places(n)
         /\ Source(i, from, to) = Source(j, from, to) => i = j
BY DEF Source, Places

LEMMA MovedDistinct ==
  ASSUME NEW n \in Nat, NEW S, NEW f \in [Places(n) -> S],
         NEW from \in Places(n), NEW to \in Places(n),
         \A i, j \in Places(n) : f[i] = f[j] => i = j,
         NEW i \in Places(n), NEW j \in Places(n),
         Moved(f, from, to, f[from])[i] = Moved(f, from, to, f[from])[j]
  PROVE  i = j
<1>1. ASSUME NEW k \in Places(n)
      PROVE  Moved(f, from, to, f[from])[k] = f[Source(k, from, to)]
  BY <1>1 DEF Moved, Source
<1>2. f[Source(i, from, to)] = f[Source(j, from, to)]
  BY <1>1
<1>3. Source(i, from, to) = Source(j, from, to)
  BY <1>2, SourceIsOne
<1> QED BY <1>3, SourceIsOne

-----------------------------------------------------------------------------
LEMMA InitInv == Init => CacheInv
<1> SUFFICES ASSUME Init PROVE CacheInv
  OBVIOUS
<1>1. Places(0) = {}
  BY DEF Places
<1>2. TypeOK
  <2>1. known \in BOOLEAN /\ fresh \in BOOLEAN /\ got \in Addresses \cup {NULL}
    BY DEF Init
  <2>2. ipCount \in 0 .. MaxCount /\ idx \in Nat /\ (known => ipCount > 0 /\ idx < ipCount)
    BY CacheAssumption DEF Init
  <2>3. ipCount = 0 /\ ipList = [i \in {} |-> NULL] /\ weigh = [i \in {} |-> 0]
    BY <1>1 DEF Init
  <2>4. ipList \in [{} -> Addresses] /\ weigh \in [{} -> -1 .. 2]
    BY <2>3
  <2> QED BY <1>1, <2>1, <2>2, <2>3, <2>4 DEF TypeOK
<1>3. NoneLost /\ GoodFirst
  BY <1>1 DEF Init, NoneLost, GoodFirst
<1> QED BY <1>2, <1>3 DEF CacheInv

LEMMA TurnFits ==
  ASSUME TypeOK, known
  PROVE  /\ ipCount \in Nat /\ 0 \in Places(ipCount)
         /\ idx \in Places(ipCount) /\ Turn \in Places(ipCount)
         /\ After(Turn) \in Places(ipCount)
<1>1. ipCount \in Nat /\ 0 \in Places(ipCount) /\ idx \in Places(ipCount)
  BY CacheAssumption DEF TypeOK, Places
<1>2. Turn \in Places(ipCount)
  BY <1>1 DEF Turn
<1>3. After(Turn) \in Places(ipCount)
  BY <1>1, <1>2 DEF After, Places
<1> QED BY <1>1, <1>2, <1>3

LEMMA GetInv == CacheInv /\ Get => CacheInv'
<1> SUFFICES ASSUME CacheInv, Get PROVE CacheInv'
  OBVIOUS
<1> USE DEF CacheInv
<1>1. known /\ TypeOK
  BY DEF Get
<1>2. Offer \in Addresses
  BY <1>1, TurnFits DEF Offer, TypeOK
<1>3. idx' \in Nat /\ idx' < ipCount
  BY <1>1, TurnFits DEF Get, Places
<1>4. TypeOK'
  BY <1>1, <1>2, <1>3 DEF Get, TypeOK, Places
<1>5. NoneLost' /\ GoodFirst'
  BY DEF Get, NoneLost, GoodFirst, Places
<1> QED BY <1>4, <1>5

LEMMA SetInv ==
  ASSUME CacheInv, NEW n \in Counts, NEW answer \in Answers, Set(answer, n)
  PROVE  CacheInv'
<1>1. n \in Nat /\ 0 < n /\ n <= MaxCount
  BY CacheAssumption DEF Counts
<1>2. answer \in [Places(n) -> Addresses]
  BY DEF Set
<1>3. \A i, j \in Places(n) : answer[i] = answer[j] => i = j
  <2>1. PICK m \in Counts : /\ answer \in [Places(m) -> Addresses]
                            /\ \A i, j \in Places(m) : answer[i] = answer[j] => i = j
    BY DEF Answers
  <2>2. Places(m) = Places(n)
    BY <1>2, <2>1
  <2> QED BY <2>1, <2>2
<1>4. ipCount' = n /\ ipList' = answer /\ idx' = 0
  BY DEF Set
<1>5. weigh' = [i \in Places(n) |-> IF i = 0 THEN 2 ELSE 0]
  BY DEF Set
<1>6. TypeOK'
  BY <1>1, <1>2, <1>4, <1>5 DEF Set, CacheInv, TypeOK
<1>7. NoneLost'
  BY <1>3, <1>4 DEF NoneLost
<1>8. GoodFirst'
  BY <1>1, <1>4, <1>5 DEF GoodFirst, Places
<1> QED BY <1>6, <1>7, <1>8 DEF CacheInv

-----------------------------------------------------------------------------
\* Votes.  Behind the count of those in front nothing is good.
LEMMA NoneBehind ==
  ASSUME CacheInv, NEW i \in Places(ipCount), CountOfStartW1(i) <= i,
         NEW j \in Places(ipCount), CountOfStartW1(i) <= j
  PROVE  weigh[j] < 1
<1> DEFINE c == CountOfStartW1(i)
<1>1. c \in Nat /\ weigh[c] < 1
  BY CountFits DEF CacheInv, StartsWith, Places
<1>2. c \in Places(ipCount) /\ i \in Nat /\ j \in Nat
  BY <1>1 DEF Places, CacheInv, TypeOK
<1>3. weigh[c] \in Int /\ weigh[j] \in Int
  BY <1>2 DEF CacheInv, TypeOK
<1> HIDE DEF c
<1>4. c < j \/ c = j
  BY <1>1, <1>2 DEF c
<1>5. weigh[j] >= 1 /\ c < j => weigh[c] >= 1
  BY <1>2 DEF CacheInv, GoodFirst
<1> QED BY <1>1, <1>3, <1>4, <1>5

LEMMA MoveInv ==
  ASSUME CacheInv, NEW from \in Places(ipCount), NEW to \in Places(ipCount), NEW w \in {-1, 1},
         ipList' = Moved(ipList, from, to, ipList[from]),
         weigh' = Moved(weigh, from, to, w),
         idx' \in Nat, idx' < ipCount,
         UNCHANGED <<known, ipCount, fresh, got>>
  PROVE  TypeOK' /\ NoneLost'
<1>1. ipCount \in Nat /\ ipList \in [Places(ipCount) -> Addresses] /\ weigh \in [Places(ipCount) -> -1 .. 2]
  BY CacheAssumption DEF CacheInv, TypeOK
<1>2. ipList' \in [Places(ipCount) -> Addresses]
  BY <1>1, MovedKeeps
<1>3. weigh' \in [Places(ipCount) -> -1 .. 2]
  <2>1. w \in -1 .. 2
    OBVIOUS
  <2> QED BY <1>1, <2>1, MovedKeeps
<1>4. TypeOK'
  BY <1>2, <1>3 DEF CacheInv, TypeOK
<1>5. NoneLost'
  <2> SUFFICES ASSUME NEW i \in Places(ipCount), NEW j \in Places(ipCount), ipList'[i] = ipList'[j]
               PROVE  i = j
    BY DEF NoneLost
  <2>1. \A k, l \in Places(ipCount) : ipList[k] = ipList[l] => k = l
    BY DEF CacheInv, NoneLost
  <2> QED BY <1>1, <2>1, MovedDistinct
<1> QED BY <1>4, <1>5

LEMMA UpgradeInv ==
  ASSUME CacheInv, known, NEW i \in Places(ipCount),
         Upgrades(i, TRUE), Upgrade(i, CountOfStartW1(i)),
         UNCHANGED <<known, ipCount, fresh, got>>
  PROVE  CacheInv'
<1> DEFINE c == CountOfStartW1(i)
<1>1. ipCount \in Nat /\ i \in Nat /\ i < ipCount /\ c \in Nat /\ c < i /\ c \in Places(ipCount)
  BY CountFits, CacheAssumption DEF CacheInv, TypeOK, Places, Upgrades
<1>2. \A k \in Places(c) : weigh[k] >= 1
  BY CountFits DEF CacheInv, StartsWith
<1>3. \A k \in Places(ipCount) : c <= k => weigh[k] < 1
  BY <1>1, NoneBehind
<1>4. weigh' = Moved(weigh, i, c, 1) /\ ipList' = Moved(ipList, i, c, ipList[i])
  BY DEF Upgrade
<1>5. weigh \in [Places(ipCount) -> -1 .. 2]
  BY DEF CacheInv, TypeOK
<1>6. idx' \in Nat /\ idx' < ipCount
  BY <1>1 DEF Upgrade, CacheInv, TypeOK
<1>7. TypeOK' /\ NoneLost'
  BY <1>1, <1>4, <1>6, MoveInv
<1>8. GoodFirst'
  <2> HIDE DEF c
  <2>1. ASSUME NEW j \in Places(ipCount)
        PROVE  /\ j < c => weigh'[j] = weigh[j]
               /\ j = c => weigh'[j] = 1
               /\ j > c => weigh'[j] < 1
    BY <1>1, <1>3, <1>4, <1>5 DEF Moved, Places
  <2>2. ASSUME NEW j \in Places(ipCount), NEW k \in Places(ipCount), weigh'[j] >= 1, k < j
        PROVE  weigh'[k] >= 1
    <3>1. weigh'[j] \in -1 .. 2
      BY <1>7 DEF TypeOK
    <3>2. ~(j > c)
      BY <2>1, <2>2, <3>1
    <3>3. j \in Nat /\ k \in Nat /\ k < c
      BY <1>1, <2>2, <3>2 DEF Places
    <3>4. weigh'[k] = weigh[k] /\ k \in Places(c)
      BY <1>1, <2>1, <3>3 DEF Places
    <3> QED BY <1>2, <3>4
  <2>3. ASSUME NEW j \in Places(ipCount), weigh'[j] = 2 PROVE j = 0
    <3>1. j < c
      BY <1>1, <2>1, <2>3 DEF Places
    <3> QED BY <2>1, <2>3, <3>1 DEF CacheInv, GoodFirst
  <2> QED BY <2>2, <2>3 DEF GoodFirst
<1> QED BY <1>7, <1>8 DEF CacheInv

LEMMA DowngradeInv ==
  ASSUME CacheInv, known, NEW i \in Places(ipCount), Downgrade(i),
         UNCHANGED <<known, ipCount, fresh, got>>
  PROVE  CacheInv'
<1>1. ipCount \in Nat /\ i \in Nat /\ i < ipCount /\ ipCount - 1 \in Places(ipCount)
  BY CacheAssumption DEF CacheInv, TypeOK, Places
<1>2. /\ weigh' = Moved(weigh, i, ipCount - 1, -1)
      /\ ipList' = Moved(ipList, i, ipCount - 1, ipList[i])
  BY DEF Downgrade
<1>3. weigh \in [Places(ipCount) -> -1 .. 2]
  BY DEF CacheInv, TypeOK
<1>4. idx' \in Nat /\ idx' < ipCount
  BY <1>1 DEF Downgrade, CacheInv, TypeOK
<1>5. TypeOK' /\ NoneLost'
  BY <1>1, <1>2, <1>4, MoveInv
<1>6. GoodFirst'
  <2>1. ASSUME NEW j \in Places(ipCount)
        PROVE  /\ j < i /\ j < ipCount - 1 => weigh'[j] = weigh[j]
               /\ i <= j /\ j < ipCount - 1 => j + 1 \in Places(ipCount) /\ weigh'[j] = weigh[j + 1]
               /\ j = ipCount - 1 => weigh'[j] = -1
    BY <1>1, <1>2, <1>3 DEF Moved, Places
  <2>2. ASSUME NEW j \in Places(ipCount), NEW k \in Places(ipCount), weigh'[j] >= 1, k < j
        PROVE  weigh'[k] >= 1
    <3>1. j \in Nat /\ k \in Nat /\ j < ipCount - 1 /\ k < ipCount - 1
      BY <1>1, <2>1, <2>2 DEF Places
    <3>2. CASE j < i
      BY <1>1, <2>1, <2>2, <3>1, <3>2 DEF CacheInv, GoodFirst
    <3>3. CASE i <= j
      <4>1. weigh[j + 1] >= 1 /\ j + 1 \in Places(ipCount)
        BY <2>1, <2>2, <3>1, <3>3
      <4>2. CASE k < i
        BY <1>1, <2>1, <2>2, <3>1, <4>1, <4>2 DEF CacheInv, GoodFirst
      <4>3. CASE i <= k
        BY <1>1, <2>1, <2>2, <3>1, <4>1, <4>3 DEF CacheInv, GoodFirst
      <4> QED BY <1>1, <3>1, <4>2, <4>3
    <3> QED BY <1>1, <3>1, <3>2, <3>3
  <2>3. ASSUME NEW j \in Places(ipCount), weigh'[j] = 2 PROVE j = 0
    <3>1. j \in Nat /\ j < ipCount - 1
      BY <1>1, <2>1, <2>3 DEF Places
    <3>2. CASE i <= j
      BY <2>1, <2>3, <3>1, <3>2 DEF CacheInv, GoodFirst
    <3>3. CASE j < i
      BY <2>1, <2>3, <3>1, <3>3 DEF CacheInv, GoodFirst
    <3> QED BY <1>1, <3>1, <3>2, <3>3
  <2> QED BY <2>2, <2>3 DEF GoodFirst
<1> QED BY <1>5, <1>6 DEF CacheInv

LEMMA ReweighInv ==
  ASSUME CacheInv, known, NEW i \in Places(ipCount), NEW valid \in BOOLEAN,
         ~Upgrades(i, valid), ~Downgrades(i, valid), Reweigh(i, valid),
         UNCHANGED <<known, ipCount, fresh, got>>
  PROVE  CacheInv'
<1>1. ipCount \in Nat /\ i \in Nat /\ i < ipCount
  BY CacheAssumption DEF CacheInv, TypeOK, Places
<1>2. weigh \in [Places(ipCount) -> -1 .. 2] /\ weigh[i] \in -1 .. 2
  BY DEF CacheInv, TypeOK
<1>3. weigh' = [weigh EXCEPT ![i] = IF valid THEN 1 ELSE -1]
  BY DEF Reweigh
<1>4. TypeOK' /\ NoneLost'
  BY <1>2, <1>3 DEF Reweigh, CacheInv, TypeOK, NoneLost
<1>5. ASSUME NEW j \in Places(ipCount), j # i PROVE weigh'[j] = weigh[j]
  BY <1>2, <1>3, <1>5
<1>6. GoodFirst'
  <2>1. CASE valid
    <3>1. weigh'[i] = 1
      BY <1>2, <1>3, <2>1
    <3>2. ASSUME NEW k \in Places(ipCount), k < i PROVE weigh[k] >= 1
      <4>1. CASE OldWeigh(i) >= 1
        <5>1. weigh[i] >= 1
          BY <1>2, <4>1 DEF OldWeigh
        <5> QED BY <3>2, <5>1 DEF CacheInv, GoodFirst
      <4>2. CASE i <= CountOfStartW1(i)
        BY <1>1, <3>2, <4>2, CountFits DEF CacheInv, StartsWith, Places
      <4>3. CountOfStartW1(i) \in Nat /\ OldWeigh(i) \in Int
        BY <1>1, <1>2, CountFits DEF CacheInv, OldWeigh
      <4> QED BY <1>1, <2>1, <4>1, <4>2, <4>3 DEF Upgrades
    <3> QED BY <1>1, <1>5, <3>1, <3>2 DEF Reweigh, CacheInv, GoodFirst, Places
  <2>2. CASE ~valid
    <3>1. weigh'[i] = -1
      BY <1>2, <1>3, <2>2
    <3>2. ASSUME NEW j \in Places(ipCount), i < j PROVE weigh[i] < 1
      <4>1. i + 1 < ipCount
        BY <1>1, <3>2 DEF Places
      <4> QED BY <1>2, <2>2, <4>1 DEF Downgrades, OldWeigh
    <3>3. ASSUME NEW j \in Places(ipCount), i < j PROVE weigh[j] < 1
      <4>1. weigh[i] < 1 /\ weigh[j] \in -1 .. 2
        BY <1>2, <3>2, <3>3
      <4> QED BY <1>2, <3>3, <4>1 DEF CacheInv, GoodFirst
    <3> QED BY <1>1, <1>2, <1>5, <3>1, <3>3 DEF Reweigh, CacheInv, GoodFirst, Places
  <2> QED BY <2>1, <2>2
<1> QED BY <1>4, <1>6 DEF CacheInv

LEMMA NotifyInv ==
  ASSUME CacheInv, NEW i \in Places(MaxCount), NEW valid \in BOOLEAN, NotifyIpAddressValid(i, valid)
  PROVE  CacheInv'
<1>1. known /\ i \in Places(ipCount) /\ UNCHANGED <<known, ipCount, fresh, got>>
  BY DEF NotifyIpAddressValid
<1>2. CASE Upgrades(i, valid) /\ Upgrade(i, CountOfStartW1(i))
  BY <1>1, <1>2, UpgradeInv DEF Upgrades
<1>3. CASE Downgrades(i, valid) /\ Downgrade(i)
  BY <1>1, <1>3, DowngradeInv
<1>4. CASE ~Upgrades(i, valid) /\ ~Downgrades(i, valid) /\ Reweigh(i, valid)
  BY <1>1, <1>4, ReweighInv
<1> QED BY <1>2, <1>3, <1>4 DEF NotifyIpAddressValid

-----------------------------------------------------------------------------
\* The record of a name is always well formed: no vote, refresh or offer
\* loses or doubles an address, puts a bad one in front of a good one, or
\* leaves the turn outside the list.
THEOREM CacheSafe == Spec => []CacheInv
<1>1. Init => CacheInv
  BY InitInv
<1>2. CacheInv /\ [Next]_vars => CacheInv'
  <2> SUFFICES ASSUME CacheInv, [Next]_vars PROVE CacheInv'
    OBVIOUS
  <2>1. CASE Get
    BY <2>1, GetInv
  <2>2. ASSUME NEW n \in Counts, NEW answer \in Answers, Set(answer, n) PROVE CacheInv'
    BY <2>2, SetInv
  <2>3. ASSUME NEW i \in Places(MaxCount), NEW valid \in BOOLEAN, NotifyIpAddressValid(i, valid)
        PROVE  CacheInv'
    BY <2>3, NotifyInv
  <2>4. CASE Ages
    <3>1. TypeOK'
      BY <2>4 DEF Ages, CacheInv, TypeOK
    <3>2. NoneLost' /\ GoodFirst'
      BY <2>4 DEF Ages, CacheInv, NoneLost, GoodFirst
    <3> QED BY <3>1, <3>2 DEF CacheInv
  <2>5. CASE UNCHANGED vars
    BY <2>5 DEF vars, CacheInv, TypeOK, NoneLost, GoodFirst
  <2> QED BY <2>1, <2>2, <2>3, <2>4, <2>5 DEF Next
<1> QED BY <1>1, <1>2, PTL DEF Spec

\* While any address of the record is known to be good, a good one is
\* offered by Get.
THEOREM CacheGivesGood == Spec => GetsGood
<1>1. CacheInv /\ Get /\ (\E a \in Addresses : Good(a)) => Good(got')
  <2> SUFFICES ASSUME CacheInv, Get, NEW a \in Addresses, Good(a) PROVE Good(got')
    OBVIOUS
  <2>1. PICK j \in Places(ipCount) : weigh[j] >= 1
    BY DEF Good
  <2>2. TypeOK /\ known /\ got' = Offer
    BY DEF CacheInv, Get
  <2>3. 0 \in Places(ipCount) /\ Turn \in Places(ipCount) /\ weigh[0] \in -1 .. 2
    BY <2>2, TurnFits DEF TypeOK
  <2>4. weigh[0] >= 1
    <3>1. j \in Nat /\ (0 < j \/ j = 0)
      BY <2>1 DEF Places
    <3> QED BY <2>1, <2>3, <3>1 DEF CacheInv, GoodFirst
  <2>5. CASE weigh[0] = 2
    BY <2>2, <2>3, <2>5 DEF Offer, Good
  <2>6. CASE weigh[0] = 1
    <3>1. weigh[Turn] = 1
      BY <2>6 DEF Turn
    <3> QED BY <2>2, <2>3, <2>6, <3>1 DEF Offer, Good
  <2> QED BY <2>3, <2>4, <2>5, <2>6
<1>2. CacheInv /\ [Next]_vars => [Get /\ (\E a \in Addresses : Good(a)) => Good(got')]_vars
  BY <1>1
<1> QED BY <1>2, CacheSafe, PTL DEF Spec, GetsGood
=============================================================================
