------------------------------ MODULE DnsCache ------------------------------
(***************************************************************************)
(* DnsParseCache (module/jindnsparser.cpp): the record of one name.  Names *)
(* do not influence each other but through the chain of a hash slot.  A    *)
(* record lists addresses with weights (2 first of the list and not tried, *)
(* 1 good, 0 not tried, -1 bad) and a place from which Get goes on.        *)
(* vote keeps the good ones in front; Get offers one at a time.            *)
(*                                                                         *)
(* Time is the age of the record: too new to be replaced (five seconds),   *)
(* or not; after an hour washTimeExpire drops it before any other use.     *)
(***************************************************************************)
EXTENDS Integers, FiniteSets

CONSTANTS
  Addresses,   \* addresses the name may resolve to
  MaxCount,    \* kMaxDnsCacheIpCount
  NULL

ASSUME CacheAssumption == MaxCount \in Nat \ {0} /\ NULL \notin Addresses

Counts == 1 .. MaxCount
Places(n) == 0 .. n - 1

\* What the resolver hands over: one or more addresses, no two the same.
Answers ==
  UNION {{f \in [Places(n) -> Addresses] : \A i, j \in Places(n) : f[i] = f[j] => i = j} : n \in Counts}

VARIABLES
  known,     \* whether the cache has a record of the name
  ipCount,   \* its fields
  ipList,
  weigh,
  idx,       \* weigh[kMaxDnsCacheIpCount], idxOfOrderTry
  fresh,     \* whether five seconds have not passed since startTime
  got        \* the address that the last Get offered

vars == <<known, ipCount, ipList, weigh, idx, fresh, got>>

Init ==
  /\ known = FALSE /\ fresh = FALSE /\ got = NULL
  /\ ipCount = 0 /\ idx = 0
  /\ ipList = [i \in Places(0) |-> NULL] /\ weigh = [i \in Places(0) |-> 0]

\* Get: the first address while it is worth 2; else in turn, among the good
\* ones if the first is good.  The turn starts over where it has left them.
Turn == IF weigh[0] = 1 /\ weigh[idx] # 1 THEN 0 ELSE idx

Offer ==
  IF weigh[0] = 2 \/ (weigh[0] <= 0 /\ weigh[idx] > 0) THEN ipList[0] ELSE ipList[Turn]

After_Stuck(turn) == IF turn + 1 >= ipCount THEN turn ELSE turn + 1

After(turn) == IF turn + 1 >= ipCount THEN 0 ELSE turn + 1

Get ==
  /\ known
  /\ got' = Offer
  /\ idx' = After(Turn)
  /\ UNCHANGED <<known, ipCount, ipList, weigh, fresh>>

\* Set: a new record, or a refresh of one that is more than five seconds
\* old, starts over with the addresses in the order of the answer.
Set(answer, n) ==
  /\ ~(known /\ fresh)
  /\ answer \in [Places(n) -> Addresses]
  /\ known' = TRUE /\ fresh' = TRUE
  /\ ipCount' = n /\ ipList' = answer
  /\ weigh' = [i \in Places(n) |-> IF i = 0 THEN 2 ELSE 0]
  /\ idx' = 0
  /\ UNCHANGED got

\* NotifyIpAddressValid moves the element at from to the place to, with a
\* value of its own, and the ones in between by one.
Moved(f, from, to, value) ==
  [k \in DOMAIN f |->
     IF k = to THEN value
     ELSE IF from <= k /\ k < to THEN f[k + 1]
     ELSE IF to < k /\ k <= from THEN f[k - 1]
     ELSE f[k]]

\* countOfStartW1 when the loop has reached place i.
StartsWith(c, i) == (\A k \in Places(c) : weigh[k] >= 1) /\ (c <= i => weigh[c] < 1)

CountOfStartW1(i) == CHOOSE c \in 0 .. i + 1 : StartsWith(c, i)

OldWeigh(i) == IF weigh[i] = 2 THEN 0 ELSE weigh[i]

\* A good one goes behind the other good ones.
Upgrade(i, to) ==
  /\ ipList' = Moved(ipList, i, to, ipList[i])
  /\ weigh' = Moved(weigh, i, to, 1)
  /\ idx' = IF weigh'[idx] # 1 THEN 0 ELSE idx

\* A bad one goes to the end; the turn stays with the address it was at.
Downgrade_InPlace(i) ==
  /\ weigh' = [weigh EXCEPT ![i] = -1]
  /\ UNCHANGED <<ipList, idx>>

Downgrade(i) ==
  /\ ipList' = Moved(ipList, i, ipCount - 1, ipList[i])
  /\ weigh' = Moved(weigh, i, ipCount - 1, -1)
  /\ idx' = IF i < idx THEN idx - 1 ELSE idx

Reweigh(i, valid) ==
  /\ weigh' = [weigh EXCEPT ![i] = IF valid THEN 1 ELSE -1]
  /\ UNCHANGED <<ipList, idx>>

Upgrades(i, valid) == valid /\ OldWeigh(i) < 1 /\ i > CountOfStartW1(i)

Downgrades(i, valid) == ~valid /\ OldWeigh(i) > -1 /\ i + 1 < ipCount

NotifyIpAddressValid(i, valid) ==
  /\ known /\ i \in Places(ipCount)
  /\ \/ Upgrades(i, valid) /\ Upgrade(i, CountOfStartW1(i))
     \/ Downgrades(i, valid) /\ Downgrade(i)
     \/ ~Upgrades(i, valid) /\ ~Downgrades(i, valid) /\ Reweigh(i, valid)
  /\ UNCHANGED <<known, ipCount, fresh, got>>

\* Time passes: five seconds, an hour.
Ages ==
  /\ known /\ fresh' = FALSE
  /\ fresh \/ (~fresh /\ known' = FALSE)
  /\ fresh => UNCHANGED known
  /\ UNCHANGED <<ipCount, ipList, weigh, idx, got>>

Next ==
  \/ Get
  \/ \E n \in Counts : \E answer \in Answers : Set(answer, n)
  \/ \E i \in Places(MaxCount), valid \in BOOLEAN : NotifyIpAddressValid(i, valid)
  \/ Ages

Spec == Init /\ [][Next]_vars

\* The name keeps being asked for.
FairSpec == Spec /\ WF_vars(Get)

-----------------------------------------------------------------------------
TypeOK ==
  /\ known \in BOOLEAN /\ fresh \in BOOLEAN /\ got \in Addresses \cup {NULL}
  /\ ipCount \in 0 .. MaxCount
  /\ ipList \in [Places(ipCount) -> Addresses]
  /\ weigh \in [Places(ipCount) -> -1 .. 2]
  /\ idx \in Nat
  /\ known => ipCount > 0 /\ idx < ipCount

\* However votes, refreshes and offers mix: no address is lost or doubled
\* by the moves.
NoneLost == \A i, j \in Places(ipCount) : ipList[i] = ipList[j] => i = j

\* The good addresses are a prefix of the list, with at most its head worth 2.
GoodFirst ==
  \A i, j \in Places(ipCount) :
    /\ weigh[j] >= 1 /\ i < j => weigh[i] >= 1
    /\ weigh[j] = 2 => j = 0

CacheInv == TypeOK /\ NoneLost /\ GoodFirst

\* While any address is known to be good, Get offers a good one, wherever the
\* turn was left and whatever has been moved under it.
Good(a) == \E i \in Places(ipCount) : ipList[i] = a /\ weigh[i] >= 1

GetsGood == [][Get /\ (\E a \in Addresses : Good(a)) => Good(got')]_vars

\* The comment above the cache: without a 2 in front the addresses take
\* turns, and with a good one in front only the good ones.  Once votes and
\* refreshes pause, each of those is offered again and again.
Eligible(a) ==
  known /\ \E i \in Places(ipCount) : ipList[i] = a /\
    (weigh[0] <= 0 \/ (weigh[0] = 1 /\ weigh[i] = 1))

TakeTurns ==
  \A a \in Addresses :
    <>[](Eligible(a)) /\ <>[][UNCHANGED <<ipList, weigh>>]_vars => []<>(got = a)
=============================================================================
