-------------------------- MODULE AllocateTheorems --------------------------
(***************************************************************************)
(* Averagely and ByCircle divide a list of queues among a list of          *)
(* consumers, whatever their lengths: no queue goes to two consumers, and  *)
(* with Averagely none to nobody.  The ring of the consistent hash has one *)
(* consumer for a queue.  It follows that a group that uses one of these   *)
(* keeps SameViewDisjoint for every set of queues and clients.             *)
(***************************************************************************)
EXTENDS GroupRebalance, FiniteSetTheorems, TLAPS

(* Division with remainder.                                                *)
LEMMA DivMod ==
    ASSUME NEW n \in Nat, NEW m \in Nat, m > 0
    PROVE  /\ n \div m \in Nat /\ n % m \in 0..m - 1
           /\ n = m * (n \div m) + (n % m)
BY Z3

(* A product grows with its factor.                                        *)
LEMMA ProductGrows ==
    ASSUME NEW a \in Nat, NEW b \in Nat, NEW c \in Nat, a <= b
    PROVE  a * c <= b * c /\ a * c \in Nat /\ b * c \in Nat
BY Z3

(* The ranges AllocateMessageQueueAveragely computes lie in the list.      *)
LEMMA AvgRange ==
    ASSUME NEW n \in Nat, NEW m \in Nat, m > 0, NEW i \in 0..m - 1
    PROVE  /\ AvgStart(n, m, i) \in Nat /\ AvgSize(n, m, i) \in Nat
           /\ AvgStart(n, m, i) + AvgSize(n, m, i) <= n
<1> DEFINE avg == n \div m
           mod == n % m
<1>1. avg \in Nat /\ mod \in 0..m - 1 /\ n = m * avg + mod
  BY DivMod, Zenon
<1> HIDE DEF avg, mod
<1>2. AvgSize(n, m, i) = avg + (IF i < mod THEN 1 ELSE 0)
  BY Zenon DEF AvgSize, avg, mod
<1>3. CASE avg = 0
  <2>1. n = mod
    BY <1>1, <1>3
  <2>2. AvgStart(n, m, i) = IF i < n THEN i ELSE n
    BY <1>3, Zenon DEF AvgStart, avg
  <2> QED BY <1>1, <1>2, <1>3, <2>1, <2>2
<1>4. CASE avg # 0 /\ i < mod
  <2>1. AvgStart(n, m, i) = i * (avg + 1)
    BY <1>4, Zenon DEF AvgStart, avg, mod
  <2>2. (i + 1) * (avg + 1) <= mod * (avg + 1) /\ i * (avg + 1) \in Nat
    BY <1>1, <1>4, ProductGrows
  <2>3. mod * avg <= m * avg
    BY <1>1, ProductGrows
  <2>4. (i + 1) * (avg + 1) = i * (avg + 1) + avg + 1 /\ mod * (avg + 1) = mod * avg + mod
    BY <1>1
  <2> QED BY <1>1, <1>2, <1>4, <2>1, <2>2, <2>3, <2>4
<1>5. CASE avg # 0 /\ ~(i < mod)
  <2>1. AvgStart(n, m, i) = mod * (avg + 1) + (i - mod) * avg
    BY <1>5, Zenon DEF AvgStart, avg, mod
  <2>2. (i - mod + 1) * avg <= (m - mod) * avg /\ (i - mod + 1) * avg \in Nat
    BY <1>1, <1>5, ProductGrows
  <2>3. (i - mod + 1) * avg = (i - mod) * avg + avg
    BY <1>1, <1>5
  <2>4. (m - mod) * avg + mod * (avg + 1) = m * avg + mod
    BY <1>1
  <2>5. (i - mod) * avg \in Nat /\ mod * (avg + 1) \in Nat
    BY <1>1, <1>5, ProductGrows
  <2> QED BY <1>1, <1>2, <1>5, <2>1, <2>2, <2>3, <2>4, <2>5
<1> QED BY <1>3, <1>4, <1>5, Zenon

(* The range of a consumer ends before that of a later consumer begins.    *)
LEMMA AvgOrder ==
    ASSUME NEW n \in Nat, NEW m \in Nat, m > 0,
           NEW i \in 0..m - 1, NEW j \in 0..m - 1, i < j
    PROVE  AvgStart(n, m, i) + AvgSize(n, m, i) <= AvgStart(n, m, j)
<1> DEFINE avg == n \div m
           mod == n % m
<1>1. avg \in Nat /\ mod \in 0..m - 1 /\ n = m * avg + mod
  BY DivMod, Zenon
<1> HIDE DEF avg, mod
<1>2. AvgSize(n, m, i) = avg + (IF i < mod THEN 1 ELSE 0)
  BY Zenon DEF AvgSize, avg, mod
<1>3. CASE avg = 0
  <2>1. n = mod
    BY <1>1, <1>3
  <2>2. /\ AvgStart(n, m, i) = IF i < n THEN i ELSE n
        /\ AvgStart(n, m, j) = IF j < n THEN j ELSE n
    BY <1>3, Zenon DEF AvgStart, avg
  <2> QED BY <1>1, <1>2, <1>3, <2>1, <2>2
<1>4. CASE avg # 0 /\ j < mod
  <2>1. AvgStart(n, m, i) = i * (avg + 1) /\ AvgStart(n, m, j) = j * (avg + 1)
    BY <1>1, <1>4 DEF AvgStart, avg, mod
  <2>2. (i + 1) * (avg + 1) <= j * (avg + 1)
    BY <1>1, ProductGrows
  <2>3. (i + 1) * (avg + 1) = i * (avg + 1) + avg + 1
    BY <1>1
  <2> QED BY <1>1, <1>2, <1>4, <2>1, <2>2, <2>3
<1>5. CASE avg # 0 /\ i < mod /\ ~(j < mod)
  <2>1. /\ AvgStart(n, m, i) = i * (avg + 1)
        /\ AvgStart(n, m, j) = mod * (avg + 1) + (j - mod) * avg
    BY <1>5, Zenon DEF AvgStart, avg, mod
  <2>2. (i + 1) * (avg + 1) <= mod * (avg + 1) /\ mod * (avg + 1) \in Nat
    BY <1>1, <1>5, ProductGrows
  <2>3. (i + 1) * (avg + 1) = i * (avg + 1) + avg + 1
    BY <1>1
  <2>4. (j - mod) * avg \in Nat /\ i * (avg + 1) \in Nat
    BY <1>1, <1>5, ProductGrows
  <2> QED BY <1>1, <1>2, <1>5, <2>1, <2>2, <2>3, <2>4
<1>6. CASE avg # 0 /\ ~(i < mod) /\ ~(j < mod)
  <2>1. /\ AvgStart(n, m, i) = mod * (avg + 1) + (i - mod) * avg
        /\ AvgStart(n, m, j) = mod * (avg + 1) + (j - mod) * avg
    BY <1>6, Zenon DEF AvgStart, avg, mod
  <2>2. (i - mod + 1) * avg <= (j - mod) * avg
    BY <1>1, <1>6, ProductGrows
  <2>3. (i - mod + 1) * avg = (i - mod) * avg + avg
    BY <1>1, <1>6
  <2>4. mod * (avg + 1) \in Nat /\ (i - mod) * avg \in Nat /\ (j - mod) * avg \in Nat
    BY <1>1, <1>6, ProductGrows
  <2> QED BY <1>1, <1>2, <1>6, <2>1, <2>2, <2>3, <2>4
<1> QED BY <1>1, <1>3, <1>4, <1>5, <1>6, Zenon
(* Every position below n lies in the range of some consumer.              *)
LEMMA AvgCovers ==
    ASSUME NEW n \in Nat, NEW m \in Nat, m > 0, NEW k \in 0..n - 1
    PROVE  \E i \in 0..m - 1 :
              k \in AvgStart(n, m, i)..AvgStart(n, m, i) + AvgSize(n, m, i) - 1
<1> DEFINE avg == n \div m
           mod == n % m
<1>1. avg \in Nat /\ mod \in 0..m - 1 /\ n = m * avg + mod
  BY DivMod, Zenon
<1> HIDE DEF avg, mod
<1>2. \A i \in 0..m - 1 : AvgSize(n, m, i) = avg + (IF i < mod THEN 1 ELSE 0)
  BY Zenon DEF AvgSize, avg, mod
<1>3. CASE avg = 0
  <2>1. n = mod
    BY <1>1, <1>3
  <2>2. AvgStart(n, m, k) = k
    BY <1>3 DEF AvgStart, avg
  <2> QED BY <1>1, <1>2, <1>3, <2>1, <2>2
<1>4. CASE avg # 0 /\ k < mod * (avg + 1)
  <2> DEFINE i == k \div (avg + 1)
             r == k % (avg + 1)
  <2>1. i \in Nat /\ r \in 0..avg /\ k = (avg + 1) * i + r
    <3>1. avg + 1 \in Nat /\ avg + 1 > 0 /\ k \in Nat
      BY <1>1
    <3>2. r \in 0..(avg + 1) - 1 /\ i \in Nat /\ k = (avg + 1) * i + r
      BY <3>1, DivMod, Zenon
    <3> QED BY <1>1, <3>2
  <2> HIDE DEF i, r
  <2>2. i < mod
    <3>1. SUFFICES ASSUME mod <= i PROVE FALSE
      BY <1>1, <2>1
    <3>2. mod * (avg + 1) <= i * (avg + 1)
      BY <1>1, <2>1, <3>1, ProductGrows
    <3>3. i * (avg + 1) = (avg + 1) * i /\ mod * (avg + 1) \in Nat /\ (avg + 1) * i \in Nat
      BY <1>1, <2>1
    <3> QED BY <1>1, <1>4, <2>1, <3>2, <3>3
  <2>3. AvgStart(n, m, i) = i * (avg + 1)
    BY <1>4, <2>2, Zenon DEF AvgStart, avg, mod
  <2>4. i \in 0..m - 1 /\ AvgSize(n, m, i) = avg + 1
    BY <1>1, <1>2, <2>1, <2>2
  <2>5. i * (avg + 1) = (avg + 1) * i /\ i * (avg + 1) \in Nat
    BY <1>1, <2>1
  <2>6. k \in AvgStart(n, m, i)..AvgStart(n, m, i) + AvgSize(n, m, i) - 1
    BY <1>1, <2>1, <2>3, <2>4, <2>5
  <2> QED BY <2>4, <2>6, Zenon
<1>5. CASE avg # 0 /\ ~(k < mod * (avg + 1))
  <2> DEFINE x == k - mod * (avg + 1)
             i == mod + (x \div avg)
             r == x % avg
  <2>1. mod * (avg + 1) \in Nat
    BY <1>1
  <2>2. x \in Nat /\ k = mod * (avg + 1) + x
    BY <1>1, <1>5, <2>1
  <2>3. x \div avg \in Nat /\ r \in 0..avg - 1 /\ x = avg * (x \div avg) + r
    <3>1. avg > 0
      BY <1>1, <1>5
    <3> QED BY <1>1, <2>2, <3>1, DivMod, Zenon
  <2> DEFINE q == x \div avg
  <2> HIDE DEF x, r, q
  <2>4. q \in Nat /\ r \in 0..avg - 1 /\ x = avg * q + r /\ i = mod + q
    BY <2>3, Zenon DEF q
  <2> HIDE DEF i
  <2>5. i < m
    <3>1. SUFFICES ASSUME m - mod <= q PROVE FALSE
      BY <1>1, <2>4
    <3>2. (m - mod) * avg <= q * avg
      BY <1>1, <2>4, <3>1, ProductGrows
    <3>3. q * avg = avg * q /\ (m - mod) * avg + mod * (avg + 1) = m * avg + mod
      BY <1>1, <2>4
    <3>4. q * avg \in Nat /\ (m - mod) * avg \in Nat /\ m * avg \in Nat
      BY <1>1, <2>4
    <3> QED BY <1>1, <2>1, <2>2, <2>4, <3>2, <3>3, <3>4
  <2>6. i \in 0..m - 1 /\ ~(i < mod)
    BY <1>1, <2>4, <2>5
  <2>7. AvgStart(n, m, i) = mod * (avg + 1) + (i - mod) * avg
    BY <1>5, <2>6, Zenon DEF AvgStart, avg, mod
  <2>8. (i - mod) * avg = avg * q /\ avg * q \in Nat
    BY <1>1, <2>4
  <2>9. AvgSize(n, m, i) = avg
    BY <1>1, <1>2, <2>6
  <2>10. k \in AvgStart(n, m, i)..AvgStart(n, m, i) + AvgSize(n, m, i) - 1
    BY <1>1, <2>1, <2>2, <2>4, <2>7, <2>8, <2>9
  <2> QED BY <2>6, <2>10, Zenon
<1> QED BY <1>3, <1>4, <1>5, Zenon

-----------------------------------------------------------------------------
(* An ascending list holds nothing twice.                                  *)
LEMMA AscendingDistinct ==
    ASSUME NEW S \in SUBSET Nat, NEW s \in Seq(S), Ascending(s),
           NEW i \in DOMAIN s, NEW j \in DOMAIN s, i # j
    PROVE  s[i] # s[j]
<1>1. i \in Nat /\ j \in Nat /\ s[i] \in S /\ s[j] \in S
  OBVIOUS
<1>2. s[i] \in Nat /\ s[j] \in Nat
  BY <1>1, Zenon
<1>3. s[i] < s[j] \/ s[j] < s[i]
  BY <1>1 DEF Ascending
<1> QED BY <1>2, <1>3

(* The place check_config finds is one that holds the consumer.            *)
LEMMA CheckConfigPlace ==
    ASSUME NEW c, NEW mqs, NEW cids \in Seq(Client), Ascending(cids),
           CheckConfig(c, mqs, cids) # Missing
    PROVE  /\ CheckConfig(c, mqs, cids) \in 0..Len(cids) - 1
           /\ cids[CheckConfig(c, mqs, cids) + 1] = c
           /\ Len(cids) \in Nat /\ Len(cids) > 0
<1>1. PICK i \in DOMAIN cids : cids[i] = c
  BY Zenon DEF CheckConfig
<1>2. DOMAIN cids = 1..Len(cids) /\ Len(cids) \in Nat
  OBVIOUS
<1>3. \A j \in 1..i - 1 : cids[j] # c
  <2> TAKE j \in 1..i - 1
  <2>1. j \in DOMAIN cids /\ j # i
    BY <1>2
  <2>2. Client \in SUBSET Nat
    BY GroupAssumption, Zenon
  <2> QED BY <1>1, <2>1, <2>2, AscendingDistinct, Zenon
<1> DEFINE place(x) == x \in DOMAIN cids /\ cids[x] = c /\ \A j \in 1..x - 1 : cids[j] # c
<1>4. place(CHOOSE x : place(x))
  BY <1>1, <1>3, Zenon
<1>5. CheckConfig(c, mqs, cids) = (CHOOSE x : place(x)) - 1
  BY Zenon DEF CheckConfig
<1> QED BY <1>2, <1>4, <1>5

(* No queue is in the share of two consumers.                              *)
LEMMA AveragelyDisjoint ==
    ASSUME NEW c, NEW d, c # d,
           NEW mqs \in Seq(Queue), Ascending(mqs),
           NEW cids \in Seq(Client), Ascending(cids)
    PROVE  Averagely(c, mqs, cids) \cap Averagely(d, mqs, cids) = {}
<1> DEFINE i == CheckConfig(c, mqs, cids)
           j == CheckConfig(d, mqs, cids)
           n == Len(mqs)
           m == Len(cids)
           endOf(x) == AvgStart(n, m, x) + AvgSize(n, m, x)
<1>1. CASE i = Missing \/ j = Missing
  BY <1>1, Zenon DEF Averagely
<1>2. CASE i # Missing /\ j # Missing
  <2>1. /\ i \in 0..m - 1 /\ j \in 0..m - 1 /\ cids[i + 1] = c /\ cids[j + 1] = d
        /\ m \in Nat /\ m > 0 /\ n \in Nat
    BY <1>2, CheckConfigPlace
  <2>2. /\ Averagely(c, mqs, cids) = Slice(mqs, AvgStart(n, m, i), endOf(i))
        /\ Averagely(d, mqs, cids) = Slice(mqs, AvgStart(n, m, j), endOf(j))
    BY <1>2, Zenon DEF Averagely
  <2>3. i # j
    BY <2>1, Zenon
  <2> HIDE DEF i, j, n, m
  <2>4. /\ AvgStart(n, m, i) \in Nat /\ endOf(i) \in Nat /\ endOf(i) <= n
        /\ AvgStart(n, m, j) \in Nat /\ endOf(j) \in Nat /\ endOf(j) <= n
    <3>1. \A x \in 0..m - 1 : AvgStart(n, m, x) \in Nat /\ AvgSize(n, m, x) \in Nat /\ endOf(x) <= n
      BY <2>1, AvgRange, Zenon
    <3>2. \A s, z \in Nat : s + z \in Nat
      OBVIOUS
    <3>3. \A x \in 0..m - 1 : endOf(x) \in Nat
      BY <3>1, <3>2, Zenon
    <3> HIDE DEF endOf
    <3> QED BY <2>1, <3>1, <3>3, Zenon
  <2>5. endOf(i) <= AvgStart(n, m, j) \/ endOf(j) <= AvgStart(n, m, i)
    BY <2>1, <2>3, AvgOrder
  <2> DEFINE si == AvgStart(n, m, i)
             ei == endOf(i)
             sj == AvgStart(n, m, j)
             ej == endOf(j)
  <2> HIDE DEF si, ei, sj, ej
  <2>6. \A k \in si..ei - 1, l \in sj..ej - 1 : mqs[k + 1] # mqs[l + 1]
    <3> TAKE k \in si..ei - 1, l \in sj..ej - 1
    <3>1. k \in Nat /\ l \in Nat /\ k # l /\ k < n /\ l < n
      BY <2>1, <2>4, <2>5, SMTT(30) DEF si, ei, sj, ej
    <3>2. k + 1 \in DOMAIN mqs /\ l + 1 \in DOMAIN mqs
      BY <3>1, <2>1 DEF n
    <3>3. Queue \in SUBSET Nat /\ k + 1 # l + 1
      BY <3>1, <2>1, GroupAssumption
    <3> QED BY <3>2, <3>3, AscendingDistinct, Zenon
  <2> QED BY <2>2, <2>6, Zenon DEF Slice, si, ei, sj, ej
<1> QED BY <1>1, <1>2, Zenon

(* A queue of the list is in the share of some consumer of the group, for  *)
(* lists of any length (AllocateMessageQueueAveragely).                    *)
THEOREM AveragelyCovers ==
    ASSUME NEW mqs \in Seq(Queue), NEW cids \in Seq(Client), Ascending(cids),
           cids # <<>>, NEW p \in DOMAIN mqs
    PROVE  \E i \in DOMAIN cids : mqs[p] \in Averagely(cids[i], mqs, cids)
<1> DEFINE n == Len(mqs)
           m == Len(cids)
<1>1. n \in Nat /\ m \in Nat /\ m > 0 /\ p - 1 \in 0..n - 1 /\ mqs # <<>>
  OBVIOUS
<1>2. PICK i \in 0..m - 1 : p - 1 \in AvgStart(n, m, i)..AvgStart(n, m, i) + AvgSize(n, m, i) - 1
  BY <1>1, AvgCovers, Zenon
<1>3. i + 1 \in DOMAIN cids
  BY <1>1
<1>4. CheckConfig(cids[i + 1], mqs, cids) = i
  <2> DEFINE c == cids[i + 1]
             x == CheckConfig(c, mqs, cids)
  <2>1. x # Missing
    <3>1. \A y \in DOMAIN cids : cids[y] = c => y - 1 # Missing
      BY DEF Missing
    <3>2. \A j \in 1..i : cids[j] # c
      <4> TAKE j \in 1..i
      <4>1. j \in DOMAIN cids /\ j # i + 1 /\ Client \in SUBSET Nat
        BY <1>1, GroupAssumption
      <4> QED BY <1>3, <4>1, AscendingDistinct, Zenon
    <3> DEFINE place(y) == y \in DOMAIN cids /\ cids[y] = c /\ \A j \in 1..y - 1 : cids[j] # c
    <3>3. place(i + 1)
      BY <1>1, <1>3, <3>2
    <3>4. place(CHOOSE y : place(y))
      BY <3>3, Zenon
    <3>5. x = (CHOOSE y : place(y)) - 1
      BY <1>1, <1>3, Zenon DEF CheckConfig
    <3> QED BY <3>1, <3>4, <3>5, Zenon
  <2>2. x \in 0..m - 1 /\ cids[x + 1] = cids[i + 1]
    BY <2>1, CheckConfigPlace, Zenon
  <2>3. x + 1 \in DOMAIN cids /\ Client \in SUBSET Nat
    BY <1>1, <2>2, GroupAssumption
  <2>4. x + 1 = i + 1
    BY <1>3, <2>2, <2>3, AscendingDistinct, Zenon
  <2> QED BY <1>1, <2>2, <2>4, SMTT(30)
<1>5. i # Missing
  BY DEF Missing
<1>6. Averagely(cids[i + 1], mqs, cids)
        = Slice(mqs, AvgStart(n, m, i), AvgStart(n, m, i) + AvgSize(n, m, i))
  BY <1>4, <1>5, Zenon DEF Averagely
<1>7. mqs[(p - 1) + 1] \in Averagely(cids[i + 1], mqs, cids)
  <2>1. \A a, e : \A k \in a..e - 1 : mqs[k + 1] \in Slice(mqs, a, e)
    BY Zenon DEF Slice
  <2> DEFINE k == p - 1
             a == AvgStart(n, m, i)
             e == a + AvgSize(n, m, i)
  <2>2. k \in a..e - 1
    <3>1. a \in Nat /\ AvgSize(n, m, i) \in Nat
      BY <1>1, AvgRange, Zenon
    <3> QED BY <1>1, <1>2, <3>1
  <2>3. Averagely(cids[i + 1], mqs, cids) = Slice(mqs, a, e)
    BY <1>6, Zenon
  <2> HIDE DEF k, a, e
  <2>4. mqs[k + 1] \in Averagely(cids[i + 1], mqs, cids)
    BY <2>1, <2>2, <2>3, Zenon
  <2> QED BY <2>4, Zenon DEF k
<1>8. (p - 1) + 1 = p
  BY <1>1
<1> QED BY <1>3, <1>7, <1>8, Zenon

(* The same for the strategy that deals the queues out in turn.            *)
LEMMA ByCircleDisjoint ==
    ASSUME NEW c, NEW d, c # d,
           NEW mqs \in Seq(Queue), Ascending(mqs),
           NEW cids \in Seq(Client), Ascending(cids)
    PROVE  ByCircle(c, mqs, cids) \cap ByCircle(d, mqs, cids) = {}
<1> DEFINE i == CheckConfig(c, mqs, cids)
           j == CheckConfig(d, mqs, cids)
           n == Len(mqs)
           m == Len(cids)
<1>1. CASE i = Missing \/ j = Missing
  BY <1>1, Zenon DEF ByCircle
<1>2. CASE i # Missing /\ j # Missing
  <2>1. /\ i \in 0..m - 1 /\ j \in 0..m - 1 /\ cids[i + 1] = c /\ cids[j + 1] = d
        /\ m \in Nat /\ m > 0 /\ n \in Nat
    BY <1>2, CheckConfigPlace
  <2>2. i # j
    BY <2>1, Zenon
  <2>3. \A k, l \in 0..n - 1 : (k % m = i /\ l % m = j) => mqs[k + 1] # mqs[l + 1]
    <3> TAKE k, l \in 0..n - 1
    <3> HAVE k % m = i /\ l % m = j
    <3>1. k # l
      BY <2>2, Zenon
    <3>2. k + 1 \in DOMAIN mqs /\ l + 1 \in DOMAIN mqs
      BY <2>1, SMTT(30)
    <3>3. Queue \in SUBSET Nat /\ k + 1 # l + 1
      BY <3>1, <2>1, GroupAssumption
    <3> QED BY <3>2, <3>3, AscendingDistinct, Zenon
  <2> QED BY <1>2, <2>3, Zenon DEF ByCircle
<1> QED BY <1>1, <1>2, Zenon

(* The ring names one consumer for a queue: its points are numbers.        *)
LEMMA ConsistentHashDisjoint ==
    ASSUME NEW c, NEW d, c # d,
           NEW mqs \in Seq(Queue), Ascending(mqs),
           NEW cids \in Seq(Client), Ascending(cids)
    PROVE  ConsistentHash(c, mqs, cids) \cap ConsistentHash(d, mqs, cids) = {}
<1> DEFINE ring == Ring(cids)
<1>1. DOMAIN ring \subseteq Nat
  <2>1. \A i \in DOMAIN cids : cids[i] \in Client
    OBVIOUS
  <2>2. \A i \in DOMAIN cids : \A j \in DOMAIN Virtual[cids[i]] : Virtual[cids[i]][j] \in Nat
    <3> TAKE i \in DOMAIN cids
    <3>1. Virtual[cids[i]] \in Seq(Nat)
      BY <2>1, GroupAssumption, Zenon
    <3> QED BY <3>1
  <2>3. DOMAIN ring = UNION {{Virtual[cids[i]][j] : j \in DOMAIN Virtual[cids[i]]} : i \in DOMAIN cids}
    BY Zenon DEF Ring
  <2> QED BY <2>2, <2>3
<1> HIDE DEF ring
<1>2. \A q : c \in RouteNode(ring, q) => d \notin RouteNode(ring, q)
  <2> SUFFICES ASSUME NEW q, c \in RouteNode(ring, q), d \in RouteNode(ring, q)
               PROVE  FALSE
    BY Zenon
  <2> DEFINE up == {h \in DOMAIN ring : h >= HashOf[q]}
             S  == IF up # {} THEN up ELSE DOMAIN ring
  <2>1. S \subseteq Nat
    BY <1>1, Zenon
  <2>2. RouteNode(ring, q) = {ring[h] : h \in {g \in S : \A f \in S : g <= f}}
    BY Zenon DEF RouteNode
  <2> HIDE DEF S
  <2>3. PICK g \in S : c = ring[g] /\ \A f \in S : g <= f
    BY <2>2, Zenon
  <2>4. PICK h \in S : d = ring[h] /\ \A f \in S : h <= f
    BY <2>2, Zenon
  <2>5. g = h
    BY <2>1, <2>3, <2>4
  <2> QED BY <2>3, <2>4, <2>5, Zenon
<1> QED BY <1>2, Zenon DEF ConsistentHash, ring

-----------------------------------------------------------------------------
(* A sorted list of a set of names is a list of names.                     *)
LEMMA SortingIsList ==
    ASSUME NEW T, IsFiniteSet(T), NEW S \in SUBSET T, NEW s \in Sorting(S)
    PROVE  s \in Seq(T) /\ Ascending(s)
<1>1. Cardinality(S) \in Nat
  BY FS_Subset, FS_CardinalityType, Zenon
<1>2. s \in [1..Cardinality(S) -> S] /\ Ascending(s)
  BY Zenon DEF Sorting
<1>3. s \in Seq(S)
  BY <1>1, <1>2
<1> QED BY <1>2, <1>3

(* What a client owns is what the strategy gave it on the lists it last    *)
(* divided, and those lists are sorted.                                    *)
Inv ==
    /\ strategy \in Strategies
    /\ route \subseteq Queue /\ members \subseteq Client
    /\ round \in [Client -> [pc : {"idle", "route", "cids"}, mqs : Seq(Queue), cids : Seq(Client)]]
    /\ basis \in [Client -> [mqs : Seq(Queue), cids : Seq(Client)]]
    /\ DOMAIN assigned = Client
    /\ \A c \in Client : /\ Ascending(round[c].mqs) /\ Ascending(round[c].cids)
                         /\ Ascending(basis[c].mqs) /\ Ascending(basis[c].cids)
                         /\ basis[c].mqs # <<>> =>
                              assigned[c] = AllocateBy(strategy, c, basis[c].mqs, basis[c].cids)

(* The initial states satisfy the invariant.                               *)
LEMMA InitInv == Init => Inv
<1> HAVE Init
<1>1. Ascending(<<>>) /\ <<>> \in Seq(Queue) /\ <<>> \in Seq(Client)
  BY DEF Ascending
<1> QED BY <1>1, Zenon DEF Init, Inv, Idle, NoBasis

(* Every step keeps the invariant.                                         *)
LEMMA NextInv == Inv /\ [Next]_vars => Inv'
<1> SUFFICES ASSUME Inv, [Next]_vars PROVE Inv'
  BY Zenon
<1>0. Ascending(<<>>) /\ <<>> \in Seq(Queue) /\ <<>> \in Seq(Client)
  BY DEF Ascending
<1>1. ASSUME NEW c \in Client, Join(c) PROVE Inv'
  BY <1>1, Zenon DEF Inv, Join
<1>2. ASSUME NEW c \in Client, Leave(c) PROVE Inv'
  BY <1>0, <1>2, Zenon DEF Inv, Leave, Idle, NoBasis
<1>3. ASSUME NEW c \in Client, ReadRoute(c) PROVE Inv'
  <2>1. PICK s \in Sorting(route) :
          IF s = <<>>
          THEN Assign(c, {}, NoBasis) /\ UNCHANGED round
          ELSE /\ round' = [round EXCEPT ![c] = [pc |-> "route", mqs |-> s, cids |-> <<>>]]
               /\ UNCHANGED <<assigned, basis>>
    BY <1>3, Zenon DEF ReadRoute
  <2>2. s \in Seq(Queue) /\ Ascending(s)
    BY SortingIsList, GroupAssumption, Zenon DEF Inv
  <2>3. UNCHANGED <<strategy, route, members>>
    BY <1>3, Zenon DEF ReadRoute
  <2>4. CASE s = <<>>
    <3>1. /\ assigned' = [assigned EXCEPT ![c] = {}]
          /\ basis' = [basis EXCEPT ![c] = NoBasis] /\ round' = round
      BY <2>1, <2>4, Zenon DEF Assign
    <3> QED BY <1>0, <2>3, <3>1, Zenon DEF Inv, NoBasis
  <2>5. CASE s # <<>>
    <3> DEFINE r == [pc |-> "route", mqs |-> s, cids |-> <<>>]
    <3>1. round' = [round EXCEPT ![c] = r] /\ assigned' = assigned /\ basis' = basis
      BY <2>1, <2>5, Zenon
    <3>2. /\ r \in [pc : {"idle", "route", "cids"}, mqs : Seq(Queue), cids : Seq(Client)]
          /\ Ascending(r.mqs) /\ Ascending(r.cids)
      BY <1>0, <2>2, Zenon
    <3> HIDE DEF r
    <3> QED BY <2>3, <3>1, <3>2, Zenon DEF Inv
  <2> QED BY <2>4, <2>5, Zenon
<1>4. ASSUME NEW c \in Client, ReadMembers(c) PROVE Inv'
  <2>1. PICK s \in Sorting(members) :
          round' = [round EXCEPT ![c] = [pc |-> "cids", mqs |-> round[c].mqs, cids |-> s]]
    BY <1>4, Zenon DEF ReadMembers
  <2>2. s \in Seq(Client) /\ Ascending(s)
    BY SortingIsList, GroupAssumption, Zenon DEF Inv
  <2>3. UNCHANGED <<strategy, route, members, assigned, basis>>
    BY <1>4, Zenon DEF ReadMembers
  <2> DEFINE r == [pc |-> "cids", mqs |-> round[c].mqs, cids |-> s]
  <2>4. round[c] \in [pc : {"idle", "route", "cids"}, mqs : Seq(Queue), cids : Seq(Client)]
    BY Zenon DEF Inv
  <2>5. round' = [round EXCEPT ![c] = r]
    BY <2>1, Zenon
  <2>6. /\ r \in [pc : {"idle", "route", "cids"}, mqs : Seq(Queue), cids : Seq(Client)]
        /\ Ascending(r.mqs) /\ Ascending(r.cids)
    BY <2>2, <2>4, Zenon DEF Inv
  <2> HIDE DEF r
  <2> QED BY <2>3, <2>5, <2>6, Zenon DEF Inv
<1>5. ASSUME NEW c \in Client, NoAnswer(c) PROVE Inv'
  BY <1>0, <1>5, Zenon DEF Inv, NoAnswer, Idle
<1>6. ASSUME NEW c \in Client, Apply(c) PROVE Inv'
  <2>1. /\ UNCHANGED <<strategy, route, members>>
        /\ round' = [round EXCEPT ![c] = Idle]
    BY <1>6, Zenon DEF Apply
  <2>2. CASE UNCHANGED <<assigned, basis>>
    BY <1>0, <2>1, <2>2, Zenon DEF Inv, Idle
  <2>3. CASE Assign(c, AllocateBy(strategy, c, round[c].mqs, round[c].cids),
                    [mqs |-> round[c].mqs, cids |-> round[c].cids])
    BY <1>0, <2>1, <2>3, Zenon DEF Inv, Idle, Assign
  <2> QED BY <1>6, <2>2, <2>3, Zenon DEF Apply
<1>7. ASSUME NEW S \in SUBSET Queue, RouteChanges(S) PROVE Inv'
  BY <1>7, Zenon DEF Inv, RouteChanges
<1>8. CASE UNCHANGED vars
  BY <1>8, Zenon DEF Inv, vars
<1> QED BY <1>1, <1>2, <1>3, <1>4, <1>5, <1>6, <1>7, <1>8, Zenon DEF Next, RoundStep

(* Two clients that divided the same lists do not share a queue: for every *)
(* set of queues and clients, every churn and every loss, in a group that  *)
(* divides averagely, by circle or by consistent hash (do_rebalance with   *)
(* allocate_strategy.rs).                                                  *)
THEOREM DisjointShares ==
    ASSUME Strategies \subseteq {"AVG", "AVG_BY_CIRCLE", "CONSISTENT_HASH"}
    PROVE  Spec => []SameViewDisjoint
<1>1. Inv => SameViewDisjoint
  <2> SUFFICES ASSUME Inv, NEW c \in Client, NEW d \in Client,
                      c # d, basis[c] = basis[d], basis[c].mqs # <<>>
               PROVE  assigned[c] \cap assigned[d] = {}
    BY Zenon DEF SameViewDisjoint
  <2> DEFINE mqs == basis[c].mqs
             cids == basis[c].cids
  <2>1. /\ mqs \in Seq(Queue) /\ cids \in Seq(Client)
        /\ Ascending(mqs) /\ Ascending(cids)
        /\ assigned[c] = AllocateBy(strategy, c, mqs, cids)
        /\ assigned[d] = AllocateBy(strategy, d, mqs, cids)
    BY Zenon DEF Inv
  <2> HIDE DEF mqs, cids
  <2>2. strategy \in {"AVG", "AVG_BY_CIRCLE", "CONSISTENT_HASH"}
    BY Zenon DEF Inv
  <2>3. CASE strategy = "AVG"
    BY <2>1, <2>3, AveragelyDisjoint, Zenon DEF AllocateBy
  <2>4. CASE strategy = "AVG_BY_CIRCLE"
    BY <2>1, <2>4, ByCircleDisjoint, Zenon DEF AllocateBy
  <2>5. CASE strategy = "CONSISTENT_HASH"
    BY <2>1, <2>5, ConsistentHashDisjoint, Zenon DEF AllocateBy
  <2> QED BY <2>2, <2>3, <2>4, <2>5, Zenon
<1> QED BY <1>1, InitInv, NextInv, PTL DEF Spec

=============================================================================
