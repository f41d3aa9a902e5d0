--------------------------- MODULE EvmClientProofs ---------------------------
(***************************************************************************)
(* Proofs about the calls to the nodes of a chain: the weighted choice of  *)
(* a node and the failover (NodeManager), and what a request for blocks    *)
(* brings (EvmClient), for any number of nodes, callers and health checks. *)
(***************************************************************************)
EXTENDS EvmClient, FiniteSetTheorems, WellFoundedInduction, TLAPS

-----------------------------------------------------------------------------
(* The least of a set of numbers; arguments by induction take the least    *)
(* counterexample.                                                         *)

Below == { p \in Nat \X Nat : p[1] < p[2] }

LEMMA BelowIsWellFounded == IsWellFoundedOn(Below, Nat)
<1>1. OpToRel(<, Nat) = Below
  BY DEF OpToRel, Below
<1> QED
  BY <1>1, NatLessThanWellFounded

LEMMA HasLeast ==
    ASSUME NEW S \in SUBSET Nat, S # {}
    PROVE  \E i \in S : \A j \in S : i <= j
<1>1. PICK i \in S : \A j \in S : ~ (<<j, i>> \in Below)
  BY BelowIsWellFounded, WFMin
<1>2. ASSUME NEW j \in S PROVE i <= j
  <2>1. i \in Nat /\ j \in Nat
    OBVIOUS
  <2>2. ~ (j < i)
    BY <1>1, <2>1 DEF Below
  <2> QED
    BY <2>1, <2>2
<1> QED
  BY <1>2

-----------------------------------------------------------------------------
(* The running sums of the weights.                                        *)

IsSumOf(f, n, v) ==
    /\ f \in [0 .. n -> Nat]
    /\ f[0] = 0
    /\ \A i \in 1 .. n : f[i] = f[i - 1] + v[i]

LEMMA SumExists ==
    ASSUME NEW n \in Nat, NEW v \in [1 .. n -> Nat]
    PROVE  \E f : IsSumOf(f, n, v)
<1> DEFINE Bad == { k \in 0 .. n : ~ \E f : IsSumOf(f, k, v) }
<1>1. ASSUME Bad # {} PROVE FALSE
  <2>1. PICK m \in Bad : \A k \in Bad : m <= k
    <3>1. Bad \in SUBSET Nat
      OBVIOUS
    <3> HIDE DEF Bad
    <3> QED
      BY <1>1, <3>1, HasLeast
  <2>2. m # 0
    <3>1. IsSumOf([i \in 0 .. 0 |-> 0], 0, v)
      BY DEF IsSumOf
    <3> QED
      BY <3>1
  <2>3. m \in 1 .. n /\ m - 1 \in 0 .. n /\ ~ (m <= m - 1)
    BY <2>2
  <2>4. PICK f : IsSumOf(f, m - 1, v)
    BY <2>1, <2>3
  <2> DEFINE g == [i \in 0 .. m |-> IF i = m THEN f[m - 1] + v[m] ELSE f[i]]
  <2>5. g \in [0 .. m -> Nat]
    <3> SUFFICES ASSUME NEW i \in 0 .. m
                 PROVE  (IF i = m THEN f[m - 1] + v[m] ELSE f[i]) \in Nat
      OBVIOUS
    <3>1. m - 1 \in 0 .. m - 1 /\ (i # m => i \in 0 .. m - 1)
      BY <2>3
    <3> QED
      BY <2>3, <2>4, <3>1 DEF IsSumOf
  <2>6. g[0] = 0 /\ \A i \in 1 .. m : g[i] = g[i - 1] + v[i]
    <3>1. g[0] = 0 /\ g[m - 1] = f[m - 1] /\ g[m] = f[m - 1] + v[m]
      BY <2>3, <2>4 DEF IsSumOf
    <3>2. ASSUME NEW i \in 1 .. m, i # m
          PROVE  g[i] = g[i - 1] + v[i]
      <4>1. i \in 1 .. m - 1 /\ i \in 0 .. m /\ i - 1 \in 0 .. m /\ i - 1 # m
        BY <2>3, <3>2
      <4>2. g[i] = f[i] /\ g[i - 1] = f[i - 1]
        BY <3>2, <4>1
      <4> QED
        BY <2>4, <4>1, <4>2 DEF IsSumOf
    <3> HIDE DEF g
    <3> QED
      BY <3>1, <3>2
  <2>7. IsSumOf(g, m, v)
    BY <2>5, <2>6 DEF IsSumOf
  <2> QED
    BY <2>7
<1>2. n \in 0 .. n
  OBVIOUS
<1> QED
  BY <1>1, <1>2

WeightsOK == weight \in Weights /\ \A n \in Nodes : weight[n] \in Nat

(* Sums is what its definition says.                                       *)
LEMMA SumsOf ==
    ASSUME WeightsOK, NEW ns \in Seq(Nodes)
    PROVE  /\ Sums(ns) \in [0 .. Len(ns) -> Nat]
           /\ Sums(ns)[0] = 0
           /\ \A i \in 1 .. Len(ns) :
                 Sums(ns)[i] = Sums(ns)[i - 1] + weight[ns[i]]
<1> DEFINE n == Len(ns)
           v == [i \in 1 .. n |-> weight[ns[i]]]
<1>1. n \in Nat /\ v \in [1 .. n -> Nat]
  BY DEF WeightsOK
<1>2. PICK f : IsSumOf(f, n, v)
  <2> HIDE DEF n, v
  <2> QED
    BY <1>1, SumExists
<1>3. f = [i \in 0 .. n |-> IF i = 0 THEN 0 ELSE f[i - 1] + weight[ns[i]]]
  <2>1. \A i \in 0 .. n : f[i] = IF i = 0 THEN 0 ELSE f[i - 1] + weight[ns[i]]
    <3> SUFFICES ASSUME NEW i \in 0 .. n, i # 0
                 PROVE  f[i] = f[i - 1] + weight[ns[i]]
      BY <1>2 DEF IsSumOf
    <3>1. i \in 1 .. n
      BY <1>1
    <3> QED
      BY <1>2, <3>1 DEF IsSumOf
  <2>2. f \in [0 .. n -> Nat]
    BY <1>2 DEF IsSumOf
  <2> QED
    BY <2>1, <2>2
<1>4. Sums(ns) = [i \in 0 .. n |-> IF i = 0 THEN 0
                                   ELSE Sums(ns)[i - 1] + weight[ns[i]]]
  BY <1>3, Zenon DEF Sums
<1>5. /\ Sums(ns)[0] = 0
      /\ \A i \in 1 .. n : Sums(ns)[i] = Sums(ns)[i - 1] + weight[ns[i]]
      /\ DOMAIN Sums(ns) = 0 .. n
  <2> DEFINE s == Sums(ns)
  <2>1. s = [i \in 0 .. n |-> IF i = 0 THEN 0 ELSE s[i - 1] + weight[ns[i]]]
    BY <1>4
  <2> HIDE DEF s
  <2>2. /\ s[0] = 0
        /\ \A i \in 1 .. n : s[i] = s[i - 1] + weight[ns[i]]
        /\ DOMAIN s = 0 .. n
    BY <1>1, <2>1
  <2> QED
    BY <2>2 DEF s
<1> DEFINE Bad == { i \in 0 .. n : Sums(ns)[i] \notin Nat }
<1>6. ASSUME Bad # {} PROVE FALSE
  <2>1. PICK m \in Bad : \A k \in Bad : m <= k
    <3>1. Bad \in SUBSET Nat
      BY <1>1
    <3> HIDE DEF Bad
    <3> QED
      BY <1>6, <3>1, HasLeast
  <2>2. m # 0
    BY <1>5
  <2>3. m \in 1 .. n /\ m - 1 \in 0 .. n /\ ~ (m <= m - 1)
    BY <1>1, <2>2
  <2>4. Sums(ns)[m - 1] \in Nat
    BY <2>1, <2>3
  <2>5. weight[ns[m]] \in Nat
    BY <2>3 DEF WeightsOK
  <2> QED
    BY <1>5, <2>3, <2>4, <2>5
<1>7. \A i \in 0 .. n : Sums(ns)[i] \in Nat
  BY <1>6
<1>8. Sums(ns) \in [0 .. n -> Nat]
  BY <1>4, <1>7
<1> QED
  BY <1>5, <1>8

LEMMA SumsGrow ==
    ASSUME WeightsOK, NEW ns \in Seq(Nodes),
           NEW i \in 0 .. Len(ns), NEW k \in i .. Len(ns)
    PROVE  Sums(ns)[i] <= Sums(ns)[k]
<1> DEFINE n == Len(ns)
           s == Sums(ns)
           Bad == { j \in i .. n : ~ (s[i] <= s[j]) }
<1>1. /\ n \in Nat
      /\ s \in [0 .. n -> Nat]
      /\ \A j \in 1 .. n : s[j] = s[j - 1] + weight[ns[j]]
  BY SumsOf
<1> HIDE DEF s
<1>2. ASSUME Bad # {} PROVE FALSE
  <2>1. PICK m \in Bad : \A j \in Bad : m <= j
    <3>1. Bad \in SUBSET Nat
      BY <1>1
    <3> HIDE DEF Bad
    <3> QED
      BY <1>2, <3>1, HasLeast
  <2>2. s[i] \in Nat /\ i \in Nat
    BY <1>1
  <2>3. m # i /\ m \in i .. n
    BY <2>2
  <2>4. m \in 1 .. n /\ m - 1 \in i .. n /\ m - 1 \in 0 .. n /\ ~ (m <= m - 1)
    BY <1>1, <2>2, <2>3
  <2>5. s[i] <= s[m - 1]
    BY <2>1, <2>4
  <2>6. weight[ns[m]] \in Nat /\ s[m - 1] \in Nat
    BY <1>1, <2>4 DEF WeightsOK
  <2>7. s[m] = s[m - 1] + weight[ns[m]]
    BY <1>1, <2>4
  <2>8. s[i] <= s[m]
    BY <2>2, <2>5, <2>6, <2>7
  <2> QED
    BY <2>1, <2>8
<1> QED
  BY <1>2 DEF s

(* The number picks exactly one place of the list.                         *)
LEMMA PicksOne ==
    ASSUME WeightsOK, NEW ns \in Seq(Nodes), NEW r \in 0 .. Total(ns) - 1
    PROVE  \E i \in 1 .. Len(ns) :
              /\ Picks(ns, r, i)
              /\ \A j \in 1 .. Len(ns) : Picks(ns, r, j) => i = j
<1> DEFINE n == Len(ns)
           s == Sums(ns)
           Past == { j \in 0 .. n : r < s[j] }
<1>1. /\ n \in Nat /\ s \in [0 .. n -> Nat] /\ s[0] = 0
  BY SumsOf
<1>2. r \in 0 .. s[n] - 1 /\ s[n] \in Nat
  BY <1>1 DEF Total
<1> HIDE DEF s
<1>3. n \in Past /\ Past \in SUBSET Nat
  BY <1>1, <1>2
<1>4. PICK i \in Past : \A j \in Past : i <= j
  <2> HIDE DEF Past
  <2> QED
    BY <1>3, HasLeast
<1>5. i # 0 /\ i \in 1 .. n
  BY <1>1, <1>2
<1>6. \A j \in 0 .. i - 1 : r >= s[j]
  <2> SUFFICES ASSUME NEW j \in 0 .. i - 1 PROVE r >= s[j]
    OBVIOUS
  <2>1. j \in 0 .. n /\ ~ (i <= j)
    BY <1>1, <1>5
  <2>2. ~ (r < s[j]) /\ s[j] \in Nat
    BY <1>1, <1>4, <2>1
  <2> QED
    BY <1>2, <2>2
<1>7. Picks(ns, r, i)
  BY <1>4, <1>5, <1>6 DEF Picks, s
<1>8. ASSUME NEW j \in 1 .. n, Picks(ns, r, j) PROVE i = j
  <2>1. r < s[j] /\ \A k \in 1 .. j - 1 : r >= s[k]
    BY <1>8 DEF Picks, s
  <2>2. j \in 0 .. n /\ i <= j
    BY <1>1, <1>4, <2>1
  <2>3. ASSUME i < j PROVE FALSE
    <3>1. i \in 1 .. j - 1
      BY <1>1, <1>5, <2>3
    <3>2. r >= s[i] /\ r < s[i] /\ s[i] \in Nat
      BY <1>1, <1>4, <2>1, <3>1
    <3> QED
      BY <1>2, <3>2
  <2> QED
    BY <1>5, <2>2, <2>3
<1> QED
  BY <1>5, <1>7, <1>8

(* A choice among some nodes is one of them.                               *)
LEMMA SelectionIsANode ==
    ASSUME WeightsOK, NEW ns \in Seq(Nodes), ns # << >>,
           NEW r \in Randoms(ns)
    PROVE  SelectNodeByWeight(ns, r) \in Nodes
<1>1. 1 \in 1 .. Len(ns)
  OBVIOUS
<1>2. CASE Total(ns) = 0
  BY <1>1, <1>2 DEF SelectNodeByWeight
<1>3. CASE Total(ns) # 0
  <2>1. r \in 0 .. Total(ns) - 1
    BY <1>3 DEF Randoms
  <2>2. \E i \in DOMAIN ns : Picks(ns, r, i)
    BY <2>1, PicksOne
  <2>3. (CHOOSE i \in DOMAIN ns : Picks(ns, r, i)) \in 1 .. Len(ns)
    BY <2>2
  <2> QED
    BY <1>3, <2>3 DEF SelectNodeByWeight
<1> QED
  BY <1>2, <1>3

(* As many numbers pick a place as its node's weight says.                 *)
LEMMA ShareOfANode ==
    ASSUME WeightsOK, NEW ns \in Seq(Nodes),
           \A i, j \in 1 .. Len(ns) : ns[i] = ns[j] => i = j,
           Total(ns) > 0, NEW i \in 1 .. Len(ns)
    PROVE  Cardinality({ r \in Randoms(ns) :
                            SelectNodeByWeight(ns, r) = ns[i] })
              = weight[ns[i]]
<1> DEFINE n == Len(ns)
           s == Sums(ns)
           Share == { r \in Randoms(ns) : SelectNodeByWeight(ns, r) = ns[i] }
<1>1. /\ n \in Nat /\ s \in [0 .. n -> Nat]
      /\ s[i] = s[i - 1] + weight[ns[i]]
      /\ weight[ns[i]] \in Nat
  BY SumsOf DEF WeightsOK
<1>2. /\ i \in 0 .. n /\ i - 1 \in 0 .. n
      /\ s[i] \in Nat /\ s[i - 1] \in Nat /\ s[n] \in Nat /\ s[i] <= s[n]
  <2>1. i \in 0 .. n /\ i - 1 \in 0 .. n /\ n \in i .. n
    BY <1>1
  <2>2. s[i] <= s[n]
    BY <2>1, SumsGrow
  <2> QED
    BY <1>1, <2>1, <2>2
<1>3. Randoms(ns) = 0 .. s[n] - 1
  BY DEF Randoms, Total
<1>4. ASSUME NEW r \in 0 .. s[n] - 1
      PROVE  SelectNodeByWeight(ns, r) = ns[i] <=> Picks(ns, r, i)
  <2>1. PICK j \in 1 .. n :
           /\ Picks(ns, r, j)
           /\ \A k \in 1 .. n : Picks(ns, r, k) => j = k
    BY PicksOne DEF Total
  <2>2. (CHOOSE k \in DOMAIN ns : Picks(ns, r, k)) = j
    BY <2>1
  <2>3. SelectNodeByWeight(ns, r) = ns[j]
    <3>1. Total(ns) # 0
      BY <1>2 DEF Total
    <3> QED
      BY <2>2, <3>1 DEF SelectNodeByWeight
  <2> QED
    BY <2>1, <2>3
<1>5. ASSUME NEW r \in 0 .. s[n] - 1
      PROVE  Picks(ns, r, i) <=> s[i - 1] <= r /\ r < s[i]
  <2>1. ASSUME Picks(ns, r, i) PROVE s[i - 1] <= r /\ r < s[i]
    <3>1. CASE i = 1
      <4>1. s[i - 1] = 0
        BY <3>1, SumsOf
      <4> QED
        BY <2>1, <4>1 DEF Picks
    <3>2. CASE i # 1
      <4>1. i - 1 \in 1 .. i - 1
        BY <3>2
      <4>2. r >= s[i - 1] /\ r < s[i]
        BY <2>1, <4>1 DEF Picks
      <4> QED
        BY <1>2, <4>2
    <3> QED
      BY <3>1, <3>2
  <2>2. ASSUME s[i - 1] <= r, r < s[i] PROVE Picks(ns, r, i)
    <3>1. ASSUME NEW j \in 1 .. i - 1 PROVE r >= s[j]
      <4>1. j \in 0 .. n /\ i - 1 \in j .. n
        BY <1>1
      <4>2. s[j] <= s[i - 1] /\ s[j] \in Nat
        BY <1>1, <4>1, SumsGrow
      <4> QED
        BY <1>2, <2>2, <4>2
    <3> QED
      BY <2>2, <3>1 DEF Picks
  <2> QED
    BY <2>1, <2>2
<1>6. Share = s[i - 1] .. s[i] - 1
  <2>1. Share = { r \in 0 .. s[n] - 1 : s[i - 1] <= r /\ r < s[i] }
    BY <1>3, <1>4, <1>5
  <2> HIDE DEF Share, s
  <2> QED
    BY <1>2, <2>1
<1>7. Cardinality(s[i - 1] .. s[i] - 1) =
         IF s[i - 1] > s[i] - 1 THEN 0 ELSE s[i] - 1 - s[i - 1] + 1
  <2>1. s[i - 1] \in Int /\ s[i] - 1 \in Int
    BY <1>2
  <2> HIDE DEF s
  <2> QED
    BY <2>1, FS_Interval
<1>8. Cardinality(s[i - 1] .. s[i] - 1) = weight[ns[i]]
  <2> DEFINE k == Cardinality(s[i - 1] .. s[i] - 1)
             a == s[i - 1]
             b == s[i]
             x == weight[ns[i]]
  <2>1. /\ a \in Nat /\ b \in Nat /\ x \in Nat /\ b = a + x
        /\ k = IF a > b - 1 THEN 0 ELSE b - 1 - a + 1
    BY <1>1, <1>2, <1>7
  <2> HIDE DEF k, a, b, x
  <2>2. k = x
    BY <2>1
  <2> QED
    BY <2>2 DEF k, a, b, x
<1> QED
  BY <1>6, <1>8

-----------------------------------------------------------------------------
(* The calls and the health checks.                                        *)
(*                                                                         *)
(* The argument: no check gets as far as to make a node unhealthy, so a    *)
(* round of the loop finds every node, in order, and its choice is one of  *)
(* them.                                                                   *)

CallerRecords == [at : {"idle", "ask", "call", "success", "failure"},
                  next : 1 .. N + 1, found : Seq(Nodes), node : 0 .. N,
                  tries : 0 .. MaxTries - 1]

CheckerRecords == [at : {"idle", "call", "failed", "answered", "write",
                         "average"},
                   node : Nodes, read : Nat]

(* A round of GetHealthyNode has found the nodes it has asked.             *)
CallerOK(c) ==
    /\ Len(caller[c].found) = caller[c].next - 1
    /\ \A i \in 1 .. Len(caller[c].found) : caller[c].found[i] = i
    /\ caller[c].at \in {"call", "success", "failure"} =>
          caller[c].node \in Nodes

NInv ==
    /\ weight \in Weights
    /\ healthy = [n \in Nodes |-> TRUE]
    /\ mu \in [Nodes -> Checkers \cup {NoOne}]
    /\ failures \in [Nodes -> Nat]
    /\ caller \in [Callers -> CallerRecords]
    /\ checker \in [Checkers -> CheckerRecords]
    /\ \A c \in Callers : CallerOK(c)

LEMMA WeightsAreNumbers == NInv => WeightsOK
  BY NodeAssumption DEF NInv, WeightsOK

LEMMA IdleIsARecord ==
    /\ IdleCaller \in CallerRecords
    /\ IdleCaller.at = "idle" /\ IdleCaller.next = 1
    /\ IdleCaller.found = << >> /\ IdleCaller.tries = 0
  BY NodeAssumption DEF IdleCaller, CallerRecords

LEMMA NInitially == NInit => NInv
<1> SUFFICES ASSUME NInit PROVE NInv
  OBVIOUS
<1>1. IdleChecker \in CheckerRecords
  BY NodeAssumption DEF IdleChecker, CheckerRecords, Nodes
<1>2. caller \in [Callers -> CallerRecords]
  BY IdleIsARecord DEF NInit
<1>3. \A c \in Callers : CallerOK(c)
  BY IdleIsARecord DEF NInit, CallerOK
<1> QED
  BY <1>1, <1>2, <1>3 DEF NInit, NInv

(* A caller moves on.                                                      *)
LEMMA CallerMoves ==
    ASSUME NInv, NEW c \in Callers, UNCHANGED byCaller,
           failures' \in [Nodes -> Nat],
           NEW r \in CallerRecords, caller' = [caller EXCEPT ![c] = r],
           Len(r.found) = r.next - 1,
           \A i \in 1 .. Len(r.found) : r.found[i] = i,
           r.at \in {"call", "success", "failure"} => r.node \in Nodes
    PROVE  NInv'
<1>1. /\ caller' \in [Callers -> CallerRecords] /\ caller'[c] = r
      /\ \A d \in Callers : d # c => caller'[d] = caller[d]
  BY DEF NInv
<1>2. \A d \in Callers : CallerOK(d)'
  BY <1>1 DEF NInv, CallerOK
<1> QED
  BY <1>1, <1>2 DEF NInv, byCaller

(* A caller ends its call or begins another round.                         *)
LEMMA CallerBeginsAgain ==
    ASSUME NInv, NEW c \in Callers, UNCHANGED byCaller,
           failures' \in [Nodes -> Nat],
           NEW r \in CallerRecords, caller' = [caller EXCEPT ![c] = r],
           r.at \in {"idle", "ask"}, r.next = 1, r.found = << >>
    PROVE  NInv'
<1>1. /\ Len(r.found) = r.next - 1
      /\ \A i \in 1 .. Len(r.found) : r.found[i] = i
  OBVIOUS
<1>2. ~ r.at \in {"call", "success", "failure"}
  OBVIOUS
<1> QED
  BY <1>1, <1>2, CallerMoves

(* Steps that change only where a caller is.                               *)
LEMMA CallerGoesTo ==
    ASSUME NInv, NEW c \in Callers, UNCHANGED byCaller,
           failures' \in [Nodes -> Nat],
           NEW at \in {"idle", "ask", "call", "success", "failure"},
           caller' = [caller EXCEPT ![c].at = at],
           at \in {"call", "success", "failure"} => caller[c].node \in Nodes
    PROVE  NInv'
<1> DEFINE r == [caller[c] EXCEPT !.at = at]
<1>1. caller[c] \in CallerRecords /\ CallerOK(c)
  BY DEF NInv
<1>2. /\ r \in CallerRecords /\ r.at = at /\ r.next = caller[c].next
      /\ r.found = caller[c].found /\ r.node = caller[c].node
  BY <1>1 DEF CallerRecords
<1>3. caller' = [caller EXCEPT ![c] = r]
  OBVIOUS
<1> HIDE DEF r
<1> QED
  BY <1>1, <1>2, <1>3, CallerMoves DEF CallerOK

LEMMA IsHealthyKeepsNInv ==
    ASSUME NInv, NEW c \in Callers, IsHealthy(c)
    PROVE  NInv'
<1> DEFINE k == caller[c].next
           r == [caller[c] EXCEPT !.next = k + 1, !.found = Append(@, k)]
<1>1. caller[c] \in CallerRecords /\ CallerOK(c)
  BY DEF NInv
<1>2. /\ k \in 1 .. N + 1 /\ k <= N
      /\ caller[c].found \in Seq(Nodes) /\ caller[c].at = "ask"
      /\ Len(caller[c].found) = k - 1
      /\ \A i \in 1 .. Len(caller[c].found) : caller[c].found[i] = i
  BY <1>1 DEF IsHealthy, CallerRecords, CallerOK
<1>3. k \in Nodes /\ k + 1 \in 1 .. N + 1 /\ healthy[k]
  BY <1>2, NodeAssumption DEF Nodes, NInv
<1>4. caller' = [caller EXCEPT ![c] = r]
  BY <1>3 DEF IsHealthy
<1>5. r \in CallerRecords
  <2>1. Append(caller[c].found, k) \in Seq(Nodes)
    BY <1>2, <1>3
  <2> QED
    BY <1>1, <1>3, <2>1 DEF CallerRecords
<1>6. r.next = k + 1 /\ r.found = Append(caller[c].found, k) /\ r.at = "ask"
  BY <1>1, <1>2 DEF CallerRecords
<1> DEFINE f == caller[c].found
<1>7. /\ Len(r.found) = r.next - 1
      /\ \A i \in 1 .. Len(r.found) : r.found[i] = i
  <2>1. f \in Seq(Nodes) /\ Len(f) = k - 1 /\ \A i \in 1 .. Len(f) : f[i] = i
    BY <1>2
  <2>2. k \in Nat /\ r.found = Append(f, k) /\ r.next = k + 1
    BY <1>2, <1>6, NodeAssumption
  <2> HIDE DEF f, k, r
  <2>3. Len(r.found) = k
    BY <2>1, <2>2
  <2>4. \A i \in 1 .. k : r.found[i] = i
    BY <2>1, <2>2
  <2> QED
    BY <2>2, <2>3, <2>4
<1>8. UNCHANGED byCaller /\ failures' \in [Nodes -> Nat]
  BY DEF IsHealthy, NInv
<1> HIDE DEF r
<1> QED
  BY <1>4, <1>5, <1>6, <1>7, <1>8, CallerMoves

(* The choice is among all nodes, so there is one.                         *)
LEMMA SelectKeepsNInv ==
    ASSUME NInv, NEW c \in Callers, NEW q \in Randoms(caller[c].found),
           Select(c, q)
    PROVE  NInv'
<1> DEFINE n == SelectNodeByWeight(caller[c].found, q)
           r == [caller[c] EXCEPT !.at = "call", !.node = n]
<1>1. caller[c] \in CallerRecords /\ CallerOK(c)
  BY DEF NInv
<1>2. /\ caller[c].found \in Seq(Nodes) /\ caller[c].found # << >>
      /\ WeightsOK
  <2>1. caller[c].next > N /\ Len(caller[c].found) = caller[c].next - 1
    BY <1>1 DEF Select, CallerOK
  <2>2. caller[c].found \in Seq(Nodes) /\ caller[c].next \in 1 .. N + 1
    BY <1>1 DEF CallerRecords
  <2>3. Len(caller[c].found) # 0
    BY <2>1, <2>2, NodeAssumption
  <2> QED
    BY <2>2, <2>3, WeightsAreNumbers
<1>3. n \in Nodes
  BY <1>2, SelectionIsANode
<1>4. /\ caller' = [caller EXCEPT ![c] = r]
      /\ UNCHANGED byCaller /\ failures' \in [Nodes -> Nat]
  BY DEF Select, NInv
<1> HIDE DEF n
<1>5. /\ r \in CallerRecords /\ r.at = "call" /\ r.node = n
      /\ r.next = caller[c].next /\ r.found = caller[c].found
  <2>1. n \in 0 .. N
    BY <1>3, NodeAssumption DEF Nodes
  <2> QED
    BY <1>1, <2>1 DEF CallerRecords
<1> HIDE DEF r
<1> QED
  BY <1>1, <1>3, <1>4, <1>5, CallerMoves DEF CallerOK

LEMMA CallsKeepNInv ==
    ASSUME NInv, NEW c \in Callers, CallBegin(c) \/ CallStep(c)
    PROVE  NInv'
<1>1. CallerOK(c) /\ caller[c] \in CallerRecords
  BY DEF NInv
<1>2. CASE CallBegin(c)
  BY <1>2, CallerGoesTo DEF CallBegin, NInv
<1>3. CASE IsHealthy(c)
  BY <1>3, IsHealthyKeepsNInv
<1>4. CASE \E r \in Randoms(caller[c].found) : Select(c, r)
  BY <1>4, SelectKeepsNInv
<1>5. CASE CallSucceeds(c)
  <2>1. /\ caller' = [caller EXCEPT ![c].at = "success"]
        /\ caller[c].node \in Nodes
        /\ UNCHANGED byCaller /\ failures' \in [Nodes -> Nat]
    BY <1>1, <1>5 DEF CallSucceeds, CallerOK, NInv
  <2> QED
    BY <2>1, CallerGoesTo
<1>6. CASE CallFails(c)
  <2>1. /\ caller' = [caller EXCEPT ![c].at = "failure"]
        /\ caller[c].node \in Nodes
        /\ failures' = [failures EXCEPT ![caller[c].node] = @ + 1]
        /\ UNCHANGED byCaller
    BY <1>1, <1>6 DEF CallFails, CallerOK
  <2>2. failures' \in [Nodes -> Nat]
    BY <2>1 DEF NInv
  <2> QED
    BY <2>1, <2>2, CallerGoesTo
<1>7. CASE RecordSuccess(c)
  <2>1. /\ caller' = [caller EXCEPT ![c] = IdleCaller]
        /\ UNCHANGED byCaller /\ failures' \in [Nodes -> Nat]
    BY <1>7 DEF RecordSuccess, NInv
  <2> QED
    BY <2>1, IdleIsARecord, CallerBeginsAgain
<1>8. CASE RecordFailure(c)
  <2> DEFINE t == caller[c].tries
             r == [IdleCaller EXCEPT !.at = "ask", !.tries = t + 1]
  <2>1. t \in 0 .. MaxTries - 1
    BY <1>1 DEF CallerRecords
  <2>2. t + 1 < MaxTries =>
           /\ r \in CallerRecords
           /\ r.at = "ask" /\ r.next = 1 /\ r.found = << >>
    <3> SUFFICES ASSUME t + 1 < MaxTries
                 PROVE  /\ r \in CallerRecords
                        /\ r.at = "ask" /\ r.next = 1 /\ r.found = << >>
      OBVIOUS
    <3>1. t + 1 \in 0 .. MaxTries - 1
      BY <2>1, NodeAssumption
    <3> HIDE DEF t
    <3> QED
      BY <3>1, IdleIsARecord DEF CallerRecords
  <2>3. caller' = [caller EXCEPT ![c] = NextTry(t)]
    BY <1>8 DEF RecordFailure
  <2>4. NextTry(t) = IF t + 1 < MaxTries THEN r ELSE IdleCaller
    BY DEF NextTry
  <2> HIDE DEF r
  <2>5. /\ NextTry(t) \in CallerRecords
        /\ NextTry(t).at \in {"ask", "idle"}
        /\ NextTry(t).next = 1 /\ NextTry(t).found = << >>
    BY <2>2, <2>4, IdleIsARecord
  <2>6. UNCHANGED byCaller /\ failures' \in [Nodes -> Nat]
    BY <1>8 DEF RecordFailure, NInv
  <2> QED
    BY <2>3, <2>5, <2>6, CallerBeginsAgain
<1> QED
  BY <1>2, <1>3, <1>4, <1>5, <1>6, <1>7, <1>8 DEF CallStep

LEMMA ChecksKeepNInv ==
    ASSUME NInv, NEW k \in Checkers,
           CheckStep(k) \/ \E n \in Nodes : CheckStart(k, n)
    PROVE  NInv'
<1>1. checker \in [Checkers -> CheckerRecords] /\ checker[k].node \in Nodes
  BY DEF NInv, CheckerRecords
<1>2. /\ mu' \in [Nodes -> Checkers \cup {NoOne}]
      /\ failures' \in [Nodes -> Nat]
  <2>1. checker[k].read \in Nat
    BY <1>1 DEF CheckerRecords
  <2> QED
    BY <1>1, <2>1
    DEF CheckStep, CheckStart, CheckLock, CheckFailedRead, CheckFailedWrite,
        CheckAnswered, NInv
<1>3. checker' \in [Checkers -> CheckerRecords]
  <2>1. CASE \E n \in Nodes : CheckStart(k, n)
    BY <1>1, <2>1 DEF CheckStart, CheckerRecords
  <2>2. CASE CheckLock(k)
    BY <1>1, <2>2 DEF CheckLock, CheckerRecords
  <2>3. CASE CheckFailedRead(k)
    <3>1. failures[checker[k].node] \in Nat
      BY <1>1 DEF NInv
    <3> QED
      BY <1>1, <2>3, <3>1 DEF CheckFailedRead, CheckerRecords
  <2>4. CASE CheckFailedWrite(k)
    BY <1>1, <2>4 DEF CheckFailedWrite, CheckerRecords
  <2>5. CASE CheckAnswered(k)
    BY <1>1, <2>5 DEF CheckAnswered, CheckerRecords
  <2> QED
    BY <2>1, <2>2, <2>3, <2>4, <2>5 DEF CheckStep
<1>4. UNCHANGED <<weight, healthy, caller>>
  BY DEF CheckStep, CheckStart, CheckLock, CheckFailedRead, CheckFailedWrite,
         CheckAnswered, byChecker
<1> QED
  BY <1>2, <1>3, <1>4 DEF NInv, CallerOK

LEMMA NInvInductive == NInv /\ [NNext]_nvars => NInv'
<1> SUFFICES ASSUME NInv, [NNext]_nvars PROVE NInv'
  OBVIOUS
<1>1. CASE \E c \in Callers : CallBegin(c) \/ CallStep(c)
  BY <1>1, CallsKeepNInv
<1>2. CASE \E k \in Checkers : CheckStep(k) \/ \E n \in Nodes : CheckStart(k, n)
  BY <1>2, ChecksKeepNInv
<1>3. CASE UNCHANGED nvars
  BY <1>3 DEF nvars, NInv, CallerOK
<1> QED
  BY <1>1, <1>2, <1>3 DEF NNext

LEMMA NodeInvariant == NSpec => []NInv
  BY NInitially, NInvInductive, PTL DEF NSpec

LEMMA NInvTypes == NInv => NTypeOK
<1> SUFFICES ASSUME NInv PROVE NTypeOK
  OBVIOUS
<1>1. healthy \in [Nodes -> BOOLEAN]
  BY DEF NInv
<1>2. ASSUME NEW c \in Callers
      PROVE  /\ caller[c].at \in {"idle", "ask", "call", "success", "failure"}
             /\ caller[c].next \in 1 .. N + 1
             /\ Len(caller[c].found) < caller[c].next
             /\ caller[c].node \in 0 .. N
             /\ caller[c].tries \in 0 .. MaxTries - 1
  <2>1. caller[c] \in CallerRecords /\ CallerOK(c)
    BY DEF NInv
  <2>2. caller[c].next \in 1 .. N + 1
    BY <2>1 DEF CallerRecords
  <2>3. Len(caller[c].found) < caller[c].next
    BY <2>1, <2>2, NodeAssumption DEF CallerOK
  <2> QED
    BY <2>1, <2>3 DEF CallerRecords
<1>3. \A k \in Checkers :
         /\ checker[k].at \in {"idle", "call", "failed", "answered", "write",
                               "average"}
         /\ checker[k].node \in Nodes
  BY DEF NInv, CheckerRecords
<1> QED
  BY <1>1, <1>2, <1>3 DEF NInv, NTypeOK

LEMMA NInvShares == NInv => SelectionIsProportional
<1> SUFFICES ASSUME NInv, NEW c \in Callers, Total(caller[c].found) > 0,
                    NEW i \in DOMAIN caller[c].found
             PROVE  Cardinality(
                       { r \in Randoms(caller[c].found) :
                            SelectNodeByWeight(caller[c].found, r)
                               = caller[c].found[i] })
                       = weight[caller[c].found[i]]
  BY DEF SelectionIsProportional
<1>1. caller[c] \in CallerRecords /\ CallerOK(c)
  BY DEF NInv
<1>2. /\ caller[c].found \in Seq(Nodes)
      /\ i \in 1 .. Len(caller[c].found)
  BY <1>1 DEF CallerRecords
<1>3. \A j, k \in 1 .. Len(caller[c].found) :
          caller[c].found[j] = caller[c].found[k] => j = k
  BY <1>1 DEF CallerOK
<1> QED
  BY <1>2, <1>3, WeightsAreNumbers, ShareOfANode

(* The steps of a client are steps of its node manager.                    *)
LEMMA StepsThroughManager == [Next]_vars => [NNext]_nvars
<1> SUFFICES ASSUME [Next]_vars PROVE [NNext]_nvars
  OBVIOUS
<1>1. ASSUME NEW c \in Callers, ClientStep(c) PROVE [NNext]_nvars
  <2>1. CASE IsHealthy(c) \/ \E r \in Randoms(caller[c].found) : Select(c, r)
    BY <2>1 DEF NNext, CallStep
  <2>2. CASE TakeIds(c)
    BY <2>2 DEF TakeIds
  <2>3. CASE \E s \in BatchReplies(c) : BatchAnswered(c, s)
    BY <2>3 DEF BatchAnswered, NNext, CallStep
  <2>4. CASE \E r \in SingleReplies(c) : SingleAnswered(c, r)
    BY <2>4 DEF SingleAnswered, NNext, CallStep
  <2>5. CASE NotAnswered(c)
    BY <2>5 DEF NotAnswered, NNext, CallStep
  <2>6. CASE Return(c)
    BY <2>6 DEF Return, NNext, CallStep
  <2> QED
    BY <1>1, <2>1, <2>2, <2>3, <2>4, <2>5, <2>6 DEF ClientStep
<1>2. CASE \E c \in Callers, r \in Requests : GetBlocks(c, r)
  BY <1>2 DEF GetBlocks, NNext
<1>3. CASE HealthStep
  BY <1>3 DEF HealthStep, NNext
<1>4. CASE UNCHANGED vars
  BY <1>4 DEF vars
<1> QED
  BY <1>1, <1>2, <1>3, <1>4 DEF Next

(* The client adds ids and blocks to the calls of the node manager and     *)
(* takes none of its steps in another way: what is proved of the node      *)
(* manager by itself holds beneath every client.                           *)
THEOREM ClientCallsThroughManager == Spec => NSpec
<1>1. Init => NInit
  BY DEF Init
<1> QED
  BY <1>1, StepsThroughManager, PTL DEF Spec, NSpec

(* Calls and checks keep their types and bounds: no call makes more than   *)
(* MaxTries tries, and one that is under way has a node, whatever the      *)
(* weights.                                                                *)
THEOREM NodesTypeCorrect == Spec => []NTypeOK
  BY ClientCallsThroughManager, NodeInvariant, NInvTypes, PTL

(* selectNodeByWeight (line 160) gives every node the share of its weight, *)
(* for any number of nodes and any weights, zeros among them.              *)
THEOREM ChoiceIsProportional == Spec => []SelectionIsProportional
  BY ClientCallsThroughManager, NodeInvariant, NInvShares, PTL

-----------------------------------------------------------------------------
(* The blocks that a call brings.                                          *)
(*                                                                         *)
(* The argument: the ids that a call takes are new at the node it calls,   *)
(* and the numbers it asks for stay at those ids, whatever other callers   *)
(* ask through the same client.                                            *)

(* The numbers of a request are asked of its node at its ids.              *)
AskedOK(c) ==
    base[c] > 0 =>
        /\ caller[c].at = "call"
        /\ base[c] + Len(want[c].numbers) <= Len(asked[caller[c].node]) + 1
        /\ \A i \in 1 .. Len(want[c].numbers) :
              asked[caller[c].node][base[c] + i - 1] = want[c].numbers[i]

GotOK(c) ==
    /\ caller[c].at # "success" => got[c] = << >>
    /\ DOMAIN got[c] \subseteq DOMAIN want[c].numbers
    /\ \A i \in DOMAIN got[c] : got[c][i] = want[c].numbers[i]

ClientOK(c) ==
    /\ caller[c].at # "idle" => want[c] \in Requests
    /\ AskedOK(c)
    /\ GotOK(c)

CInv ==
    /\ NInv
    /\ want \in [Callers -> Requests \cup {Nothing}]
    /\ asked \in [Nodes -> Seq(Nat)]
    /\ base \in [Callers -> Nat]
    /\ DOMAIN got = Callers
    /\ \A c \in Callers : ClientOK(c)

LEMMA CInitially == Init => CInv
<1> SUFFICES ASSUME Init PROVE CInv
  OBVIOUS
<1>1. NInv
  BY NInitially DEF Init
<1>2. \A c \in Callers : caller[c].at = "idle"
  BY IdleIsARecord DEF Init, NInit
<1>3. \A c \in Callers : AskedOK(c) /\ GotOK(c)
  BY DEF Init, AskedOK, GotOK
<1> QED
  BY <1>1, <1>2, <1>3 DEF Init, CInv, ClientOK

(* What others ask comes after what a caller has asked.                    *)
AsksStay ==
    \A n \in Nodes :
        /\ Len(asked[n]) \in Nat /\ Len(asked'[n]) \in Nat
        /\ Len(asked[n]) <= Len(asked'[n])
        /\ \A i \in 1 .. Len(asked[n]) : asked'[n][i] = asked[n][i]

LEMMA RequestsAreSequences ==
    ASSUME CInv, NEW c \in Callers
    PROVE  want[c].numbers \in Seq(Nat)
<1>1. want[c] \in Requests \cup {Nothing}
  BY DEF CInv
<1>2. CASE want[c] \in Requests
  BY <1>2, RequestsAssumption
<1>3. CASE want[c] = Nothing
  <2>1. want[c].numbers = << >>
    BY <1>3 DEF Nothing
  <2> QED
    BY <2>1
<1> QED
  BY <1>1, <1>2, <1>3

(* A caller that does not move keeps what it has.                          *)
LEMMA StayersKeepClientOK ==
    ASSUME CInv, NEW c \in Callers, AsksStay,
           caller'[c] = caller[c], want'[c] = want[c], base'[c] = base[c],
           got'[c] = got[c]
    PROVE  ClientOK(c)'
<1>1. AskedOK(c) /\ GotOK(c) /\ (caller[c].at # "idle" => want[c] \in Requests)
  BY DEF CInv, ClientOK
<1>2. GotOK(c)'
  BY <1>1 DEF GotOK
<1>3. AskedOK(c)'
  <2> SUFFICES ASSUME base[c] > 0
               PROVE  /\ base[c] + Len(want[c].numbers)
                            <= Len(asked'[caller[c].node]) + 1
                      /\ caller[c].at = "call"
                      /\ \A i \in 1 .. Len(want[c].numbers) :
                            asked'[caller[c].node][base[c] + i - 1]
                               = want[c].numbers[i]
    BY DEF AskedOK
  <2> DEFINE n == caller[c].node
             l == Len(want[c].numbers)
  <2>1. /\ caller[c].at = "call"
        /\ base[c] + l <= Len(asked[n]) + 1
        /\ \A i \in 1 .. l : asked[n][base[c] + i - 1] = want[c].numbers[i]
    BY <1>1 DEF AskedOK
  <2>2. n \in Nodes /\ base[c] \in Nat
    BY <2>1 DEF CInv, NInv, CallerOK
  <2>3. l \in Nat
    BY RequestsAreSequences
  <2>4. /\ Len(asked[n]) \in Nat /\ Len(asked'[n]) \in Nat
        /\ Len(asked[n]) <= Len(asked'[n])
        /\ \A i \in 1 .. Len(asked[n]) : asked'[n][i] = asked[n][i]
    BY <2>2 DEF AsksStay
  <2> HIDE DEF n, l
  <2>5. base[c] + l <= Len(asked'[n]) + 1
    BY <2>1, <2>2, <2>3, <2>4
  <2>6. ASSUME NEW i \in 1 .. l
        PROVE  asked'[n][base[c] + i - 1] = want[c].numbers[i]
    <3>1. base[c] + i - 1 \in 1 .. Len(asked[n])
      BY <2>1, <2>2, <2>3, <2>4
    <3> QED
      BY <2>1, <2>4, <3>1
  <2> QED
    BY <2>1, <2>5, <2>6 DEF n, l
<1> QED
  BY <1>1, <1>2, <1>3 DEF ClientOK

LEMMA SameAsks ==
    ASSUME CInv, UNCHANGED asked
    PROVE  AsksStay
BY DEF CInv, AsksStay

(* TakeIds: the ids are those of the numbers just asked.                   *)
LEMMA TakeIdsKeepsClientOK ==
    ASSUME CInv, NEW c \in Callers, TakeIds(c)
    PROVE  AsksStay /\ ClientOK(c)' /\ asked' \in [Nodes -> Seq(Nat)]
<1> DEFINE n == caller[c].node
           q == want[c].numbers
           a == asked[n]
<1>1. /\ caller[c].at = "call"
      /\ base' = [base EXCEPT ![c] = Len(a) + 1]
      /\ asked' = [asked EXCEPT ![n] = a \o q]
      /\ UNCHANGED <<nvars, want, got>>
  BY DEF TakeIds
<1>2. n \in Nodes /\ CallerOK(c)
  BY <1>1 DEF CInv, NInv, CallerOK
<1>3. q \in Seq(Nat) /\ a \in Seq(Nat)
  BY <1>2, RequestsAreSequences DEF CInv
<1> HIDE DEF q, a
<1>4. /\ a \o q \in Seq(Nat)
      /\ Len(a) \in Nat /\ Len(q) \in Nat
      /\ Len(a \o q) = Len(a) + Len(q)
      /\ \A i \in 1 .. Len(a) : (a \o q)[i] = a[i]
      /\ \A i \in 1 .. Len(q) : (a \o q)[Len(a) + i] = q[i]
  BY <1>3
<1>5. /\ asked' \in [Nodes -> Seq(Nat)] /\ asked'[n] = a \o q
      /\ \A m \in Nodes : m # n => asked'[m] = asked[m]
  BY <1>1, <1>2, <1>4 DEF CInv
<1>6. AsksStay
  <2> SUFFICES ASSUME NEW m \in Nodes
               PROVE  /\ Len(asked[m]) \in Nat /\ Len(asked'[m]) \in Nat
                      /\ Len(asked[m]) <= Len(asked'[m])
                      /\ \A i \in 1 .. Len(asked[m]) :
                            asked'[m][i] = asked[m][i]
    BY DEF AsksStay
  <2>1. CASE m = n
    BY <1>4, <1>5, <2>1 DEF a
  <2>2. CASE m # n
    BY <1>5, <2>2 DEF CInv
  <2> QED
    BY <2>1, <2>2
<1>7. base'[c] = Len(a) + 1 /\ caller' = caller /\ want' = want /\ got' = got
  BY <1>1 DEF CInv, nvars
<1>8. AskedOK(c)'
  <2>1. Len(a) + 1 + Len(q) <= Len(a \o q) + 1
    BY <1>4
  <2>2. \A i \in 1 .. Len(q) : (a \o q)[Len(a) + 1 + i - 1] = q[i]
    <3> SUFFICES ASSUME NEW i \in 1 .. Len(q)
                 PROVE  (a \o q)[Len(a) + 1 + i - 1] = q[i]
      OBVIOUS
    <3>1. Len(a) + 1 + i - 1 = Len(a) + i
      BY <1>4
    <3> QED
      BY <1>4, <3>1
  <2> QED
    BY <1>1, <1>5, <1>7, <2>1, <2>2 DEF AskedOK, q
<1>9. GotOK(c)'
  BY <1>7 DEF CInv, ClientOK, GotOK
<1> QED
  BY <1>5, <1>6, <1>7, <1>8, <1>9 DEF CInv, ClientOK

(* A step of one caller: the others keep what they have.                   *)
LEMMA MoveKeepsCInv ==
    ASSUME CInv, [NNext]_nvars, NEW c \in Callers, AsksStay,
           want' \in [Callers -> Requests \cup {Nothing}],
           asked' \in [Nodes -> Seq(Nat)],
           base' \in [Callers -> Nat],
           DOMAIN got' = Callers,
           \A d \in Callers \ {c} :
              /\ caller'[d] = caller[d] /\ want'[d] = want[d]
              /\ base'[d] = base[d] /\ got'[d] = got[d],
           ClientOK(c)'
    PROVE  CInv'
<1>1. NInv'
  BY NInvInductive DEF CInv
<1>2. ASSUME NEW d \in Callers PROVE ClientOK(d)'
  <2>1. CASE d = c
    BY <2>1
  <2>2. CASE d # c
    BY <2>2, StayersKeepClientOK
  <2> QED
    BY <2>1, <2>2
<1> QED
  BY <1>1, <1>2 DEF CInv

(* A step after which the caller has no ids and no blocks.                 *)
LEMMA BarrenMoveKeepsCInv ==
    ASSUME CInv, [NNext]_nvars, NEW c \in Callers, UNCHANGED asked,
           \A d \in Callers \ {c} : caller'[d] = caller[d],
           want' \in [Callers -> Requests \cup {Nothing}],
           \A d \in Callers \ {c} : want'[d] = want[d],
           base' = [base EXCEPT ![c] = 0],
           DOMAIN got' = Callers, got'[c] = << >>,
           \A d \in Callers \ {c} : got'[d] = got[d],
           caller'[c].at # "idle" => want'[c] \in Requests
    PROVE  CInv'
<1>1. base'[c] = 0 /\ base' \in [Callers -> Nat]
  BY DEF CInv
<1>2. \A d \in Callers \ {c} :
              /\ caller'[d] = caller[d] /\ want'[d] = want[d]
              /\ base'[d] = base[d] /\ got'[d] = got[d]
  BY DEF CInv
<1>3. asked' \in [Nodes -> Seq(Nat)]
  BY DEF CInv
<1>4. ClientOK(c)'
  <2>1. AskedOK(c)'
    BY <1>1 DEF AskedOK
  <2>2. DOMAIN << >> = {}
    OBVIOUS
  <2>3. GotOK(c)'
    BY <1>1, <2>2 DEF GotOK
  <2> QED
    BY <1>1, <2>1, <2>3 DEF ClientOK
<1> QED
  BY <1>1, <1>2, <1>3, <1>4, SameAsks, MoveKeepsCInv

(* A step that brings blocks.                                              *)
LEMMA AnswerKeepsCInv ==
    ASSUME CInv, [NNext]_nvars, NEW c \in Callers, CallSucceeds(c),
           UNCHANGED <<want, asked>>, base' = [base EXCEPT ![c] = 0],
           DOMAIN got' = Callers,
           \A d \in Callers \ {c} : got'[d] = got[d],
           DOMAIN got'[c] \subseteq DOMAIN want[c].numbers,
           \A i \in DOMAIN got'[c] : got'[c][i] = want[c].numbers[i]
    PROVE  CInv'
<1>1. caller \in [Callers -> CallerRecords]
  BY DEF CInv, NInv
<1>2. /\ caller[c].at = "call"
      /\ caller' = [caller EXCEPT ![c].at = "success"]
  BY DEF CallSucceeds
<1>3. caller'[c].at = "success"
  BY <1>1, <1>2 DEF CallerRecords
<1>4. /\ want' \in [Callers -> Requests \cup {Nothing}]
      /\ asked' \in [Nodes -> Seq(Nat)] /\ base' \in [Callers -> Nat]
      /\ base'[c] = 0 /\ want'[c] = want[c]
  BY DEF CInv
<1>5. \A d \in Callers \ {c} :
              /\ caller'[d] = caller[d] /\ want'[d] = want[d]
              /\ base'[d] = base[d] /\ got'[d] = got[d]
  BY <1>1, <1>2 DEF CInv
<1>6. ClientOK(c)'
  <2>1. AskedOK(c)'
    BY <1>4 DEF AskedOK
  <2>2. GotOK(c)'
    BY <1>3, <1>4 DEF GotOK
  <2>3. want[c] \in Requests
    BY <1>2 DEF CInv, ClientOK
  <2> QED
    BY <1>4, <2>1, <2>2, <2>3 DEF ClientOK
<1> QED
  BY <1>4, <1>5, <1>6, SameAsks, MoveKeepsCInv

(* A reply in its place is to the number that was asked there.             *)
LEMMA InPlaceAnswersTheNumber ==
    ASSUME CInv, NEW c \in Callers, base[c] > 0,
           NEW s, DOMAIN s = DOMAIN want[c].numbers
    PROVE  LET b == ParseBlocks(c, s)
           IN  /\ DOMAIN b \subseteq DOMAIN want[c].numbers
               /\ \A i \in DOMAIN b : b[i] = want[c].numbers[i]
<1>1. want[c].numbers \in Seq(Nat)
  BY RequestsAreSequences
<1>2. \A i \in 1 .. Len(want[c].numbers) :
          asked[caller[c].node][base[c] + i - 1] = want[c].numbers[i]
  BY DEF CInv, ClientOK, AskedOK
<1>3. DOMAIN ParseBlocks(c, s) \subseteq DOMAIN want[c].numbers
  BY DEF ParseBlocks
<1>4. ASSUME NEW i \in DOMAIN ParseBlocks(c, s)
      PROVE  ParseBlocks(c, s)[i] = want[c].numbers[i]
  <2>1. /\ i \in DOMAIN s /\ s[i].id = base[c] + i - 1
        /\ ParseBlocks(c, s)[i] = asked[caller[c].node][s[i].id]
    BY <1>4 DEF ParseBlocks, InPlace
  <2>2. i \in 1 .. Len(want[c].numbers)
    BY <1>1, <2>1
  <2> QED
    BY <1>2, <2>1, <2>2
<1> QED
  BY <1>3, <1>4

(* A caller that is not waiting for an answer has no ids, and one that is  *)
(* not returning has no blocks.                                            *)
LEMMA NoIdsNoBlocks ==
    ASSUME CInv, NEW c \in Callers
    PROVE  /\ caller[c].at # "call" => base = [base EXCEPT ![c] = 0]
           /\ caller[c].at # "success" => got[c] = << >>
           /\ caller[c].at # "idle" => want[c] \in Requests
           /\ want \in [Callers -> Requests \cup {Nothing}]
           /\ DOMAIN got = Callers
<1>1. AskedOK(c) /\ GotOK(c) /\ base \in [Callers -> Nat]
  BY DEF CInv, ClientOK
<1>2. ASSUME caller[c].at # "call" PROVE base = [base EXCEPT ![c] = 0]
  <2>1. base[c] = 0
    BY <1>1, <1>2 DEF AskedOK
  <2> QED
    BY <1>1, <2>1
<1> QED
  BY <1>1, <1>2 DEF CInv, ClientOK, GotOK

LEMMA GetBlocksKeepsCInv ==
    ASSUME CInv, NEW c \in Callers, NEW r \in Requests, GetBlocks(c, r),
           [NNext]_nvars
    PROVE  CInv'
<1>1. caller[c].at = "idle"
  BY DEF GetBlocks, CallBegin
<1>2. \A d \in Callers \ {c} : caller'[d] = caller[d]
  BY DEF GetBlocks, CallBegin, CInv, NInv
<1>3. /\ want' \in [Callers -> Requests \cup {Nothing}] /\ want'[c] = r
      /\ \A d \in Callers \ {c} : want'[d] = want[d]
  BY DEF GetBlocks, CInv
<1> QED
  BY <1>1, <1>2, <1>3, NoIdsNoBlocks, BarrenMoveKeepsCInv DEF GetBlocks

LEMMA TryKeepsCInv ==
    ASSUME CInv, NEW c \in Callers, [NNext]_nvars, UNCHANGED evars,
           IsHealthy(c) \/ \E r \in Randoms(caller[c].found) : Select(c, r)
    PROVE  CInv'
<1>1. caller[c].at = "ask"
  BY DEF IsHealthy, Select
<1>2. \A d \in Callers \ {c} : caller'[d] = caller[d]
  BY DEF IsHealthy, Select, CInv, NInv
<1> QED
  BY <1>1, <1>2, NoIdsNoBlocks, BarrenMoveKeepsCInv DEF evars

LEMMA TakeIdsKeepsCInv ==
    ASSUME CInv, NEW c \in Callers, [NNext]_nvars, TakeIds(c)
    PROVE  CInv'
<1>1. AsksStay /\ ClientOK(c)' /\ asked' \in [Nodes -> Seq(Nat)]
  BY TakeIdsKeepsClientOK
<1>2. Len(asked[caller[c].node]) + 1 \in Nat
  <2>1. caller[c].node \in Nodes
    BY DEF TakeIds, CInv, NInv, CallerOK
  <2> QED
    BY <2>1 DEF CInv
<1>3. base' \in [Callers -> Nat]
  BY <1>2 DEF TakeIds, CInv
<1>4. \A d \in Callers \ {c} :
              /\ caller'[d] = caller[d] /\ want'[d] = want[d]
              /\ base'[d] = base[d] /\ got'[d] = got[d]
  BY DEF TakeIds, nvars, CInv
<1>5. /\ want' \in [Callers -> Requests \cup {Nothing}]
      /\ DOMAIN got' = Callers
  BY DEF TakeIds, CInv
<1> QED
  BY <1>1, <1>3, <1>4, <1>5, MoveKeepsCInv

LEMMA FailKeepsCInv ==
    ASSUME CInv, NEW c \in Callers, [NNext]_nvars, CallFails(c),
           base' = [base EXCEPT ![c] = 0], UNCHANGED <<want, asked, got>>
    PROVE  CInv'
<1>1. caller[c].at = "call"
  BY DEF CallFails
<1>2. \A d \in Callers \ {c} : caller'[d] = caller[d]
  BY DEF CallFails, CInv, NInv
<1> QED
  BY <1>1, <1>2, NoIdsNoBlocks, BarrenMoveKeepsCInv

LEMMA BatchAnsweredKeepsCInv ==
    ASSUME CInv, NEW c \in Callers, [NNext]_nvars, NEW s \in BatchReplies(c),
           BatchAnswered(c, s)
    PROVE  CInv'
<1>1. want[c].numbers \in Seq(Nat)
  BY RequestsAreSequences
<1>2. DOMAIN s = DOMAIN want[c].numbers
  BY <1>1 DEF BatchReplies
<1> DEFINE b == ParseBlocks(c, s)
<1>3. /\ DOMAIN b \subseteq DOMAIN want[c].numbers
      /\ \A i \in DOMAIN b : b[i] = want[c].numbers[i]
  BY <1>2, InPlaceAnswersTheNumber DEF BatchAnswered
<1>4. /\ CallSucceeds(c) /\ UNCHANGED <<want, asked>>
      /\ base' = [base EXCEPT ![c] = 0] /\ got' = [got EXCEPT ![c] = b]
  BY DEF BatchAnswered
<1>5. /\ DOMAIN got' = Callers /\ got'[c] = b
      /\ \A d \in Callers \ {c} : got'[d] = got[d]
  BY <1>4 DEF CInv
<1> HIDE DEF b
<1> QED
  BY <1>3, <1>4, <1>5, AnswerKeepsCInv

LEMMA SingleAnsweredKeepsCInv ==
    ASSUME CInv, NEW c \in Callers, [NNext]_nvars, NEW r \in SingleReplies(c),
           SingleAnswered(c, r)
    PROVE  CInv'
<1>1. CASE r.kind # "error" /\ InPlace(c, 1, r)
  <2>1. CallSucceeds(c) /\ got' = [got EXCEPT ![c] = ParseBlocks(c, <<r>>)]
    BY <1>1 DEF SingleAnswered
  <2>2. want[c] \in Requests /\ ~ want[c].batch
    BY <2>1, NoIdsNoBlocks DEF SingleAnswered, CallSucceeds
  <2>3. want[c].numbers \in Seq(Nat) /\ Len(want[c].numbers) = 1
    BY <2>2, RequestsAssumption
  <2>4. DOMAIN <<r>> = DOMAIN want[c].numbers
    BY <2>3
  <2> DEFINE s == <<r>>
             b == ParseBlocks(c, s)
  <2>5. DOMAIN s = DOMAIN want[c].numbers
    BY <2>4
  <2>6. /\ base[c] > 0 /\ UNCHANGED <<want, asked>>
        /\ base' = [base EXCEPT ![c] = 0] /\ got' = [got EXCEPT ![c] = b]
    BY <2>1 DEF SingleAnswered
  <2> HIDE DEF s
  <2>7. /\ DOMAIN b \subseteq DOMAIN want[c].numbers
        /\ \A i \in DOMAIN b : b[i] = want[c].numbers[i]
    BY <2>5, <2>6, InPlaceAnswersTheNumber
  <2>8. /\ DOMAIN got' = Callers /\ got'[c] = b
        /\ \A d \in Callers \ {c} : got'[d] = got[d]
    BY <2>6 DEF CInv
  <2> HIDE DEF b
  <2> QED
    BY <2>1, <2>6, <2>7, <2>8, AnswerKeepsCInv
<1>2. CASE ~ (r.kind # "error" /\ InPlace(c, 1, r))
  BY <1>2, FailKeepsCInv DEF SingleAnswered
<1> QED
  BY <1>1, <1>2

LEMMA ReturnKeepsCInv ==
    ASSUME CInv, NEW c \in Callers, [NNext]_nvars, Return(c)
    PROVE  CInv'
<1> DEFINE q == IF caller'[c].at = "idle" THEN Nothing ELSE want[c]
<1>1. /\ caller[c].at \in {"success", "failure"}
      /\ want' = [want EXCEPT ![c] = q] /\ got' = [got EXCEPT ![c] = << >>]
      /\ UNCHANGED <<asked, base>>
  BY DEF Return, RecordSuccess, RecordFailure
<1>2. \A d \in Callers \ {c} : caller'[d] = caller[d]
  BY DEF Return, RecordSuccess, RecordFailure, CInv, NInv
<1>3. q \in Requests \cup {Nothing} /\ (caller'[c].at # "idle" => q \in Requests)
  BY <1>1, NoIdsNoBlocks
<1>4. base' = [base EXCEPT ![c] = 0]
  BY <1>1, NoIdsNoBlocks
<1> HIDE DEF q
<1>5. /\ want' \in [Callers -> Requests \cup {Nothing}] /\ want'[c] = q
      /\ \A d \in Callers \ {c} : want'[d] = want[d]
  BY <1>1, <1>3 DEF CInv
<1>6. caller'[c].at # "idle" => want'[c] \in Requests
  BY <1>3, <1>5
<1>7. /\ asked' = asked /\ DOMAIN got' = Callers /\ got'[c] = << >>
      /\ \A d \in Callers \ {c} : got'[d] = got[d]
  BY <1>1 DEF CInv
<1>8. \A d \in Callers \ {c} : want'[d] = want[d]
  BY <1>5
<1>9. want' \in [Callers -> Requests \cup {Nothing}]
  BY <1>5
<1> QED
  BY <1>2, <1>4, <1>6, <1>7, <1>8, <1>9, BarrenMoveKeepsCInv

LEMMA CInvInductive == CInv /\ [Next]_vars => CInv'
<1> SUFFICES ASSUME CInv, [Next]_vars PROVE CInv'
  OBVIOUS
<1>1. [NNext]_nvars
  BY StepsThroughManager
<1>2. ASSUME NEW c \in Callers, ClientStep(c) PROVE CInv'
  BY <1>1, <1>2, TryKeepsCInv, TakeIdsKeepsCInv, BatchAnsweredKeepsCInv,
     SingleAnsweredKeepsCInv, FailKeepsCInv, ReturnKeepsCInv
     DEF ClientStep, NotAnswered
<1>3. ASSUME NEW c \in Callers, NEW r \in Requests, GetBlocks(c, r)
      PROVE  CInv'
  BY <1>1, <1>3, GetBlocksKeepsCInv
<1>4. ASSUME UNCHANGED <<caller, evars>> PROVE CInv'
  <2>1. UNCHANGED <<caller, want, asked, base, got>>
    BY <1>4 DEF evars
  <2>2. \A c \in Callers : ClientOK(c)'
    BY <2>1, SameAsks, StayersKeepClientOK
  <2>3. NInv'
    BY <1>1, NInvInductive DEF CInv
  <2> QED
    BY <2>1, <2>2, <2>3 DEF CInv
<1>5. CASE HealthStep
  BY <1>4, <1>5 DEF HealthStep, CheckStep, CheckStart, CheckLock,
     CheckFailedRead, CheckFailedWrite, CheckAnswered, byChecker
<1>6. CASE UNCHANGED vars
  BY <1>4, <1>6 DEF vars, nvars
<1> QED
  BY <1>2, <1>3, <1>5, <1>6 DEF Next

(* BatchGetBlocks (evm_client.go 165) and GetBlock (line 39) give a caller *)
(* only blocks of the numbers it asked for, each in its place, for any     *)
(* number of callers at a node and any order of the replies: the ids that  *)
(* http_client.go compares (lines 125 and 215) were taken for these        *)
(* numbers and are not given to another call.                              *)
THEOREM CallersGetTheirBlocks == Spec => []BlocksWereAsked
<1>1. CInv => BlocksWereAsked
  BY DEF CInv, ClientOK, GotOK, BlocksWereAsked
<1> QED
  BY CInitially, CInvInductive, <1>1, PTL DEF Spec

=============================================================================
