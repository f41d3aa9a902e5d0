----------------------------- MODULE NodeManager -----------------------------
(***************************************************************************)
(* internal/node/node_manager.go: calls with failover over the RPC nodes   *)
(* of a chain, and the health checks that run beside them.  Call and       *)
(* BatchCall have the same control.                                        *)
(*                                                                         *)
(* A node's mutex is held by a health check, or for one step by a reader.  *)
(* checkNode calls updateAvgResponseTime, which locks the mutex that       *)
(* checkNode holds: Go's mutexes are not reentrant, so the check stops     *)
(* there and nothing after that call (the changes of healthy) is reached.  *)
(* So every node stays healthy, and GetHealthyNode always finds one.       *)
(***************************************************************************)
EXTENDS Integers, Sequences, FiniteSets

CONSTANTS N,          \* number of nodes
          Weights,    \* configurations: sequences of N weights
          Callers,
          Checkers,   \* bound: goroutines of checkNode; none when disabled
          MaxTries,   \* maxRetries: 3
          MaxCalls,   \* bound: calls, or the value Unbounded
          Unbounded,
          NoOne       \* a mutex is free

Nodes == 1 .. N

ASSUME NodeAssumption ==
    /\ N \in Nat \ {0}
    /\ \A w \in Weights : Len(w) = N /\ \A n \in Nodes : w[n] \in Nat
    /\ MaxTries \in Nat \ {0}
    /\ NoOne \notin Checkers

VARIABLES weight,    \* Weight of each node
          healthy,
          mu,        \* the check that holds the mutex of each node
          failures,  \* failureCount
          caller,    \* callWithRetry of each caller
          checker,   \* checkNode of each checker
          calls,     \* number of calls so far
          counted    \* ghost: what failureCount should be

nvars == <<weight, healthy, mu, failures, caller, checker, calls, counted>>

IdleCaller == [at |-> "idle", next |-> 1, found |-> << >>, node |-> 0,
               tries |-> 0]

IdleChecker == [at |-> "idle", node |-> 1, read |-> 0]

NInit ==
    /\ weight \in Weights
    /\ healthy = [n \in Nodes |-> TRUE]
    /\ mu = [n \in Nodes |-> NoOne]
    /\ failures = [n \in Nodes |-> 0]
    /\ caller = [c \in Callers |-> IdleCaller]
    /\ checker = [k \in Checkers |-> IdleChecker]
    /\ calls = 0
    /\ counted = [n \in Nodes |-> 0]

-----------------------------------------------------------------------------
(* selectNodeByWeight: the random number r picks the first node at which   *)
(* the running sum of the weights exceeds it.                              *)

Sums(ns) ==
    LET sum[i \in 0 .. Len(ns)] ==
            IF i = 0 THEN 0 ELSE sum[i - 1] + weight[ns[i]]
    IN  sum

Total(ns) == Sums(ns)[Len(ns)]

(* Mutant of Picks: the sum may equal the number.                          *)
PicksTooEarly(ns, r, i) ==
    /\ r <= Sums(ns)[i]
    /\ \A j \in 1 .. i - 1 : r > Sums(ns)[j]

Picks(ns, r, i) ==
    /\ r < Sums(ns)[i]
    /\ \A j \in 1 .. i - 1 : r >= Sums(ns)[j]

SelectNodeByWeight(ns, r) ==
    IF Total(ns) = 0
       THEN ns[1]
       ELSE ns[CHOOSE i \in DOMAIN ns : Picks(ns, r, i)]

(* Mutant of Randoms: no early return for a total of 0, for which rand.Int *)
(* gives no number.                                                        *)
RandomsUnguarded(ns) == 0 .. Total(ns) - 1

Randoms(ns) == IF Total(ns) = 0 THEN {0} ELSE 0 .. Total(ns) - 1

-----------------------------------------------------------------------------
(* callWithRetry and GetHealthyNode.                                       *)

byCaller == <<weight, healthy, mu, checker>>

CallBegin(c) ==
    /\ caller[c].at = "idle"
    /\ MaxCalls = Unbounded \/ calls < MaxCalls
    /\ calls' = IF MaxCalls = Unbounded THEN calls ELSE calls + 1
    /\ caller' = [caller EXCEPT ![c].at = "ask"]
    /\ UNCHANGED <<byCaller, failures, counted>>

(* IsHealthy of the next node, under RLock of its mutex.                   *)
IsHealthy(c) ==
    LET n == caller[c].next
    IN  /\ caller[c].at = "ask"
        /\ n <= N
        /\ mu[n] = NoOne
        /\ caller' = [caller EXCEPT ![c].next = n + 1,
                          ![c].found = IF healthy[n] THEN Append(@, n) ELSE @]
        /\ UNCHANGED <<byCaller, failures, calls, counted>>

Select(c, r) ==
    /\ caller[c].at = "ask"
    /\ caller[c].next > N
    /\ r \in Randoms(caller[c].found)
    /\ caller' = [caller EXCEPT ![c].at = "call",
                      ![c].node = SelectNodeByWeight(caller[c].found, r)]
    /\ UNCHANGED <<byCaller, failures, calls, counted>>

CallSucceeds(c) ==
    /\ caller[c].at = "call"
    /\ caller' = [caller EXCEPT ![c].at = "success"]
    /\ UNCHANGED <<byCaller, failures, calls, counted>>

(* RecordFailure counts atomically, before it takes the mutex.             *)
CallFails(c) ==
    LET n == caller[c].node
    IN  /\ caller[c].at = "call"
        /\ failures' = [failures EXCEPT ![n] = @ + 1]
        /\ counted' = [counted EXCEPT ![n] = @ + 1]
        /\ caller' = [caller EXCEPT ![c].at = "failure"]
        /\ UNCHANGED <<byCaller, calls>>

(* RecordSuccess takes the mutex for lastCheck, and the call returns.      *)
RecordSuccess(c) ==
    /\ caller[c].at = "success"
    /\ mu[caller[c].node] = NoOne
    /\ caller' = [caller EXCEPT ![c] = IdleCaller]
    /\ UNCHANGED <<byCaller, failures, calls, counted>>

(* Mutant of NextTry: one try too many.                                    *)
NextTryOnceMore(tries) ==
    IF tries + 1 <= MaxTries
       THEN [IdleCaller EXCEPT !.at = "ask", !.tries = tries + 1]
       ELSE IdleCaller

(* The next round of the loop, or the error that all nodes failed.         *)
NextTry(tries) ==
    IF tries + 1 < MaxTries
       THEN [IdleCaller EXCEPT !.at = "ask", !.tries = tries + 1]
       ELSE IdleCaller

RecordFailure(c) ==
    /\ caller[c].at = "failure"
    /\ mu[caller[c].node] = NoOne
    /\ caller' = [caller EXCEPT ![c] = NextTry(@.tries)]
    /\ UNCHANGED <<byCaller, failures, calls, counted>>

-----------------------------------------------------------------------------
(* HealthChecker: checkAllNodes starts a goroutine per node and tick.      *)

byChecker == <<weight, healthy, caller, calls>>

CheckStart(k, n) ==
    /\ checker[k].at = "idle"
    /\ checker' = [checker EXCEPT ![k] = [at |-> "call", node |-> n,
                                          read |-> 0]]
    /\ UNCHANGED <<byChecker, mu, failures, counted>>

(* The reply or the timeout, and node.mu.Lock.                             *)
CheckLock(k) ==
    LET n == checker[k].node
    IN  /\ checker[k].at = "call"
        /\ mu[n] = NoOne
        /\ mu' = [mu EXCEPT ![n] = k]
        /\ \E s \in {"failed", "answered"} :
              checker' = [checker EXCEPT ![k].at = s]
        /\ UNCHANGED <<byChecker, failures, counted>>

(* node.failureCount++ is a read and a write.                              *)
CheckFailedRead(k) ==
    /\ checker[k].at = "failed"
    /\ checker' = [checker EXCEPT ![k].at = "write",
                                  ![k].read = failures[checker[k].node]]
    /\ UNCHANGED <<byChecker, mu, failures, counted>>

(* Then updateAvgResponseTime waits for the mutex held here.               *)
CheckFailedWrite(k) ==
    LET n == checker[k].node
    IN  /\ checker[k].at = "write"
        /\ failures' = [failures EXCEPT ![n] = checker[k].read + 1]
        /\ counted' = [counted EXCEPT ![n] = @ + 1]
        /\ checker' = [checker EXCEPT ![k].at = "average"]
        /\ UNCHANGED <<byChecker, mu>>

CheckAnswered(k) ==
    LET n == checker[k].node
    IN  /\ checker[k].at = "answered"
        /\ failures' = [failures EXCEPT ![n] = 0]
        /\ counted' = [counted EXCEPT ![n] = 0]
        /\ checker' = [checker EXCEPT ![k].at = "average"]
        /\ UNCHANGED <<byChecker, mu>>

-----------------------------------------------------------------------------

CallStep(c) == \/ IsHealthy(c)
               \/ \E r \in Randoms(caller[c].found) : Select(c, r)
               \/ CallSucceeds(c) \/ CallFails(c)
               \/ RecordSuccess(c) \/ RecordFailure(c)

CheckStep(k) == \/ CheckLock(k) \/ CheckFailedRead(k)
                \/ CheckFailedWrite(k) \/ CheckAnswered(k)

NNext == \/ \E c \in Callers : CallBegin(c) \/ CallStep(c)
         \/ \E k \in Checkers : CheckStep(k) \/ \E n \in Nodes : CheckStart(k, n)

NSpec == NInit /\ [][NNext]_nvars

(* Calls and checks under way go on: a request has a timeout.              *)
NFairSpec == /\ NSpec
             /\ \A c \in Callers : WF_nvars(CallStep(c))
             /\ \A k \in Checkers : WF_nvars(CheckStep(k))

-----------------------------------------------------------------------------

NTypeOK ==
    /\ weight \in Weights
    /\ healthy \in [Nodes -> BOOLEAN]
    /\ mu \in [Nodes -> Checkers \cup {NoOne}]
    /\ failures \in [Nodes -> Nat]
    /\ \A c \in Callers :
          /\ caller[c].at \in {"idle", "ask", "call", "success", "failure"}
          /\ caller[c].next \in 1 .. N + 1
          /\ Len(caller[c].found) < caller[c].next
          /\ caller[c].node \in 0 .. N
          /\ caller[c].tries \in 0 .. MaxTries - 1
    /\ \A k \in Checkers :
          /\ checker[k].at \in {"idle", "call", "failed", "answered", "write",
                                "average"}
          /\ checker[k].node \in Nodes

(* Weighted choice: of the equally likely random numbers as many pick a    *)
(* node as its weight says, so a node of weight 0 is never chosen beside   *)
(* one that has a weight.                                                  *)
SelectionIsProportional ==
    \A c \in Callers : LET ns == caller[c].found
                       IN  Total(ns) > 0 =>
        \A i \in DOMAIN ns :
            Cardinality({ r \in Randoms(ns) : SelectNodeByWeight(ns, r) = ns[i] })
               = weight[ns[i]]

(* A call returns, with a result or with an error after MaxTries nodes     *)
(* have failed, however calls and failures interleave, until a health      *)
(* check keeps the mutex of a node.                                        *)
CallsReturnUnchecked ==
    \A c \in Callers :
        caller[c].at # "idle" ~>
            caller[c].at = "idle" \/ \E n \in Nodes : mu[n] # NoOne

(* node_manager.go 53: health checks and failover together.  A call        *)
(* returns beside health checks, too.                                      *)
CallsReturn ==
    \A c \in Callers : caller[c].at # "idle" ~> caller[c].at = "idle"

(* DESIGN 223: nodes that fail are isolated.  After a failed health check  *)
(* that brings the count to FailureThreshold = 1 the node is not healthy.  *)
FailingNodeIsolated ==
    \A k \in Checkers :
        checker[k].at = "failed" ~> ~ healthy[checker[k].node]

(* Comment at 71: failureCount is counted by atomic operations.  None is   *)
(* lost.                                                                   *)
CountsAreAtomic ==
    \A n \in Nodes :
        (\A k \in Checkers : checker[k].at = "write" => checker[k].node # n)
            => failures[n] = counted[n]

=============================================================================
