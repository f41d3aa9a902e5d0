----------------------------- MODULE EvmClient -----------------------------
(***************************************************************************)
(* internal/node/evm_client.go and http_client.go on top of NodeManager:   *)
(* how a request for blocks becomes JSON-RPC requests with ids and how the *)
(* replies become blocks.                                                  *)
(*                                                                         *)
(* Every node has one HTTPClient, which numbers its requests from 1.  A    *)
(* node answers the requests of a batch in any order; a proxy in front of  *)
(* it may answer a single request with the reply to another one.  An error *)
(* of one request of a batch, or a reply that is not in its place, is not  *)
(* an error of the batch: it is a value that parseBlock rejects, and the   *)
(* block is left out.                                                      *)
(***************************************************************************)
EXTENDS NodeManager

CONSTANTS Requests   \* [batch, numbers]: GetBlock or BatchGetBlocks of these

ASSUME RequestsAssumption ==
    \A r \in Requests :
        /\ r.batch \in BOOLEAN
        /\ r.numbers \in Seq(Nat)
        /\ ~ r.batch => Len(r.numbers) = 1

VARIABLES want,    \* the request of each caller
          asked,   \* block numbers asked of each node, by request id
          base,    \* id of the first request sent by each caller, or 0
          got      \* blocks its call has brought, by place in the request

evars == <<want, asked, base, got>>
vars  == <<nvars, evars>>

Nothing == [batch |-> FALSE, numbers |-> << >>]

Init ==
    /\ NInit
    /\ want = [c \in Callers |-> Nothing]
    /\ asked = [n \in Nodes |-> << >>]
    /\ base = [c \in Callers |-> 0]
    /\ got = [c \in Callers |-> << >>]

(* GetBlock and BatchGetBlocks.                                            *)
GetBlocks(c, r) ==
    /\ CallBegin(c)
    /\ want' = [want EXCEPT ![c] = r]
    /\ UNCHANGED <<asked, base, got>>

(* Call and BatchCall of HTTPClient take their ids under its mutex.        *)
TakeIds(c) ==
    LET n == caller[c].node
    IN  /\ caller[c].at = "call"
        /\ base[c] = 0
        /\ base' = [base EXCEPT ![c] = Len(asked[n]) + 1]
        /\ asked' = [asked EXCEPT ![n] = @ \o want[c].numbers]
        /\ UNCHANGED <<nvars, want, got>>

-----------------------------------------------------------------------------
(* A reply has the id of its request and brings a block, an error, or null *)
(* for a block that the node does not have.                                *)
Replies(ids) == [id : ids, kind : {"block", "error", "null"}]

(* The ids of a batch.                                                     *)
Ids(c) == base[c] .. base[c] + Len(want[c].numbers) - 1

(* Replies to a batch in any order.                                        *)
BatchReplies(c) ==
    { s \in [1 .. Len(want[c].numbers) -> Replies(Ids(c))] :
         \A i, j \in DOMAIN s : i # j => s[i].id # s[j].id }

(* A reply to a single request, or to an earlier one of the same client.   *)
SingleReplies(c) == Replies(1 .. base[c])

(* Mutant of InPlace: the id of a reply is not compared.                   *)
InPlaceUnchecked(c, i, r) == TRUE

(* The reply at place i must have the id of request i.                     *)
InPlace(c, i, r) == r.id = base[c] + i - 1

(* The blocks that parseBlock finds in the results, in their places: the   *)
(* loop appends them in that order and leaves the other places out.        *)
ParseBlocks(c, s) ==
    [i \in { j \in DOMAIN s : s[j].kind = "block" /\ InPlace(c, j, s[j]) } |->
        asked[caller[c].node][s[i].id]]

BatchAnswered(c, s) ==
    /\ base[c] > 0
    /\ want[c].batch
    /\ CallSucceeds(c)
    /\ got' = [got EXCEPT ![c] = ParseBlocks(c, s)]
    /\ base' = [base EXCEPT ![c] = 0]
    /\ UNCHANGED <<want, asked>>

(* A single call: an error reply and another id are errors of the call,    *)
(* which the next node is asked again; null is a result.                   *)
SingleAnswered(c, r) ==
    /\ base[c] > 0
    /\ ~ want[c].batch
    /\ IF r.kind # "error" /\ InPlace(c, 1, r)
       THEN /\ CallSucceeds(c)
            /\ got' = [got EXCEPT ![c] = ParseBlocks(c, <<r>>)]
       ELSE CallFails(c) /\ UNCHANGED got
    /\ base' = [base EXCEPT ![c] = 0]
    /\ UNCHANGED <<want, asked>>

(* No answer in time, another status than 200, a body that cannot be       *)
(* parsed, fewer replies than requests.                                    *)
NotAnswered(c) ==
    /\ base[c] > 0
    /\ CallFails(c)
    /\ base' = [base EXCEPT ![c] = 0]
    /\ UNCHANGED <<want, asked, got>>

(* The call returns its blocks, or an error.                               *)
Return(c) ==
    /\ RecordSuccess(c) \/ RecordFailure(c)
    /\ want' = [want EXCEPT ![c] = IF caller'[c].at = "idle" THEN Nothing ELSE @]
    /\ got' = [got EXCEPT ![c] = << >>]
    /\ UNCHANGED <<asked, base>>

-----------------------------------------------------------------------------
ClientStep(c) ==
    \/ /\ IsHealthy(c) \/ \E r \in Randoms(caller[c].found) : Select(c, r)
       /\ UNCHANGED evars
    \/ TakeIds(c)
    \/ \E s \in BatchReplies(c) : BatchAnswered(c, s)
    \/ \E r \in SingleReplies(c) : SingleAnswered(c, r)
    \/ NotAnswered(c)
    \/ Return(c)

HealthStep ==
    /\ \E k \in Checkers : CheckStep(k) \/ \E n \in Nodes : CheckStart(k, n)
    /\ UNCHANGED evars

Next ==
    \/ \E c \in Callers : ClientStep(c) \/ \E r \in Requests : GetBlocks(c, r)
    \/ HealthStep

Spec == Init /\ [][Next]_vars

(* Calls under way go on: a request has a timeout.                         *)
FairSpec == Spec /\ \A c \in Callers : WF_vars(ClientStep(c))

-----------------------------------------------------------------------------
(* A call brings only blocks that it asked for, each in the place of its   *)
(* request, in whatever order the node answers and whatever other calls    *)
(* run through the same client: a worker never saves the block of another  *)
(* height or of another task.                                              *)
BlocksWereAsked ==
    \A c \in Callers :
        /\ DOMAIN got[c] \subseteq DOMAIN want[c].numbers
        /\ \A i \in DOMAIN got[c] : got[c][i] = want[c].numbers[i]

=============================================================================
