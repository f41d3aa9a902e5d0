------------------------------ MODULE Consumer ------------------------------
(***************************************************************************)
(* internal/consumer: BusinessConsumer with its idempotency handler, the   *)
(* transaction state machine and the reorg handler, over one of the stores *)
(* of the module Storage.  The consumer is given a Storage and not the     *)
(* StorageManager (which lacks UpdateTransactionStatus, DeleteBlocks and   *)
(* others), so it works on the database, on Redis or on Elasticsearch      *)
(* while the scanner saves through the manager and readers read through    *)
(* it.                                                                     *)
(*                                                                         *)
(* The state machine reads the status, validates the move and writes it in *)
(* three separate calls.  The idempotency handlers remember nothing, and   *)
(* webhook errors are ignored.  Any call to a store may fail, and a step   *)
(* that runs out of the timeout of AdvancedReorgHandler fails too.         *)
(***************************************************************************)
EXTENDS Storage

CONSTANTS Backends,  \* the stores a consumer is created with
          Rules      \* transitions <<from, to>> of a CustomStateMachine

ASSUME ConsumerAssumption ==
    /\ Backends \subseteq {"database", "elasticsearch", "redis"}
    /\ Rules \subseteq Statuses \X Statuses

(* A reorg event: the number of the new block and of the old block.  The   *)
(* chain plugins report the same number twice.                             *)
Events == Heights \X Heights

VARIABLES backend,     \* the store of this consumer
          todo,        \* the message each goroutine works on
          processing,  \* events being handled (DefaultReorgHandler.processing)
          visit,       \* blocks and transactions still to be forced
          logs         \* blocks that have logs in the database

cvars == <<backend, todo, processing, visit, logs>>
vars  == <<stvars, cvars>>

NoTodo == <<None, None>>

CInit ==
    /\ StInit
    /\ backend \in Backends
    /\ todo = [g \in Goroutines |-> NoTodo]
    /\ processing = {}
    /\ visit = [g \in Goroutines |-> {}]
    /\ logs = {h \in Heights : data[h] # None}

Begin(g, l, m) ==
    /\ Start(g)
    /\ Goto(g, l)
    /\ todo' = [todo EXCEPT ![g] = m]

-----------------------------------------------------------------------------
(* The state machine.                                                      *)

(* Mutant of ValidTransitions: a pending transaction may be finalized.     *)
ValidTransitionsHasty ==
    [s \in Statuses |-> IF s = "pending" THEN {"confirmed", "finalized", "reverted"}
                        ELSE IF s = "confirmed" THEN {"finalized", "reverted"} ELSE {}]

ValidTransitions ==
    [s \in Statuses |-> IF s = "pending" THEN {"confirmed", "reverted"}
                        ELSE IF s = "confirmed" THEN {"finalized", "reverted"} ELSE {}]

(* GetTransactionState: the JSON of the row, the document, the cache entry. *)
StateOf(t) == IF backend = "database" THEN DatabaseTransaction(data, t)
              ELSE IF backend = "elasticsearch" THEN ElasticsearchTransaction(t)
              ELSE RedisTransaction(t)

(* IsProcessed of the two idempotency handlers.                            *)
RedisIsProcessed(t) == FALSE
DatabaseIsProcessed(t) == FALSE

(* MarkProcessed logs.                                                     *)
MarkProcessed(t) == TRUE

(* ProcessTransaction of the consumer, for a message that brings           *)
(* transaction t with status s.                                            *)
ProcessTransaction(g, t, s) ==
    /\ ~ (RedisIsProcessed(t) \/ DatabaseIsProcessed(t))
    /\ Begin(g, "check", <<t, s>>)
    /\ UNCHANGED <<stores, conns, job, stored, backend, processing, visit, logs>>

Return(g) ==
    /\ Goto(g, "idle")
    /\ todo' = [todo EXCEPT ![g] = NoTodo]

(* A store that needs the master's pool waits for a connection.            *)
Connected == backend = "database" => conns > 0

(* An unknown transaction and a move that is not allowed are errors.       *)
Validate(g) ==
    LET t == todo[g][1]
        s == todo[g][2]
    IN  /\ pc[g] = "check"
        /\ Connected
        /\ \/ /\ StateOf(t) # None
              /\ s \in ValidTransitions[StateOf(t)]
              /\ Goto(g, "update")
              /\ UNCHANGED todo
           \/ Return(g)
        /\ UNCHANGED <<stores, conns, job, ops, stored, backend, processing, visit, logs>>

(* CustomStateMachine moves a transaction when one of its rules says so.   *)
FindTransitionRule(t, s) == StateOf(t) # None /\ <<StateOf(t), s>> \in Rules

CustomValidate(g) ==
    /\ pc[g] = "check"
    /\ Connected
    /\ \/ FindTransitionRule(todo[g][1], todo[g][2]) /\ Goto(g, "update") /\ UNCHANGED todo
       \/ Return(g)
    /\ UNCHANGED <<stores, conns, job, ops, stored, backend, processing, visit, logs>>

(* UpdateTransactionStatus.  The database writes the column and nothing    *)
(* else; Elasticsearch changes the field of the document, if there is one; *)
(* Redis reads the entry and writes it back in another command.            *)
DatabaseUpdates(t, s) ==
    /\ conns > 0
    /\ column' = IF data[t] = None THEN column ELSE [column EXCEPT ![t] = s]
    /\ UNCHANGED <<data, twins, slave, cache, index, recent, stored>>

ElasticsearchUpdates(t, s) ==
    /\ index[t] # None
    /\ ElasticsearchSavesTransaction(t, s)
    /\ Remember(t, s)
    /\ UNCHANGED <<column, data, twins, slave, cache>>

ExecuteStateTransition(g) ==
    LET t == todo[g][1]
        s == todo[g][2]
    IN  /\ pc[g] = "update"
        /\ MarkProcessed(t)
        /\ \/ backend = "database" /\ DatabaseUpdates(t, s) /\ Return(g)
           \/ backend = "elasticsearch" /\ ElasticsearchUpdates(t, s) /\ Return(g)
           \/ /\ backend = "redis"
              /\ cache[t] # None
              /\ Goto(g, "set")
              /\ UNCHANGED <<stores, stored, todo>>
           \/ Connected /\ Return(g) /\ UNCHANGED <<stores, stored>>
        /\ UNCHANGED <<conns, job, ops, backend, processing, visit, logs>>

(* The second half of UpdateTransactionStatus of Redis, with a new TTL.    *)
RedisUpdates(g) ==
    LET t == todo[g][1]
        s == todo[g][2]
    IN  /\ pc[g] = "set"
        /\ RedisSavesTransaction(t, s)
        /\ Remember(t, s)
        /\ Return(g)
        /\ UNCHANGED <<column, data, twins, slave, index, recent, conns, job, ops,
                       backend, processing, visit, logs>>

-----------------------------------------------------------------------------
(* The reorg handler.                                                      *)

(* Mutant of HandleReorg: the map is not consulted.                        *)
HandleReorgUnchecked(g, e) ==
    /\ Begin(g, "validate", e)
    /\ processing' = processing \cup {e}
    /\ UNCHANGED <<stores, conns, job, stored, backend, visit, logs>>

(* An event being handled is refused; the map is read and written under    *)
(* one lock.                                                               *)
HandleReorg(g, e) ==
    /\ e \notin processing
    /\ Begin(g, "validate", e)
    /\ processing' = processing \cup {e}
    /\ UNCHANGED <<stores, conns, job, stored, backend, visit, logs>>

(* The deferred function takes the event out of the map.                   *)
EndReorg(g) ==
    /\ Return(g)
    /\ processing' = processing \ {todo[g]}

(* GetBlockByHash: is there a block with the new hash?  Elasticsearch      *)
(* looks for a field block_hash, which documents of blocks do not have,    *)
(* and Redis does not support the call.                                    *)
DatabaseHasHash(e) == data[e[1]] = "new" \/ e[1] \in twins
ElasticsearchHasHash(e) == FALSE
RedisHasHash(e) == FALSE

NewBlockFound(e) ==
    \/ backend = "database" /\ DatabaseHasHash(e)
    \/ backend = "elasticsearch" /\ ElasticsearchHasHash(e)
    \/ backend = "redis" /\ RedisHasHash(e)

ValidateReorgEvent(g) ==
    /\ pc[g] = "validate"
    /\ Connected
    /\ \/ NewBlockFound(todo[g]) /\ Goto(g, "mark") /\ UNCHANGED <<todo, processing>>
       \/ EndReorg(g)
    /\ UNCHANGED <<stores, conns, job, ops, stored, backend, visit, logs>>

MarkAffected(g) ==
    /\ pc[g] = "mark"
    /\ conns > 0
    /\ \/ /\ DatabaseMarks(todo[g][1], todo[g][2])
          /\ Goto(g, "force")
          /\ visit' = [visit EXCEPT ![g] = HeightsIn(todo[g][1], todo[g][2])]
          /\ UNCHANGED <<todo, processing>>
       \/ EndReorg(g) /\ UNCHANGED <<stores, stored, visit>>
    /\ UNCHANGED <<conns, job, ops, backend, logs>>

(* The rows of a block.                                                    *)
GetTransactionsByBlock(h) == {t \in Txs : BlockOf[t] = h /\ data[t] # None}

(* GetTransactionsByBlock of the lowest block left; an error is logged.    *)
ForceBlock(g) ==
    /\ pc[g] = "force"
    /\ visit[g] # {} /\ visit[g] \subseteq Heights
    /\ conns > 0
    /\ LET h == CHOOSE x \in visit[g] : \A y \in visit[g] : x <= y
       IN  \E ts \in {{}, GetTransactionsByBlock(h)} :
              visit' = [visit EXCEPT ![g] = (@ \ {h}) \cup ts]
    /\ UNCHANGED <<stvars, backend, todo, processing, logs>>

(* One transaction of the block is forced; an error is logged.             *)
ForceSetState(g) ==
    /\ pc[g] = "force"
    /\ conns > 0
    /\ \E t \in visit[g] \cap Txs :
          /\ column' \in {column, [column EXCEPT ![t] = "reverted"]}
          /\ visit' = [visit EXCEPT ![g] = @ \ {t}]
    /\ UNCHANGED <<data, twins, slave, cache, index, recent, conns, pc, job, ops, stored,
                   backend, todo, processing, logs>>

(* revertBusinessData reads and changes nothing.  AdvancedReorgHandler may *)
(* be configured not to clean.                                             *)
RevertBusinessData(g) ==
    /\ pc[g] = "force"
    /\ visit[g] = {}
    /\ Goto(g, "clean") \/ Goto(g, "event")
    /\ UNCHANGED <<stores, conns, job, ops, stored, cvars>>

CleanupReorgData(g) ==
    /\ pc[g] = "clean"
    /\ conns > 0
    /\ \/ /\ DatabaseDeletes(todo[g][1], todo[g][2])
          /\ Goto(g, "logs")
          /\ UNCHANGED <<todo, processing>>
       \/ EndReorg(g) /\ UNCHANGED <<stores, stored>>
    /\ UNCHANGED <<conns, job, ops, backend, visit, logs>>

DeleteLogs(g) ==
    /\ pc[g] = "logs"
    /\ conns > 0
    /\ \/ /\ logs' = logs \ HeightsIn(todo[g][1], todo[g][2])
          /\ Goto(g, "event")
          /\ UNCHANGED <<todo, processing>>
       \/ EndReorg(g) /\ UNCHANGED logs
    /\ UNCHANGED <<stores, conns, job, ops, stored, backend, visit>>

(* SaveReorgEvent appends a row for the processed event, or fails; the     *)
(* call is over.                                                           *)
MarkReorgEventAsProcessed(g) ==
    /\ pc[g] = "event"
    /\ conns > 0
    /\ EndReorg(g)
    /\ UNCHANGED <<stores, conns, job, ops, stored, backend, visit, logs>>

(* The scanner saves the logs of a block straight in the database.         *)
SaveLogs(g, h) ==
    /\ Start(g)
    /\ conns > 0
    /\ logs' = logs \cup {h}
    /\ UNCHANGED <<stores, conns, pc, job, stored, backend, todo, processing, visit>>

-----------------------------------------------------------------------------
ConsumerStart(g) ==
    \/ \E t \in Txs, s \in Statuses : ProcessTransaction(g, t, s)
    \/ \E e \in Events : HandleReorg(g, e)
    \/ \E h \in Heights : SaveLogs(g, h)

ConsumerStep(g) ==
    \/ Validate(g) \/ CustomValidate(g) \/ ExecuteStateTransition(g) \/ RedisUpdates(g)
    \/ ValidateReorgEvent(g) \/ MarkAffected(g) \/ ForceBlock(g)
    \/ ForceSetState(g) \/ RevertBusinessData(g) \/ CleanupReorgData(g) \/ DeleteLogs(g)
    \/ MarkReorgEventAsProcessed(g)

Work(g) == (ManagerStep(g) /\ UNCHANGED cvars) \/ ConsumerStep(g)

(* Nothing more happens when the operations of the bound are done and the  *)
(* stores have settled.                                                    *)
Next ==
    \/ \E g \in Goroutines :
          Work(g) \/ ConsumerStart(g) \/ (ManagerStart(g) /\ UNCHANGED cvars)
    \/ StoresStep /\ UNCHANGED cvars

Spec == CInit /\ [][Next]_vars

(* A goroutine that is not waiting for a connection goes on; Redis expires *)
(* its entries, the replica follows the master.                            *)
FairSpec ==
    /\ Spec
    /\ \A g \in Goroutines : WF_vars(Work(g))
    /\ \A i \in Items : WF_vars(RedisExpires(i) /\ UNCHANGED cvars)
    /\ WF_vars(Replicates /\ UNCHANGED cvars)

-----------------------------------------------------------------------------
Labels == {"idle", "master", "select", "row", "commit", "cache", "index", "check", "update", "set",
           "validate", "mark", "force", "clean", "logs", "event"}

Handling == {"validate", "mark", "force", "clean", "logs", "event"}

(* The goroutine has a transaction of the master open.                     *)
InBatch(g) == pc[g] \in {"master", "select", "row", "commit"} /\ job[g].batch

(* Every variable has its type; the connections missing from the master's  *)
(* pool are those of open batches and of SELECTs under way, and the events *)
(* in the map of the reorg handler are those that a goroutine is handling. *)
CTypeOK ==
    /\ column \in [Txs -> Statuses \cup {None}]
    /\ data \in [Items -> Statuses \cup Branches \cup {None}]
    /\ slave \in [Items -> Statuses \cup Branches \cup {None}]
    /\ cache \in [Items -> Statuses \cup Branches \cup {None}]
    /\ index \in [Items -> Statuses \cup Branches \cup {None}]
    /\ recent \subseteq Items
    /\ twins \subseteq Heights
    /\ conns = MaxOpenConns - Cardinality({g \in Goroutines : InBatch(g)})
                            - Cardinality({g \in Goroutines : pc[g] = "select"})
    /\ pc \in [Goroutines -> Labels]
    /\ processing = {todo[g] : g \in {k \in Goroutines : pc[k] \in Handling}}
    /\ logs \subseteq Heights

(* One goroutine at a time handles an event, however often it is delivered *)
(* and whichever step fails (HandleReorg, DefaultReorgHandler.processing). *)
OneHandlerPerEvent ==
    \A g, k \in Goroutines :
        g # k /\ pc[g] \in Handling /\ pc[k] \in Handling => todo[g] # todo[k]

(* No transaction is finalized, in the store the state machine works on,   *)
(* that was not confirmed before, although the status is read in one call  *)
(* and written in a later one, and the scanner saves in between.           *)
FinalizedWasConfirmed ==
    \A t \in Txs :
        LET now == IF backend = "database" THEN column[t] ELSE StateOf(t)
        IN  now = "finalized" => "confirmed" \in stored[t]

(* What readers of StorageManager are told was taken by a store before:    *)
(* the cache and the index get no value whose save failed in the master,   *)
(* through partial batches, concurrent saves and lost answers.             *)
Weak == INSTANCE WeakStore WITH view <- [i \in Items |-> Read(i)]

ImplementsWeakStore == Weak!Spec

(* When the writers are silent, the readers come to see what the master    *)
(* holds: stale entries of the cache expire and nothing brings them back.  *)
ReadersConverge == <>[](\A i \in Items : Read(i) = data[i])

(* Every operation returns: with one connection more than there are        *)
(* batches, a batch that waits for a second connection gets it, although   *)
(* the SELECT of another one may hold the last.                            *)
OperationsReturn == \A g \in Goroutines : []<>(pc[g] = "idle")

(* MarkTransactionsAsReverted "标记交易为已回滚" (storage.go, line 377): a   *)
(* transaction marked as reverted comes to be read as reverted.            *)
RevertedIsRead ==
    (\E t \in Txs : column[t] = "reverted" /\ data[t] # None)
        ~> (\A t \in Txs : column[t] = "reverted" => Read(t) = "reverted")

(* "使用 ON DUPLICATE KEY UPDATE 处理重复插入" (database.go, lines 194 and     *)
(* 313): a save that goes through leaves its value in the row.             *)
SavesReplaceRows ==
    [][\A g \in Goroutines :
          MasterSaves(g) => data'[Head1(g)[1]] = Head1(g)[2]]_vars

(* "Reverted 状态不能转换到其他状态": the state machine never moves a        *)
(* transaction out of a terminal status.                                   *)
TerminalIsFinal ==
    [][\A g \in Goroutines, t \in Txs :
          /\ backend = "database"
          /\ pc[g] = "update"
          /\ pc'[g] = "idle"
          /\ column[t] \in {"finalized", "reverted"}
          => column'[t] = column[t]]_vars
=============================================================================
