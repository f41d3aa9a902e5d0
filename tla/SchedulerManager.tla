--------------------------- MODULE SchedulerManager ---------------------------
(***************************************************************************)
(* internal/scheduler/scheduler_manager.go: the map from chains to their   *)
(* scanners and the goroutines that start, stop, restart, add and remove   *)
(* scanners or ask for their status.  main calls Start and, at shutdown,   *)
(* Stop; the rest is the interface of the manager.                         *)
(*                                                                         *)
(* A section under RLock blocks on nothing else and is one step.  Add and  *)
(* Remove hold mu while they start or stop a scanner.  A scanner's Start   *)
(* returns at once; its Stop does, too, when it is not running, and        *)
(* otherwise never: that is what module ScannerLifecycle finds.            *)
(***************************************************************************)
EXTENDS Naturals

CONSTANTS Callers,
          Chains,
          Configured,  \* chains whose scanner NewSchedulerManager created
          Scanners,    \* bound: scanner objects that can be created
          None         \* no scanner, no caller, no chain

ASSUME ManagerAssumption ==
    /\ Configured \subseteq Chains
    /\ None \notin Callers \cup Chains \cup Scanners

VARIABLES map,      \* m.scanners
          mu,       \* the writer that holds m.mu
          chain,    \* chain of each scanner created so far
          running,  \* its status.Running
          pc,       \* control state of each caller
          todo,     \* scanners a caller has copied from the map
          arg,      \* chain a caller adds or removes
          removed   \* ghost: scanners that RemoveScanner has removed

gvars == <<map, mu, chain, running, pc, todo, arg, removed>>

CallerStates == {"idle", "starting", "stopping", "restarting", "adding",
                 "storing", "removing", "asking", "hung"}

Created == { s \in Scanners : chain[s] # None }

GInit ==
    /\ map \in [Chains -> Scanners \cup {None}]
    /\ \A c \in Chains : map[c] # None <=> c \in Configured
    /\ \A c, d \in Configured : map[c] = map[d] => c = d
    /\ chain \in [Scanners -> Chains \cup {None}]
    /\ \A s \in Scanners, c \in Chains : chain[s] = c <=> map[c] = s
    /\ mu = None
    /\ running = [s \in Scanners |-> FALSE]
    /\ pc = [p \in Callers |-> "idle"]
    /\ todo = [p \in Callers |-> {}]
    /\ arg = [p \in Callers |-> None]
    /\ removed = {}

Goto(p, s) == pc' = [pc EXCEPT ![p] = s]

Listed == { map[c] : c \in Chains } \ {None}

(* Start, Stop and RestartScanner copy what they need and give mu back.    *)
Copy(p, s, set) ==
    /\ pc[p] = "idle"
    /\ mu = None
    /\ Goto(p, s)
    /\ todo' = [todo EXCEPT ![p] = set]
    /\ UNCHANGED <<map, mu, chain, running, arg, removed>>

CallStart(p) == Copy(p, "starting", Listed)
CallStop(p) == Copy(p, "stopping", Listed)
CallRestart(p, c) == map[c] # None /\ Copy(p, "restarting", {map[c]})

(* ChainScanner.Start of a copied scanner; an error when it runs already.  *)
StartOne(p, s) ==
    /\ pc[p] = "starting"
    /\ s \in todo[p]
    /\ running' = [running EXCEPT ![s] = TRUE]
    /\ todo' = [todo EXCEPT ![p] = @ \ {s}]
    /\ UNCHANGED <<map, mu, chain, pc, arg, removed>>

(* ChainScanner.Stop of a copied scanner.                                  *)
StopOne(p, s) ==
    /\ pc[p] = "stopping"
    /\ s \in todo[p]
    /\ todo' = [todo EXCEPT ![p] = @ \ {s}]
    /\ running' = [running EXCEPT ![s] = FALSE]
    /\ Goto(p, IF running[s] THEN "hung" ELSE pc[p])
    /\ UNCHANGED <<map, mu, chain, arg, removed>>

(* RestartScanner: Stop, and then Start when Stop returned.                *)
RestartOne(p, s) ==
    /\ pc[p] = "restarting"
    /\ s \in todo[p]
    /\ running' = [running EXCEPT ![s] = FALSE]
    /\ Goto(p, IF running[s] THEN "hung" ELSE "starting")
    /\ UNCHANGED <<map, mu, chain, todo, arg, removed>>

Return(p) ==
    /\ pc[p] \in {"starting", "stopping"}
    /\ todo[p] = {}
    /\ Goto(p, "idle")
    /\ UNCHANGED <<map, mu, chain, running, todo, arg, removed>>

-----------------------------------------------------------------------------
(* AddScanner and RemoveScanner, under mu from the first step to the last. *)

(* Mutant of Lock: mu is not taken.                                        *)
LockNothing(p) == UNCHANGED mu

Lock(p) == mu = None /\ mu' = p

Unlock(p) == mu' = IF mu = p THEN None ELSE mu

CallAdd(p, c) ==
    /\ pc[p] = "idle"
    /\ Lock(p)
    /\ arg' = [arg EXCEPT ![p] = c]
    /\ Goto(p, "adding")
    /\ UNCHANGED <<map, chain, running, todo, removed>>

(* The scanner exists, or the chain has no configuration or client.        *)
AddFails(p) ==
    /\ pc[p] = "adding"
    /\ Unlock(p)
    /\ arg' = [arg EXCEPT ![p] = None]
    /\ Goto(p, "idle")
    /\ UNCHANGED <<map, chain, running, todo, removed>>

AddCreate(p, s) ==
    /\ pc[p] = "adding"
    /\ map[arg[p]] = None
    /\ chain[s] = None
    /\ chain' = [chain EXCEPT ![s] = arg[p]]
    /\ running' = [running EXCEPT ![s] = TRUE]
    /\ todo' = [todo EXCEPT ![p] = {s}]
    /\ Goto(p, "storing")
    /\ UNCHANGED <<map, mu, arg, removed>>

AddStore(p) ==
    /\ pc[p] = "storing"
    /\ \E s \in todo[p] : map' = [map EXCEPT ![arg[p]] = s]
    /\ todo' = [todo EXCEPT ![p] = {}]
    /\ arg' = [arg EXCEPT ![p] = None]
    /\ Unlock(p)
    /\ Goto(p, "idle")
    /\ UNCHANGED <<chain, running, removed>>

CallRemove(p, c) ==
    /\ pc[p] = "idle"
    /\ Lock(p)
    /\ arg' = [arg EXCEPT ![p] = c]
    /\ Goto(p, "removing")
    /\ UNCHANGED <<map, chain, running, todo, removed>>

(* Stop of a running scanner keeps the caller, and with it mu.             *)
RemoveHangs(p) ==
    /\ pc[p] = "removing"
    /\ \E s \in {map[arg[p]]} \ {None} :
          /\ running[s]
          /\ running' = [running EXCEPT ![s] = FALSE]
    /\ Goto(p, "hung")
    /\ UNCHANGED <<map, mu, chain, todo, arg, removed>>

(* Mutant of Remove: a chain without a scanner is not an error (line 317). *)
RemoveUnchecked(p) ==
    /\ pc[p] = "removing"
    /\ \A s \in {map[arg[p]]} \ {None} : ~ running[s]
    /\ removed' = removed \cup {map[arg[p]]}
    /\ map' = [map EXCEPT ![arg[p]] = None]
    /\ arg' = [arg EXCEPT ![p] = None]
    /\ Unlock(p)
    /\ Goto(p, "idle")
    /\ UNCHANGED <<chain, running, todo>>

Remove(p) ==
    /\ pc[p] = "removing"
    /\ \A s \in {map[arg[p]]} \ {None} : ~ running[s]
    /\ removed' = removed \cup ({map[arg[p]]} \ {None})
    /\ map' = [map EXCEPT ![arg[p]] = None]
    /\ arg' = [arg EXCEPT ![p] = None]
    /\ Unlock(p)
    /\ Goto(p, "idle")
    /\ UNCHANGED <<chain, running, todo>>

-----------------------------------------------------------------------------
(* GetStatus, GetAllStatus, GetScanner and the like: one RLock section.    *)
Ask(p) ==
    /\ pc[p] = "idle"
    /\ Goto(p, "asking")
    /\ UNCHANGED <<map, mu, chain, running, todo, arg, removed>>

Answer(p) ==
    /\ pc[p] = "asking"
    /\ mu = None
    /\ Goto(p, "idle")
    /\ UNCHANGED <<map, mu, chain, running, todo, arg, removed>>

Calls(p) == \/ CallStart(p) \/ CallStop(p) \/ Ask(p)
            \/ \E c \in Chains : \/ CallRestart(p, c)
                                 \/ CallAdd(p, c)
                                 \/ CallRemove(p, c)

Proceeds(p) ==
    \/ \E s \in Scanners : StartOne(p, s) \/ StopOne(p, s)
                              \/ RestartOne(p, s) \/ AddCreate(p, s)
    \/ Return(p) \/ AddFails(p) \/ AddStore(p)
    \/ RemoveHangs(p) \/ Remove(p)

GNext == \E p \in Callers : Calls(p) \/ Proceeds(p) \/ Answer(p)

GSpec == GInit /\ [][GNext]_gvars

(* Calls go on; a reader that waits for mu gets it in time (Go's RWMutex   *)
(* lets the waiting readers in when a writer leaves).                      *)
GFairSpec ==
    GSpec /\ \A p \in Callers : WF_gvars(Proceeds(p)) /\ SF_gvars(Answer(p))

-----------------------------------------------------------------------------

(* The variables keep their types; a caller works on scanners that were    *)
(* created, and only such scanners are removed.                            *)
GTypeOK ==
    /\ map \in [Chains -> Scanners \cup {None}]
    /\ mu \in Callers \cup {None}
    /\ chain \in [Scanners -> Chains \cup {None}]
    /\ running \in [Scanners -> BOOLEAN]
    /\ pc \in [Callers -> CallerStates]
    /\ todo \in [Callers -> SUBSET Created]
    /\ arg \in [Callers -> Chains \cup {None}]
    /\ removed \subseteq Created

(* A chain is scanned once: of the scanners created for it and not removed *)
(* since, at most one runs, however calls of Add race each other, Remove   *)
(* and Start (checks at 272, Start at 301 and store at 305 are apart).     *)
OneScannerPerChain ==
    \A s, t \in Created \ removed :
        running[s] /\ running[t] /\ chain[s] = chain[t] => s = t

(* RemoveScanner stops the scanner (line 322) before it removes it, so a   *)
(* removed scanner does not run.                                           *)
RemovedIsStopped == \A s \in removed : ~ running[s]

(* Comment at 137: Stop stops all scanners.                                *)
StopsAll ==
    \A p \in Callers, s \in Scanners :
        s \in todo[p] /\ pc[p] = "stopping" ~> s \notin todo[p]

(* Comment at 16: the manager gives uniform access to the status of the    *)
(* scanners.  Who asks gets an answer.                                     *)
StatusAnswered == \A p \in Callers : pc[p] = "asking" ~> pc[p] = "idle"

=============================================================================
