---------------------------- MODULE FairBalancing ----------------------------
(***************************************************************************)
(* A cluster of consumers, each balanced by a FairBalancer                 *)
(* (src/balancer.go), claiming tasks through a broker whose owner marker   *)
(* is created only if absent (EtcdCoordinator.Claim) and deleted by        *)
(* Release.  Per node the model keeps what Balance reads: c.running (its   *)
(* BalancerContext.Tasks()), and the handlers that have left c.running but *)
(* not yet called Release or Done (runTask deletes before the handler      *)
(* goroutine calls the coordinator).  NodeTaskCount counts owner markers   *)
(* per node (ClusterState; its etcd implementation is not in the           *)
(* repository).  Claim, Balance and a node's other main-loop steps are     *)
(* serialised by that node's main loop, so each is one step here.         *)
(***************************************************************************)
EXTENDS Naturals, FiniteSets, FiniteSetsExt, Functions, TLC

CONSTANTS
    Nodes,         \* consumer node IDs
    Tasks,         \* task IDs in the broker
    NoNode,        \* model value: no owner marker
    ThresholdNum,  \* releaseThreshold as the fraction ThresholdNum/ThresholdDen
    ThresholdDen,
    ClusterStateFails  \* whether NodeTaskCount may return an error

ASSUME /\ NoNode \notin Nodes
       /\ ThresholdNum \in Nat /\ ThresholdDen \in Nat \ {0}
       /\ ClusterStateFails \in BOOLEAN

VARIABLES
    owner,     \* owner marker of each task (broker)
    local,     \* per node: c.running
    exiting,   \* per node: tasks whose handler is past runTask
    stopReq,   \* per node: tasks whose handler was asked to stop (stopTask)
    delayed,   \* per node: FairBalancer.delay lies in the future
    stuck      \* per node: Balance never returned (its pick loop cannot end)

vars == <<owner, local, exiting, stopReq, delayed, stuck>>

-----------------------------------------------------------------------------
(* FairBalancer arithmetic                                                 *)

\* math.Ceil(float64(x) * releaseThreshold) for a threshold Num/Den.  For
\* the default 1.2 this equals the float64 computation (checked exhaustively
\* for x < 100000).
CeilScaled(x) == (x * ThresholdNum + ThresholdDen - 1) \div ThresholdDen

\* desiredCount: integer average over the nodes in the map, scaled.
desiredCount(current) ==
    LET avg == IF DOMAIN current = {} THEN 0
               ELSE SumFunction(current) \div Cardinality(DOMAIN current)
    IN  CeilScaled(avg)

\* NodeTaskCount: owner markers per node.
NodeTaskCount == [m \in Nodes |-> Quantify(Tasks, LAMBDA t : owner[t] = m)]

-----------------------------------------------------------------------------
(* Steps                                                                   *)

\* FairBalancer.CanClaim: reject while the delay set by Balance is pending.
CanClaim(n) == ~delayed[n]

\* A candidate from Watch, accepted by CanClaim, claimed
\* (owner marker created since absent) and admitted into c.running.  The
\* candidate may be any task without a marker: a stale GET can offer one
\* that Done has deleted, and CreateDir re-creates it.
Claim(n, t) ==
    /\ ~stuck[n]
    /\ CanClaim(n)
    /\ owner[t] = NoNode
    /\ owner' = [owner EXCEPT ![t] = n]
    /\ local' = [local EXCEPT ![n] = @ \cup {t}]
    /\ UNCHANGED <<exiting, stopReq, delayed, stuck>>

\* FairBalancer.Balance followed by stopTask on each returned ID.  The delay
\* is reset first; nothing is released when fewer than two tasks run
\* locally, when NodeTaskCount fails, or when there is no excess.  The pick
\* loop draws random tasks of ctx.Tasks() until shouldrelease distinct IDs
\* are found: it cannot end when shouldrelease exceeds that list.
Balance(n) ==
    /\ ~stuck[n]
    /\ LET nodetasks     == local[n]
           current       == NodeTaskCount
           shouldrelease == current[n] - desiredCount(current)
           picking       == Cardinality(nodetasks) >= 2 /\ shouldrelease >= 1
       IN  \/ /\ ~picking \/ ClusterStateFails
              /\ delayed' = [delayed EXCEPT ![n] = FALSE]
              /\ UNCHANGED <<stopReq, stuck>>
           \/ /\ picking /\ shouldrelease > Cardinality(nodetasks)
              /\ stuck' = [stuck EXCEPT ![n] = TRUE]
              /\ delayed' = [delayed EXCEPT ![n] = FALSE]
              /\ UNCHANGED stopReq
           \/ /\ picking /\ shouldrelease <= Cardinality(nodetasks)
              /\ \E release \in kSubset(shouldrelease, nodetasks) :
                    stopReq' = [stopReq EXCEPT ![n] = @ \cup release]
              /\ delayed' = [delayed EXCEPT ![n] = TRUE]
              /\ UNCHANGED stuck
    /\ UNCHANGED <<owner, local, exiting>>

\* Handler Run returns, stopped or on its own; runTask deletes the task from
\* c.running.  Whether it ends in Release or Done does not change what
\* Balance reads: either deletes the owner marker.
HandlerExit(n, t) ==
    /\ t \in local[n]
    /\ exiting' = [exiting EXCEPT ![n] = @ \cup {t}]
    /\ local' = [local EXCEPT ![n] = @ \ {t}]
    /\ stopReq' = [stopReq EXCEPT ![n] = @ \ {t}]
    /\ UNCHANGED <<owner, delayed, stuck>>

\* The handler goroutine calls coord.Release (owner marker deleted) or
\* coord.Done (task deleted, marker with it).
Finish(n, t) ==
    /\ t \in exiting[n]
    /\ owner' = [owner EXCEPT ![t] = NoNode]
    /\ exiting' = [exiting EXCEPT ![n] = @ \ {t}]
    /\ UNCHANGED <<local, stopReq, delayed, stuck>>

\* time passes beyond FairBalancer.delay
DelayExpire(n) ==
    /\ delayed[n]
    /\ delayed' = [delayed EXCEPT ![n] = FALSE]
    /\ UNCHANGED <<owner, local, exiting, stopReq, stuck>>

-----------------------------------------------------------------------------
Init ==
    /\ owner = [t \in Tasks |-> NoNode]
    /\ local = [n \in Nodes |-> {}]
    /\ exiting = [n \in Nodes |-> {}]
    /\ stopReq = [n \in Nodes |-> {}]
    /\ delayed = [n \in Nodes |-> FALSE]
    /\ stuck = [n \in Nodes |-> FALSE]

Next ==
    \E n \in Nodes :
        \/ \E t \in Tasks : Claim(n, t) \/ HandlerExit(n, t) \/ Finish(n, t)
        \/ Balance(n)
        \/ DelayExpire(n)

Spec == Init /\ [][Next]_vars

-----------------------------------------------------------------------------
(* Properties                                                              *)

\* Every variable stays in its domain, and a stop request names a task the
\* node still runs.
TypeOK ==
    /\ owner \in [Tasks -> Nodes \cup {NoNode}]
    /\ local \in [Nodes -> SUBSET Tasks]
    /\ exiting \in [Nodes -> SUBSET Tasks]
    /\ \A n \in Nodes : stopReq[n] \subseteq local[n]
    /\ delayed \in [Nodes -> BOOLEAN] /\ stuck \in [Nodes -> BOOLEAN]

\* Balance always returns: the number of tasks it must release never
\* exceeds the tasks it can pick from.
BalanceTerminates == \A n \in Nodes : ~stuck[n]
=============================================================================
