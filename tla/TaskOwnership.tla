---------------------------- MODULE TaskOwnership ----------------------------
(***************************************************************************)
(* What the coordinator and the consumers together promise about a task    *)
(* (spec.md, the Coordinator contract and consumer invariants 1-3): a task *)
(* is held by at most one node's claim at a time; a claim is ended by      *)
(* exactly one Release or Done; after Done the task is gone for good.  A   *)
(* claim covers the whole handler lifetime, from Claim returning true to   *)
(* the handler goroutine's Release or Done.                                *)
(***************************************************************************)
CONSTANTS
    Nodes,     \* consumer node IDs
    Tasks,     \* task IDs
    NoNode     \* no node holds the task

VARIABLES
    holder,    \* task -> the node whose claim on it is live, or NoNode
    gone       \* tasks removed from the broker by Done

ownVars == <<holder, gone>>

OwnTypeOK ==
    /\ holder \in [Tasks -> Nodes \cup {NoNode}]
    /\ gone \subseteq Tasks

OwnInit ==
    /\ holder = [t \in Tasks |-> NoNode]
    /\ gone = {}

\* Claim(t) returns true on n: only a free task that still exists.
Acquire(n, t) ==
    /\ holder[t] = NoNode
    /\ t \notin gone
    /\ holder' = [holder EXCEPT ![t] = n]
    /\ UNCHANGED gone

\* The handler goroutine calls Release, or the claim is lost (its marker
\* expired): another node may claim the task.
Relinquish(t) ==
    /\ holder[t] # NoNode
    /\ holder' = [holder EXCEPT ![t] = NoNode]
    /\ UNCHANGED gone

\* The handler goroutine calls Done: the task identity is removed.  Done
\* follows every claim once its handler exits, even when the claim lapsed
\* meanwhile (consumer invariant 2), so it needs no live claim.
Complete(t) ==
    /\ holder' = [holder EXCEPT ![t] = NoNode]
    /\ gone' = gone \cup {t}

\* A node's coordinator closes: it stops keeping its claims alive, and all
\* of them lapse together (Close does not release tasks).
Abandon(n) ==
    /\ holder' = [t \in Tasks |-> IF holder[t] = n THEN NoNode ELSE holder[t]]
    /\ UNCHANGED gone

OwnNext ==
    \/ \E t \in Tasks :
          \/ \E n \in Nodes : Acquire(n, t)
          \/ Relinquish(t)
          \/ Complete(t)
    \/ \E n \in Nodes : Abandon(n)

OwnSpec == OwnInit /\ [][OwnNext]_ownVars
=============================================================================
