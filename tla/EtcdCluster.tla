----------------------------- MODULE EtcdCluster -----------------------------
(***************************************************************************)
(* Consumer nodes sharing tasks through etcd (src/m_etcd, and the older    *)
(* coordinator in src/unnamed/part_001).  The broker state is the set of   *)
(* task directories (created by the client's SubmitTask as tasks/<id>/props *)
(* and deleted by Done) and each task's owner marker, created only if      *)
(* absent by Claim and kept alive by a refresher until Release, expiry or  *)
(* Close.  Each node runs Watch (a GET of existing tasks, then an ordered  *)
(* event stream from the GET's index; an index older than etcd's event     *)
(* history makes it restart with a new GET), and a consumer main loop that *)
(* claims the candidates Watch sends (balancer left out: it accepts).      *)
(* Event streams keep only the events parseTask can act on: the creation   *)
(* of a props file and the removal of an owner marker.                     *)
(***************************************************************************)
EXTENDS Naturals, Sequences, FiniteSets, TLC

CONSTANTS
    Nodes,      \* consumer node IDs
    Tasks,      \* task IDs
    NoNode,     \* model value: no owner marker
    History,    \* events etcd keeps after a watcher's index (window size)
    MaxLost,    \* bound on owner markers lost while still refreshed
    MaxErr      \* bound on failed etcd calls of Watch, parseTask and Claim

ASSUME NoNode \notin Nodes /\ History \in Nat \ {0} /\ MaxLost \in Nat /\ MaxErr \in Nat

VARIABLES
    submitted, \* tasks the client has submitted (SubmitTask fails on a duplicate)
    dirs,      \* task directories present in etcd
    owner,     \* owner marker of each task
    queue,     \* per node: watch events after its index, in etcd order
    overflow,  \* per node: its index fell out of etcd's event history
    wpc,       \* per node: Watch is at "get", "watch" or has "returned"
    pend,      \* per node: candidates Watch is sending to the main loop
    closed,    \* per node: the coordinator's stop channel is closed
    cstop,     \* per node: the consumer's stop channel is closed
    running,   \* per node: c.running
    stopping,  \* per node: running tasks asked to stop (Lost or shutdown)
    exiting,   \* per node: <<task, "release" | "done">> of handlers past runTask
    refreshing,\* per node: owner markers its refresher keeps alive
    lostCount, \* owner markers lost while refreshed
    finished,  \* history: tasks some handler finished with Done
    closers,   \* per node: callers of Close past its closed check
    crashed,   \* per node: the process died of a panic
    mpc,       \* per node: main loop "loop"; after Run returns, shutdown is
               \* inside Close ("close"), then past its stopTasks ("done")
    errs,      \* failed etcd calls so far
    dropped    \* history: tasks whose candidate a failed etcd call dropped

vars == <<submitted, dirs, owner, queue, overflow, wpc, pend, closed, cstop,
          running, stopping, exiting, refreshing, lostCount, finished, closers, crashed,
          mpc, errs, dropped>>

Exiting(n) == {p[1] : p \in exiting[n]}

Outcome == {"release", "done"}

\* etcd actions of a new key, and of a removed owner marker (task.go).
NewActions == {"create", "set"}
ReleaseActions == {"expire", "delete", "compareAndDelete"}

\* An event on tasks/<id>/props (a new action) or tasks/<id>/owner.
Event == [action : NewActions \cup ReleaseActions, task : Tasks]

\* Appending an event to every watcher's stream; a stream that would exceed
\* the history window is dropped and its watcher will restart.
Emit(e) ==
    /\ overflow' = [n \in Nodes |-> overflow[n] \/ Len(queue[n]) >= History]
    /\ queue' = [n \in Nodes |-> IF overflow'[n] THEN <<>> ELSE Append(queue[n], e)]

-----------------------------------------------------------------------------
(* Client                                                                  *)

\* mclient.SubmitTask: Create(tasks/<id>/props) fails if it exists.
SubmitTask(t) ==
    /\ t \notin submitted
    /\ submitted' = submitted \cup {t}
    /\ dirs' = dirs \cup {t}
    /\ Emit([action |-> "create", task |-> t])
    /\ UNCHANGED <<owner, wpc, pend, closed, cstop, running, stopping, exiting,
                   refreshing, lostCount, finished, closers, crashed, mpc, errs, dropped>>

-----------------------------------------------------------------------------
(* Watch                                                                   *)

\* GET of the task path: every task directory without an owner child
\* (findProps) becomes a candidate; watching resumes from the GET's index.
WatchGet(n) ==
    /\ wpc[n] = "get" /\ ~closed[n]
    /\ pend' = [pend EXCEPT ![n] = {t \in dirs : owner[t] = NoNode}]
    /\ queue' = [queue EXCEPT ![n] = <<>>]
    /\ overflow' = [overflow EXCEPT ![n] = FALSE]
    /\ wpc' = [wpc EXCEPT ![n] = "watch"]
    /\ UNCHANGED <<submitted, dirs, owner, closed, cstop, running, stopping,
                   exiting, refreshing, lostCount, finished, closers, crashed, mpc, errs, dropped>>

\* parseTask on one event: a new props file is a candidate as is; a removed
\* owner marker is a candidate if a GET of its task finds it still there
\* with no owner.
Parsed(e) ==
    IF e.action \in NewActions THEN {e.task}
    ELSE {t \in {e.task} : t \in dirs /\ owner[t] = NoNode}

\* Mutant of WatchNext: an index too old is skipped past without a new GET.
WatchNextSkipGet(n) ==
    /\ wpc[n] = "watch" /\ pend[n] = {} /\ ~closed[n]
    /\ \/ /\ overflow[n]
          /\ overflow' = [overflow EXCEPT ![n] = FALSE]
          /\ UNCHANGED <<queue, pend>>
       \/ /\ ~overflow[n] /\ queue[n] # <<>>
          /\ pend' = [pend EXCEPT ![n] = Parsed(Head(queue[n]))]
          /\ queue' = [queue EXCEPT ![n] = Tail(@)]
          /\ UNCHANGED overflow
    /\ UNCHANGED <<submitted, dirs, owner, wpc, closed, cstop, running,
                   stopping, exiting, refreshing, lostCount, finished, closers, crashed, mpc, errs, dropped>>

\* One blocking watch: an index too old restarts with a GET; otherwise the
\* next event is parsed.  For a removed owner marker parseTask GETs the
\* task, and when that GET fails the event yields no candidate.
WatchNext(n) ==
    /\ wpc[n] = "watch" /\ pend[n] = {} /\ ~closed[n]
    /\ \/ /\ overflow[n]
          /\ wpc' = [wpc EXCEPT ![n] = "get"]
          /\ UNCHANGED <<queue, pend, errs, dropped>>
       \/ /\ ~overflow[n] /\ queue[n] # <<>>
          /\ pend' = [pend EXCEPT ![n] = Parsed(Head(queue[n]))]
          /\ queue' = [queue EXCEPT ![n] = Tail(@)]
          /\ UNCHANGED <<wpc, errs, dropped>>
       \/ /\ ~overflow[n] /\ queue[n] # <<>>
          /\ Head(queue[n]).action \in ReleaseActions /\ errs < MaxErr
          /\ queue' = [queue EXCEPT ![n] = Tail(@)]
          /\ errs' = errs + 1
          /\ dropped' = dropped \cup Parsed(Head(queue[n]))
          /\ UNCHANGED <<wpc, pend>>
    /\ UNCHANGED <<submitted, dirs, owner, overflow, closed, cstop, running,
                   stopping, exiting, refreshing, lostCount, finished, closers, crashed, mpc>>

\* Watch's GET of the task path, or a watch response that is not an expired
\* index, fails: Watch returns the error and the watcher's deferred
\* c.close() closes the consumer's stop channel.
WatchFail(n) ==
    /\ wpc[n] \in {"get", "watch"} /\ pend[n] = {} /\ ~closed[n] /\ ~crashed[n]
    /\ errs < MaxErr
    /\ errs' = errs + 1
    /\ wpc' = [wpc EXCEPT ![n] = "returned"]
    /\ cstop' = [cstop EXCEPT ![n] = TRUE]
    /\ UNCHANGED <<submitted, dirs, owner, queue, overflow, pend, closed, running,
                   stopping, exiting, refreshing, lostCount, finished, closers, crashed,
                   mpc, dropped>>

\* Claim of the older coordinator: CreateDir(owner, ClaimTTL) succeeds iff
\* the marker is absent (intermediate directories are created as needed),
\* then the marker is scheduled for refresh.  For a task already deleted by
\* Done this re-creates tasks/<id>, which findProps takes for a task.
Claim(n, t) ==
    /\ owner[t] = NoNode
    /\ owner' = [owner EXCEPT ![t] = n]
    /\ dirs' = dirs \cup {t}
    /\ refreshing' = [refreshing EXCEPT ![n] = @ \cup {t}]

\* Watch sends a candidate and the main loop's select takes it; the select
\* is random, so this can happen after c.stop is closed.  Claim fails when
\* a marker exists (EcodeNodeExist) or on another etcd error, and either
\* way the main loop drops the candidate.  claimed() then admits the task
\* unless c.stop is closed (it returns without Release) or the task already
\* runs; the claim stays scheduled for refresh either way.
WatchSend(n, t) ==
    /\ mpc[n] = "loop" /\ wpc[n] = "watch" /\ t \in pend[n] /\ ~crashed[n]
    /\ pend' = [pend EXCEPT ![n] = @ \ {t}]
    /\ \/ /\ Claim(n, t)
          /\ running' = IF cstop[n] THEN running
                        ELSE [running EXCEPT ![n] = @ \cup {t}]
          /\ UNCHANGED <<errs, dropped>>
       \/ /\ owner[t] # NoNode
          /\ UNCHANGED <<owner, dirs, refreshing, running, errs, dropped>>
       \/ /\ owner[t] = NoNode /\ errs < MaxErr
          /\ errs' = errs + 1
          /\ dropped' = dropped \cup {t}
          /\ UNCHANGED <<owner, dirs, refreshing, running>>
    /\ UNCHANGED <<submitted, queue, overflow, wpc, closed, cstop,
                   stopping, exiting, lostCount, finished, closers, crashed, mpc>>

\* Watch returns once the stop channel is closed (also from a blocked send);
\* the consumer's watcher then closes c.stop.
WatchReturn(n) ==
    /\ closed[n] /\ wpc[n] # "returned" /\ ~crashed[n]
    /\ wpc' = [wpc EXCEPT ![n] = "returned"]
    /\ pend' = [pend EXCEPT ![n] = {}]
    /\ cstop' = [cstop EXCEPT ![n] = TRUE]
    /\ UNCHANGED <<submitted, dirs, owner, queue, overflow, closed, running, stopping,
                   exiting, refreshing, lostCount, finished, closers, crashed, mpc, errs, dropped>>

\* Consumer.Shutdown: c.close() closes c.stop if it is still open.
ConsumerStop(n) ==
    /\ ~cstop[n] /\ ~crashed[n]
    /\ cstop' = [cstop EXCEPT ![n] = TRUE]
    /\ UNCHANGED <<submitted, dirs, owner, queue, overflow, wpc, pend, closed, running,
                   stopping, exiting, refreshing, lostCount, finished, closers, crashed,
                   mpc, errs, dropped>>

-----------------------------------------------------------------------------
(* Handlers                                                                *)

\* Mutant of HandlerExit: the stop request outlives the handler.
HandlerExitKeepsStop(n, t) ==
    /\ t \in running[n] /\ ~crashed[n]
    /\ \E d \in Outcome : exiting' = [exiting EXCEPT ![n] = @ \cup {<<t, d>>}]
    /\ running' = [running EXCEPT ![n] = @ \ {t}]
    /\ UNCHANGED <<submitted, dirs, owner, queue, overflow, wpc, pend, closed,
                   cstop, stopping, refreshing, lostCount, finished, closers, crashed, mpc, errs, dropped>>

\* Handler Run returns true (done) or false (release); runTask removes it
\* from c.running.
HandlerExit(n, t) ==
    /\ t \in running[n] /\ ~crashed[n]
    /\ \E d \in Outcome : exiting' = [exiting EXCEPT ![n] = @ \cup {<<t, d>>}]
    /\ running' = [running EXCEPT ![n] = @ \ {t}]
    /\ stopping' = [stopping EXCEPT ![n] = @ \ {t}]
    /\ UNCHANGED <<submitted, dirs, owner, queue, overflow, wpc, pend, closed,
                   cstop, refreshing, lostCount, finished, closers, crashed, mpc, errs, dropped>>

\* the handler goroutine of this outcome has called the coordinator
Finished(n, t, d) == exiting' = [exiting EXCEPT ![n] = @ \ {<<t, d>>}]

\* Mutant of Release: the refresh of the released marker stays scheduled.
ReleaseKeepsRefresh(n, t) ==
    /\ <<t, "release">> \in exiting[n] /\ ~crashed[n]
    /\ Finished(n, t, "release")
    /\ \/ /\ owner[t] # NoNode
          /\ owner' = [owner EXCEPT ![t] = NoNode]
          /\ Emit([action |-> "delete", task |-> t])
       \/ /\ UNCHANGED <<owner, queue, overflow>>
    /\ UNCHANGED <<submitted, dirs, wpc, pend, closed, cstop, running, stopping,
                   refreshing, lostCount, finished, closers, crashed, mpc, errs, dropped>>

\* Release of the older coordinator: unschedule the refresh, then
\* DeleteDir(owner) whoever holds it; a failed delete is only logged.
Release(n, t) ==
    /\ <<t, "release">> \in exiting[n] /\ ~crashed[n]
    /\ Finished(n, t, "release")
    /\ refreshing' = [refreshing EXCEPT ![n] = @ \ {t}]
    /\ \/ /\ owner[t] # NoNode
          /\ owner' = [owner EXCEPT ![t] = NoNode]
          /\ Emit([action |-> "delete", task |-> t])
       \/ /\ UNCHANGED <<owner, queue, overflow>>
    /\ UNCHANGED <<submitted, dirs, wpc, pend, closed, cstop, running, stopping,
                   lostCount, finished, closers, crashed, mpc, errs, dropped>>

\* Done deletes the whole task directory (no owner event is emitted).
Done(n, t) ==
    /\ <<t, "done">> \in exiting[n] /\ ~crashed[n]
    /\ Finished(n, t, "done")
    /\ refreshing' = [refreshing EXCEPT ![n] = @ \ {t}]
    /\ dirs' = dirs \ {t}
    /\ owner' = [owner EXCEPT ![t] = NoNode]
    /\ finished' = finished \cup {t}
    /\ UNCHANGED <<submitted, queue, overflow, wpc, pend, closed, cstop, running,
                   stopping, lostCount, closers, crashed, mpc, errs, dropped>>

-----------------------------------------------------------------------------
(* Broker time and failures                                                *)

\* An owner marker's TTL runs out: always when nobody refreshes it, and at
\* most MaxLost times while its node still refreshes it, in which case the
\* task manager gives up the claim and calls ctx.Lost, which stops the task.
Expire(t) ==
    /\ owner[t] # NoNode
    /\ LET n == owner[t] IN
       /\ t \in refreshing[n] => lostCount < MaxLost
       /\ owner' = [owner EXCEPT ![t] = NoNode]
       /\ Emit([action |-> "expire", task |-> t])
       /\ IF t \in refreshing[n]
          THEN /\ refreshing' = [refreshing EXCEPT ![n] = @ \ {t}]
               /\ stopping' = [stopping EXCEPT ![n] = @ \cup ({t} \cap running[n])]
               /\ lostCount' = lostCount + 1
          ELSE UNCHANGED <<refreshing, stopping, lostCount>>
    /\ UNCHANGED <<submitted, dirs, wpc, pend, closed, cstop, running, exiting,
                   finished, closers, crashed, mpc, errs, dropped>>

\* The goroutines that call Close: the consumer's shutdown, and the node
\* refresher when it gives up.
Closers == {"consumer", "refresher"}

\* Close, first half: the select on ec.stop finds it open (default case).
\* Nothing makes this check and the close below one step ("This block isn't
\* threadsafe").  The consumer's call comes from Run's deferred shutdown,
\* once the main loop's select has taken the closed c.stop and returned.
CloseSelect(n, c) ==
    /\ ~closed[n] /\ ~crashed[n]
    /\ c \notin closers[n]
    /\ c = "consumer" => mpc[n] = "loop" /\ cstop[n]
    /\ closers' = [closers EXCEPT ![n] = @ \cup {c}]
    /\ mpc' = IF c = "consumer" THEN [mpc EXCEPT ![n] = "close"] ELSE mpc
    /\ UNCHANGED <<submitted, dirs, owner, queue, overflow, wpc, pend, closed, cstop,
                   running, stopping, exiting, refreshing, lostCount, finished, crashed,
                   errs, dropped>>

\* Close, second half: close(ec.stop), then the delete of the node key (its
\* errors are only logged).  The task manager is not given ec.stop: claims
\* stay refreshed until Release, Done or loss.  Closing a closed channel
\* panics and nothing recovers it: the node's process dies with its
\* handlers and refreshers, and no handler gets to Release or Done.  When
\* the caller is shutdown, it goes on to stopTask every running task.
CloseStop(n, c) ==
    /\ c \in closers[n] /\ ~crashed[n]
    /\ closers' = [closers EXCEPT ![n] = @ \ {c}]
    /\ IF c = "consumer"
       THEN /\ mpc' = [mpc EXCEPT ![n] = "done"]
            /\ stopping' = [stopping EXCEPT ![n] = running[n]]
       ELSE UNCHANGED <<mpc, stopping>>
    /\ \/ /\ ~closed[n]
          /\ closed' = [closed EXCEPT ![n] = TRUE]
          /\ UNCHANGED <<crashed, refreshing>>
       \/ /\ closed[n]
          /\ crashed' = [crashed EXCEPT ![n] = TRUE]
          /\ refreshing' = [refreshing EXCEPT ![n] = {}]
          /\ UNCHANGED closed
    /\ UNCHANGED <<submitted, dirs, owner, queue, overflow, wpc, pend, cstop,
                   running, exiting, lostCount, finished, errs, dropped>>

\* Run returns on the closed c.stop and shutdown's Close finds ec.stop
\* already closed, so it returns at once; shutdown then stopTasks every
\* running task.
CloseClosed(n) ==
    /\ mpc[n] = "loop" /\ cstop[n] /\ closed[n] /\ ~crashed[n]
    /\ mpc' = [mpc EXCEPT ![n] = "done"]
    /\ stopping' = [stopping EXCEPT ![n] = running[n]]
    /\ UNCHANGED <<submitted, dirs, owner, queue, overflow, wpc, pend, closed, cstop,
                   running, exiting, refreshing, lostCount, finished, closers,
                   crashed, errs, dropped>>

\* nodeRefresher: every half node TTL, refreshBy retries UpdateDir of the
\* node key until the deadline; when etcd stays unreachable past it (the
\* stop channel still open) the refresher calls Close itself.  A successful
\* refresh changes nothing the model keeps.
NodeRefresher(n) == CloseSelect(n, "refresher")

-----------------------------------------------------------------------------
Init ==
    /\ submitted = {} /\ dirs = {}
    /\ owner = [t \in Tasks |-> NoNode]
    /\ queue = [n \in Nodes |-> <<>>]
    /\ overflow = [n \in Nodes |-> FALSE]
    /\ wpc = [n \in Nodes |-> "get"]
    /\ pend = [n \in Nodes |-> {}]
    /\ closed = [n \in Nodes |-> FALSE]
    /\ cstop = [n \in Nodes |-> FALSE]
    /\ running = [n \in Nodes |-> {}]
    /\ stopping = [n \in Nodes |-> {}]
    /\ exiting = [n \in Nodes |-> {}]
    /\ refreshing = [n \in Nodes |-> {}]
    /\ lostCount = 0
    /\ finished = {}
    /\ closers = [n \in Nodes |-> {}]
    /\ crashed = [n \in Nodes |-> FALSE]
    /\ mpc = [n \in Nodes |-> "loop"]
    /\ errs = 0
    /\ dropped = {}

Next ==
    \/ \E t \in Tasks : SubmitTask(t) \/ Expire(t)
    \/ \E n \in Nodes :
          \/ WatchGet(n) \/ WatchNext(n) \/ WatchFail(n) \/ WatchReturn(n)
          \/ ConsumerStop(n)
          \/ CloseSelect(n, "consumer") \/ CloseClosed(n) \/ NodeRefresher(n)
          \/ \E c \in Closers : CloseStop(n, c)
          \/ \E t \in Tasks : WatchSend(n, t) \/ HandlerExit(n, t)
                              \/ Release(n, t) \/ Done(n, t)

Spec == Init /\ [][Next]_vars

\* An owner marker nobody refreshes expires (its TTL is finite).
ExpireUnrefreshed(t) == owner[t] # NoNode /\ t \notin refreshing[owner[t]] /\ Expire(t)

\* Watch and the main loop are goroutines that run whenever they can, and so
\* is shutdown once Run returns; a stopped handler returns (Handler
\* contract) and its Release or Done runs.  Shutdown calls, the node
\* refresher's failure, etcd errors and marker loss are not forced.
Fairness ==
    /\ \A n \in Nodes :
          /\ WF_vars(WatchGet(n)) /\ WF_vars(WatchNext(n)) /\ WF_vars(WatchReturn(n))
          /\ WF_vars(CloseSelect(n, "consumer")) /\ WF_vars(CloseClosed(n))
          /\ \A c \in Closers : WF_vars(CloseStop(n, c))
          /\ \A t \in Tasks :
                /\ WF_vars(WatchSend(n, t))
                /\ WF_vars(t \in stopping[n] /\ HandlerExit(n, t))
                /\ WF_vars(Release(n, t)) /\ WF_vars(Done(n, t))
    /\ \A t \in Tasks : WF_vars(ExpireUnrefreshed(t))

FairSpec == Spec /\ Fairness

-----------------------------------------------------------------------------
(* Properties                                                              *)

\* Every variable stays in its domain; a watcher's stream never exceeds the
\* history window and a stop request names only a running task.
TypeOK ==
    /\ submitted \subseteq Tasks /\ dirs \subseteq submitted
    /\ owner \in [Tasks -> Nodes \cup {NoNode}]
    /\ queue \in [Nodes -> Seq(Event)] /\ overflow \in [Nodes -> BOOLEAN]
    /\ \A n \in Nodes : Len(queue[n]) <= History
    /\ wpc \in [Nodes -> {"get", "watch", "returned"}]
    /\ pend \in [Nodes -> SUBSET Tasks]
    /\ closed \in [Nodes -> BOOLEAN] /\ cstop \in [Nodes -> BOOLEAN]
    /\ running \in [Nodes -> SUBSET Tasks]
    /\ \A n \in Nodes : stopping[n] \subseteq running[n]
    /\ exiting \in [Nodes -> SUBSET (Tasks \X Outcome)]
    /\ refreshing \in [Nodes -> SUBSET Tasks]
    /\ lostCount \in 0..MaxLost
    /\ finished \subseteq Tasks
    /\ closers \in [Nodes -> SUBSET Closers] /\ crashed \in [Nodes -> BOOLEAN]
    /\ mpc \in [Nodes -> {"loop", "close", "done"}]
    /\ errs \in 0..MaxErr /\ dropped \subseteq Tasks

\* While a node's consumer has not stopped, its refresher keeps alive only
\* claims of tasks the node is running or finishing: Release and Done
\* unschedule the refresh, Lost drops it, and a claim is made only for a
\* task then admitted (or already running).  Once c.stop is closed a claim
\* can leak (consumer_claims_finalised).
RefreshOnlyOwnWork ==
    \A n \in Nodes : ~cstop[n] => refreshing[n] \subseteq running[n] \cup Exiting(n)

\* Every task in etcd that has no owner is eventually claimed by some node
\* (or deleted), as long as some node's coordinator is open: Watch's event
\* stream, its restart with a GET when its index is too old, and the expiry
\* of unrefreshed markers together never leave a claimable task behind.
TaskNeverStranded ==
    \A t \in Tasks :
        (t \in dirs /\ owner[t] = NoNode)
            ~> (owner[t] # NoNode \/ t \notin dirs \/ \A n \in Nodes : closed[n])

\* The same, except for a task whose candidate a failed etcd call dropped
\* (parseTask's GET, or Claim's CreateDir): that is the only way an
\* unowned task is left behind, across shutdowns, crashes, watch restarts
\* and marker loss.
TaskEventuallyClaimed ==
    \A t \in Tasks :
        (t \in dirs /\ owner[t] = NoNode)
            ~> (owner[t] # NoNode \/ t \notin dirs \/ t \in dropped
                \/ \A n \in Nodes : closed[n])

\* At most one node both runs a task and holds a live claim on it (spec
\* 8.1, with the coordinator's Lost as the way a stale runner learns it
\* lost the claim).
ExclusiveClaim ==
    \A t \in Tasks : Cardinality({n \in Nodes : t \in running[n] \cap refreshing[n]}) <= 1

\* The node whose live claim on t (an owner marker it keeps refreshing)
\* the abstract contract sees; with two such nodes the choice is arbitrary.
Holder(t) ==
    IF \E n \in Nodes : t \in refreshing[n]
    THEN CHOOSE n \in Nodes : t \in refreshing[n]
    ELSE NoNode

Ownership == INSTANCE TaskOwnership WITH holder <- [t \in Tasks |-> Holder(t)],
                                         gone <- finished

\* The etcd coordinator and consumers implement the task-ownership contract:
\* a claim is granted only on a free task that Done has not removed, a live
\* claim ends only by Release, Done, loss of the marker or Close, and Done
\* is final (no claim, through CreateDir, brings a done task back).
ImplementsTaskOwnership == Ownership!OwnSpec
=============================================================================
