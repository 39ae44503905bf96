------------------------------ MODULE Consumer ------------------------------
(***************************************************************************)
(* The metafora Consumer (src/embedded/client.go, package metafora) driving *)
(* the in-process EmbeddedCoordinator (src/embedded/coordinator.go) and fed *)
(* by the EmbeddedClient.  Every goroutine of the code is an actor here:    *)
(*   the user calling Run and Shutdown, the client submitting tasks and     *)
(*   commands, the coordinator's Watch loop (run by Consumer.watcher), the  *)
(*   command poller, the balance ticker, the main loop, one handler         *)
(*   goroutine per admitted task, one goroutine per stopTask call, the      *)
(*   coordinator's asynchronous Release re-enqueue goroutines and the       *)
(*   ignore manager's re-injection timer.                                   *)
(* Unbuffered channels are rendezvous between two actors' steps.  The       *)
(* Balancer is left open: CanClaim may accept or reject any task, Balance   *)
(* may return any subset of the running tasks (module FairBalancer models   *)
(* the concrete policy).                                                    *)
(***************************************************************************)
EXTENDS Naturals, FiniteSets, FiniteSetsExt

CONSTANTS
    Tasks,      \* task IDs the client submits (each ID once: Client.SubmitTask)
    Commands,   \* command values the client may send, see CmdValues
    MaxCmds,    \* bound on the number of SubmitCommand calls
    NoTask      \* model value: "no task" in a command or a held slot

ASSUME MaxCmds \in Nat /\ NoTask \notin Tasks

\* A command is its name plus the "task" parameter; stop_task with task =
\* NoTask is the command whose parameter is missing or not a string.
CmdNames == {"freeze", "unfreeze", "run_balance", "stop_task", "unknown"}
CmdValues == [name : CmdNames, task : Tasks \cup {NoTask}]
ASSUME Commands \subseteq CmdValues
NoCmd == [name |-> "none", task |-> NoTask]

VARIABLES
    \* EmbeddedClient
    toSubmit,    \* tasks the client has not yet submitted
    submitting,  \* tasks whose SubmitTask is blocked sending on inchan
    cmdsLeft,    \* SubmitCommand calls the client may still make
    cmdSenders,  \* commands whose SubmitCommand is blocked on cmdchan
    \* EmbeddedCoordinator
    etasks,      \* keys of EmbeddedCoordinator.tasks
    estop,       \* EmbeddedCoordinator.stopchan closed
    requeue,     \* Release goroutines blocked re-sending a task on inchan
    watchPc,     \* Watch loop: "off", "recv", "send" (holds watchTask), "done"
    watchTask,
    \* Consumer goroutines
    runPc,       \* Run: "init", "loop", "shutdown", "wait", "exited"
    pollPc,      \* command poller: "off", "recv", "send" (holds pollCmd), "closed"
    pollCmd,
    tickPc,      \* balance ticker: "off", "sleep", "send", "done"
    shPc,        \* a user's Shutdown call: "idle", "waitH", "waitRun", "returned"
    \* Consumer state
    stop,        \* Consumer.stop closed
    frozen,      \* Consumer.freeze
    hpc,         \* per task: handler goroutine "none", "run" (in c.running), "exiting"
    hdone,       \* per task: value runTask returned (panic counts as TRUE)
    stopped,     \* per task: runningtask.stopped is non-zero (h.Stop was called)
    stoppers,    \* tasks with a stopTask goroutine not yet run
    ignored,     \* ignore manager entries
    reinject,    \* expired ignore entries being re-sent on c.tasks
    \* history
    done,        \* tasks finalised with Coordinator.Done
    lost,        \* tasks dropped by the code (a claim not run, a send abandoned)
    claims       \* tasks with a successful Claim not yet Released or Done

clientVars == <<toSubmit, submitting, cmdsLeft, cmdSenders>>
coordVars  == <<etasks, estop, requeue, watchPc, watchTask>>
gorVars    == <<runPc, pollPc, pollCmd, tickPc, shPc>>
taskVars   == <<stop, frozen, hpc, hdone, stopped, stoppers, ignored, reinject>>
histVars   == <<done, lost, claims>>
vars == <<clientVars, coordVars, gorVars, taskVars, histVars>>

\* c.running: the only writer adding is claimed, the only remover runTask.
running == {t \in Tasks : hpc[t] = "run"}
\* c.hwg: one count per live handler goroutine.
hwg == Quantify(Tasks, LAMBDA t : hpc[t] # "none")

-----------------------------------------------------------------------------
(* EmbeddedClient                                                          *)

\* SubmitTask blocks sending NewTask(id, props) on the unbuffered inchan.
SubmitTask(t) ==
    /\ t \in toSubmit
    /\ toSubmit' = toSubmit \ {t}
    /\ submitting' = submitting \cup {t}
    /\ UNCHANGED <<cmdsLeft, cmdSenders, coordVars, gorVars, taskVars, histVars>>

\* SubmitCommand blocks sending the command on the unbuffered cmdchan.
SubmitCommand(c) ==
    /\ cmdsLeft > 0
    /\ cmdsLeft' = cmdsLeft - 1
    /\ cmdSenders' = cmdSenders \cup {c}
    /\ UNCHANGED <<toSubmit, submitting, coordVars, gorVars, taskVars, histVars>>

-----------------------------------------------------------------------------
(* Run: registers with runwg and starts the ticker, watcher and poller.    *)

RunStart ==
    /\ runPc = "init"
    /\ runPc' = "loop"
    /\ tickPc' = "sleep"
    /\ watchPc' = "recv"
    /\ pollPc' = "recv"
    /\ UNCHANGED <<clientVars, etasks, estop, requeue, watchTask, pollCmd, shPc,
                   taskVars, histVars>>

\* Watch: select on inchan (a client or a Release goroutine) or stopchan.
WatchRecv(t) ==
    /\ watchPc = "recv"
    /\ t \in submitting \cup requeue
    /\ submitting' = submitting \ {t}
    /\ requeue' = requeue \ {t}
    /\ etasks' = etasks \cup {t}
    /\ watchPc' = "send"
    /\ watchTask' = t
    /\ UNCHANGED <<toSubmit, cmdsLeft, cmdSenders, estop, gorVars, taskVars, histVars>>

WatchStopped ==
    /\ watchPc \in {"recv", "send"}
    /\ estop
    /\ lost' = IF watchPc = "send" THEN lost \cup {watchTask} ELSE lost
    /\ watchPc' = "done"
    /\ watchTask' = NoTask

\* watcher: Watch returned, and the deferred c.close() closes c.stop under
\* runL.
WatchExit ==
    /\ WatchStopped
    /\ stop' = TRUE
    /\ UNCHANGED <<clientVars, etasks, estop, requeue, gorVars, frozen, hpc, hdone,
                   stopped, stoppers, ignored, reinject, done, claims>>

\* Balance ticker: the timer fires, then it offers on the balance channel.
TickFire ==
    /\ tickPc = "sleep"
    /\ tickPc' = "send"
    /\ UNCHANGED <<clientVars, coordVars, runPc, pollPc, pollCmd, shPc, taskVars, histVars>>

TickStop ==
    /\ tickPc \in {"sleep", "send"}
    /\ stop
    /\ tickPc' = "done"
    /\ UNCHANGED <<clientVars, coordVars, runPc, pollPc, pollCmd, shPc, taskVars, histVars>>

\* Command poller: coord.Command() selects on cmdchan or stopchan.
PollRecv(c) ==
    /\ pollPc = "recv"
    /\ c \in cmdSenders
    /\ cmdSenders' = cmdSenders \ {c}
    /\ pollPc' = "send"
    /\ pollCmd' = c
    /\ UNCHANGED <<toSubmit, submitting, cmdsLeft, coordVars, runPc, tickPc, shPc,
                   taskVars, histVars>>

\* Command() returns (nil, nil) after Close; the poller closes cmdChan.
PollNil ==
    /\ pollPc = "recv"
    /\ estop
    /\ pollPc' = "closed"
    /\ UNCHANGED <<clientVars, coordVars, runPc, pollCmd, tickPc, shPc, taskVars, histVars>>

\* The poller forwarding a command sees c.stop closed and closes cmdChan.
PollStop ==
    /\ pollPc = "send"
    /\ stop
    /\ pollPc' = "closed"
    /\ pollCmd' = NoCmd
    /\ UNCHANGED <<clientVars, coordVars, runPc, tickPc, shPc, taskVars, histVars>>

-----------------------------------------------------------------------------
(* The main loop (Run's for/select).  While frozen only stop and cmdChan   *)
(* are selected; Go picks among ready cases at random, so any enabled      *)
(* case may be taken, c.stop included.                                     *)

\* stopTask: look the task up under runL and, if running, start a goroutine
\* that calls its stop(); an unknown ID only logs a warning.
StopTasks(S) == stoppers \cup (S \cap running)

MainStop ==
    /\ runPc = "loop"
    /\ stop
    /\ runPc' = "shutdown"
    /\ UNCHANGED <<clientVars, coordVars, pollPc, pollCmd, tickPc, shPc, taskVars, histVars>>

\* <-balance: c.balance() asks Balance() for IDs and stops each of them.
MainBalance ==
    /\ runPc = "loop"
    /\ ~frozen
    /\ tickPc = "send"
    /\ tickPc' = "sleep"
    /\ \E release \in SUBSET running : stoppers' = StopTasks(release)
    /\ UNCHANGED <<clientVars, coordVars, runPc, pollPc, pollCmd, shPc, stop, frozen,
                   hpc, hdone, stopped, ignored, reinject, histVars>>

\* <-c.tasks from Watch (rendezvous) or from the ignore manager.
Received(t) ==
    \/ /\ watchPc = "send" /\ watchTask = t
       /\ watchPc' = "recv" /\ watchTask' = NoTask
       /\ UNCHANGED reinject
    \/ /\ t \in reinject
       /\ reinject' = reinject \ {t}
       /\ UNCHANGED <<watchPc, watchTask>>

\* Mutant of MainReject: a refused task is dropped, not handed to the
\* ignore manager.
MainRejectForgets(t) ==
    /\ runPc = "loop"
    /\ ~frozen
    /\ Received(t)
    /\ lost' = lost \cup {t}
    /\ UNCHANGED <<clientVars, etasks, estop, requeue, gorVars, stop, frozen, hpc, hdone,
                   stopped, stoppers, ignored, done, claims>>

\* A task c.ignored() reports is dropped; CanClaim refused adds an ignore.
MainReject(t) ==
    /\ runPc = "loop"
    /\ ~frozen
    /\ Received(t)
    /\ IF t \in ignored
       THEN /\ lost' = lost \cup {t} /\ UNCHANGED ignored
       ELSE /\ ignored' = ignored \cup {t} /\ UNCHANGED lost
    /\ UNCHANGED <<clientVars, etasks, estop, requeue, gorVars, stop, frozen, hpc, hdone,
                   stopped, stoppers, done, claims>>

\* CanClaim accepted, coord.Claim (always true here) and claimed(): under
\* runL, a closed c.stop or an already running ID drops the task; else a
\* new runningtask is stored, hwg incremented and the handler started.
MainClaim(t) ==
    /\ runPc = "loop"
    /\ ~frozen
    /\ Received(t)
    /\ t \notin ignored
    /\ claims' = claims \cup {t}
    /\ IF stop \/ t \in running
       THEN /\ lost' = lost \cup {t}
            /\ UNCHANGED <<hpc, stopped>>
       ELSE /\ hpc' = [hpc EXCEPT ![t] = "run"]
            /\ stopped' = [stopped EXCEPT ![t] = FALSE]
            /\ UNCHANGED lost
    /\ UNCHANGED <<clientVars, etasks, estop, requeue, gorVars, stop, frozen, hdone,
                   stoppers, ignored, done>>

\* handleCommand for the command the poller forwarded on cmdChan.
HandleCommand(c) ==
    CASE c.name = "freeze"      -> frozen' = TRUE /\ UNCHANGED stoppers
      [] c.name = "unfreeze"    -> frozen' = FALSE /\ UNCHANGED stoppers
      [] c.name = "run_balance" -> /\ \E release \in SUBSET running :
                                        stoppers' = StopTasks(release)
                                   /\ UNCHANGED frozen
      [] c.name = "stop_task"   -> /\ stoppers' = IF c.task = NoTask THEN stoppers
                                                  ELSE StopTasks({c.task})
                                   /\ UNCHANGED frozen
      [] OTHER                  -> UNCHANGED <<frozen, stoppers>>

MainCommand ==
    /\ runPc = "loop"
    /\ pollPc = "send"
    /\ HandleCommand(pollCmd)
    /\ pollPc' = "recv"
    /\ pollCmd' = NoCmd
    /\ UNCHANGED <<clientVars, coordVars, runPc, tickPc, shPc, stop, hpc, hdone, stopped,
                   ignored, reinject, histVars>>

\* cmdChan closed: the main loop returns without closing c.stop.
MainCmdClosed ==
    /\ runPc = "loop"
    /\ pollPc = "closed"
    /\ runPc' = "shutdown"
    /\ UNCHANGED <<clientVars, coordVars, pollPc, pollCmd, tickPc, shPc, taskVars, histVars>>

\* EmbeddedCoordinator.Close: close(stopchan).
CoordClose == estop' = TRUE

\* Mutant of RunShutdown: the coordinator is closed but the running tasks
\* are not stopped before hwg.Wait().
RunShutdownNoStop ==
    /\ runPc = "shutdown"
    /\ CoordClose
    /\ runPc' = "wait"
    /\ UNCHANGED <<clientVars, etasks, requeue, watchPc, watchTask, pollPc, pollCmd, tickPc,
                   shPc, stop, frozen, hpc, hdone, stopped, stoppers, ignored, reinject, histVars>>

\* Run's deferred shutdown(): coord.Close(), then stopTask for every task
\* of the Tasks() snapshot, then hwg.Wait().
RunShutdown ==
    /\ runPc = "shutdown"
    /\ CoordClose
    /\ stoppers' = StopTasks(running)
    /\ runPc' = "wait"
    /\ UNCHANGED <<clientVars, etasks, requeue, watchPc, watchTask, pollPc, pollCmd, tickPc,
                   shPc, stop, frozen, hpc, hdone, stopped, ignored, reinject, histVars>>

\* hwg.Wait() returned; Run returns and its deferred runwg.Done() runs.
RunExit ==
    /\ runPc = "wait"
    /\ hwg = 0
    /\ runPc' = "exited"
    /\ UNCHANGED <<clientVars, coordVars, pollPc, pollCmd, tickPc, shPc, taskVars, histVars>>

-----------------------------------------------------------------------------
(* Handlers and stopTask goroutines                                        *)

\* A stopTask goroutine runs runningtask.stop(): under stopL it records the
\* first stop time and calls h.Stop().
StopRun(t) ==
    /\ t \in stoppers
    /\ stoppers' = stoppers \ {t}
    /\ stopped' = [stopped EXCEPT ![t] = TRUE]
    /\ UNCHANGED <<clientVars, coordVars, gorVars, stop, frozen, hpc, hdone, ignored,
                   reinject, histVars>>

\* h.Run returns done, or panics (recovered, counted as done = TRUE); the
\* deferred function in runTask deletes the task from c.running.  A stopTask
\* goroutine still pending now only reaches a handler that has returned.
HandlerReturn(t) ==
    /\ hpc[t] = "run"
    /\ \E d \in BOOLEAN : hdone' = [hdone EXCEPT ![t] = d]
    /\ hpc' = [hpc EXCEPT ![t] = "exiting"]
    /\ stoppers' = stoppers \ {t}
    /\ UNCHANGED <<clientVars, coordVars, gorVars, stop, frozen, stopped, ignored,
                   reinject, histVars>>

\* EmbeddedCoordinator.Done: delete the ID from tasks under tasksL.
CoordDone(t) == etasks' = etasks \ {t}

\* coord.Done(t) deletes it from EmbeddedCoordinator.tasks; coord.Release(t)
\* starts a goroutine re-sending it on inchan.  Then hwg.Done().
HandlerFinish(t) ==
    /\ hpc[t] = "exiting"
    /\ IF hdone[t]
       THEN /\ CoordDone(t)
            /\ done' = done \cup {t}
            /\ UNCHANGED requeue
       ELSE /\ requeue' = requeue \cup {t}
            /\ UNCHANGED <<etasks, done>>
    /\ claims' = claims \ {t}
    /\ hpc' = [hpc EXCEPT ![t] = "none"]
    \* the goroutine's done and its runningtask are gone
    /\ hdone' = [hdone EXCEPT ![t] = FALSE]
    /\ stopped' = [stopped EXCEPT ![t] = FALSE]
    /\ UNCHANGED <<clientVars, estop, watchPc, watchTask, gorVars, stop, frozen,
                   stoppers, ignored, reinject, lost>>

\* Mutant of RequeueDrop: the Release goroutine gives up without waiting
\* for stopchan (a select with a default case).
RequeueGiveUp(t) ==
    /\ t \in requeue
    /\ requeue' = requeue \ {t}
    /\ lost' = lost \cup {t}
    /\ UNCHANGED <<clientVars, etasks, estop, watchPc, watchTask, gorVars, taskVars,
                   done, claims>>

\* A Release goroutine sees stopchan closed and gives up re-sending.
RequeueDrop(t) ==
    /\ t \in requeue
    /\ estop
    /\ requeue' = requeue \ {t}
    /\ lost' = lost \cup {t}
    /\ UNCHANGED <<clientVars, etasks, estop, watchPc, watchTask, gorVars, taskVars,
                   done, claims>>

-----------------------------------------------------------------------------
(* Ignore manager (its source is not in the repository; modelled from the  *)
(* spec): on expiry the entry is removed and the task re-sent on c.tasks,  *)
(* a send that gives up when c.stop closes.                                *)

IgnoreExpire(t) ==
    /\ t \in ignored
    /\ ~stop
    /\ ignored' = ignored \ {t}
    /\ reinject' = reinject \cup {t}
    /\ UNCHANGED <<clientVars, coordVars, gorVars, stop, frozen, hpc, hdone, stopped,
                   stoppers, histVars>>

ReinjectDrop(t) ==
    /\ t \in reinject
    /\ stop
    /\ reinject' = reinject \ {t}
    /\ lost' = lost \cup {t}
    /\ UNCHANGED <<clientVars, coordVars, gorVars, stop, frozen, hpc, hdone, stopped,
                   stoppers, ignored, done, claims>>

-----------------------------------------------------------------------------
(* Shutdown: close() under runL, hwg.Wait(), then runwg.Wait() under       *)
(* runwgL.  runwg counts a Run only once Run has called runwg.Add(1).      *)

ShutdownBegin ==
    /\ shPc = "idle"
    /\ shPc' = "waitH"
    /\ stop' = TRUE
    /\ UNCHANGED <<clientVars, coordVars, runPc, pollPc, pollCmd, tickPc, frozen, hpc,
                   hdone, stopped, stoppers, ignored, reinject, histVars>>

ShutdownWaitHandlers ==
    /\ shPc = "waitH"
    /\ hwg = 0
    /\ shPc' = "waitRun"
    /\ UNCHANGED <<clientVars, coordVars, runPc, pollPc, pollCmd, tickPc, taskVars, histVars>>

ShutdownWaitRun ==
    /\ shPc = "waitRun"
    /\ runPc \in {"init", "exited"}
    /\ shPc' = "returned"
    /\ UNCHANGED <<clientVars, coordVars, runPc, pollPc, pollCmd, tickPc, taskVars, histVars>>

-----------------------------------------------------------------------------
\* NewEmbeddedCoordinator: an empty task map and an open stopchan; Watch is
\* not running yet and no Release goroutine exists.
CoordInit ==
    /\ etasks = {}
    /\ estop = FALSE
    /\ requeue = {}
    /\ watchPc = "off"
    /\ watchTask = NoTask

\* NewEmbeddedPair: the unbuffered task and command channels, with no sender
\* blocked on them yet, shared by the client and a new coordinator.
PairInit ==
    /\ submitting = {}
    /\ cmdSenders = {}
    /\ CoordInit

Init ==
    /\ toSubmit = Tasks
    /\ cmdsLeft = MaxCmds
    /\ PairInit
    /\ runPc = "init"
    /\ pollPc = "off"
    /\ pollCmd = NoCmd
    /\ tickPc = "off"
    /\ shPc = "idle"
    /\ stop = FALSE
    /\ frozen = FALSE
    /\ hpc = [t \in Tasks |-> "none"]
    /\ hdone = [t \in Tasks |-> FALSE]
    /\ stopped = [t \in Tasks |-> FALSE]
    /\ stoppers = {}
    /\ ignored = {}
    /\ reinject = {}
    /\ done = {}
    /\ lost = {}
    /\ claims = {}

Next ==
    \/ \E t \in Tasks : SubmitTask(t)
    \/ \E c \in Commands : SubmitCommand(c)
    \/ RunStart
    \/ \E t \in Tasks : WatchRecv(t)
    \/ WatchExit
    \/ TickFire \/ TickStop
    \/ \E c \in Commands : PollRecv(c)
    \/ PollNil \/ PollStop
    \/ MainStop \/ MainBalance \/ MainCommand \/ MainCmdClosed
    \/ \E t \in Tasks : MainReject(t) \/ MainClaim(t)
    \/ RunShutdown \/ RunExit
    \/ \E t \in Tasks : StopRun(t) \/ HandlerReturn(t) \/ HandlerFinish(t)
    \/ \E t \in Tasks : RequeueDrop(t) \/ IgnoreExpire(t) \/ ReinjectDrop(t)
    \/ ShutdownBegin \/ ShutdownWaitHandlers \/ ShutdownWaitRun

Spec == Init /\ [][Next]_vars

\* Fairness the code's scheduling justifies: every goroutine that is ready
\* to run eventually runs (weak); a channel receive among several senders
\* and a select among several ready cases are eventually served for each
\* sender and case (strong: Go queues blocked senders FIFO and picks ready
\* select cases at random).  A handler is assumed to return once h.Stop()
\* was called, and the balancer to accept a task it is offered again and
\* again.  The user (Shutdown), the client and the handlers' own
\* completion are not fair: they may never act.
HandlerHonorsStop(t) == stopped[t] /\ HandlerReturn(t)

Fairness ==
    /\ WF_vars(RunStart)
    /\ WF_vars(WatchExit) /\ WF_vars(TickStop) /\ WF_vars(PollNil) /\ WF_vars(PollStop)
    /\ WF_vars(MainStop) /\ WF_vars(MainCommand) /\ WF_vars(MainCmdClosed)
    /\ WF_vars(RunShutdown) /\ WF_vars(RunExit)
    /\ WF_vars(ShutdownWaitHandlers) /\ WF_vars(ShutdownWaitRun)
    /\ \A t \in Tasks :
        /\ SF_vars(WatchRecv(t)) /\ SF_vars(MainClaim(t))
        /\ WF_vars(StopRun(t)) /\ WF_vars(HandlerHonorsStop(t)) /\ WF_vars(HandlerFinish(t))
        /\ WF_vars(RequeueDrop(t)) /\ WF_vars(IgnoreExpire(t)) /\ WF_vars(ReinjectDrop(t))
    /\ \A c \in Commands : SF_vars(PollRecv(c))

FairSpec == Spec /\ Fairness

-----------------------------------------------------------------------------
(* Properties                                                              *)

\* Every variable stays in its domain; in particular only real tasks are
\* ever recorded as held, dropped or claimed.
TypeOK ==
    /\ toSubmit \subseteq Tasks /\ submitting \subseteq Tasks
    /\ cmdsLeft \in 0..MaxCmds /\ cmdSenders \subseteq Commands
    /\ etasks \subseteq Tasks /\ estop \in BOOLEAN /\ requeue \subseteq Tasks
    /\ watchPc \in {"off", "recv", "send", "done"} /\ watchTask \in Tasks \cup {NoTask}
    /\ runPc \in {"init", "loop", "shutdown", "wait", "exited"}
    /\ pollPc \in {"off", "recv", "send", "closed"} /\ pollCmd \in Commands \cup {NoCmd}
    /\ tickPc \in {"off", "sleep", "send", "done"}
    /\ shPc \in {"idle", "waitH", "waitRun", "returned"}
    /\ stop \in BOOLEAN /\ frozen \in BOOLEAN
    /\ hpc \in [Tasks -> {"none", "run", "exiting"}]
    /\ hdone \in [Tasks -> BOOLEAN] /\ stopped \in [Tasks -> BOOLEAN]
    /\ stoppers \subseteq Tasks /\ ignored \subseteq Tasks /\ reinject \subseteq Tasks
    /\ done \subseteq Tasks /\ lost \subseteq Tasks /\ claims \subseteq Tasks

\* The places a task can be in: with the client, in a Release goroutine,
\* held by Watch, in the ignore manager, with a handler, finished, dropped.
Places(t) ==
    {p \in {"client", "requeue", "watch", "ignored", "reinject", "handler", "done", "lost"} :
        \/ p = "client"   /\ t \in toSubmit \cup submitting
        \/ p = "requeue"  /\ t \in requeue
        \/ p = "watch"    /\ watchPc = "send" /\ watchTask = t
        \/ p = "ignored"  /\ t \in ignored
        \/ p = "reinject" /\ t \in reinject
        \/ p = "handler"  /\ hpc[t] # "none"
        \/ p = "done"     /\ t \in done
        \/ p = "lost"     /\ t \in lost}

\* Each task is in exactly one place at a time (Watch, the release
\* goroutines, the ignore manager and the handlers never duplicate a task),
\* a task with a handler is one the coordinator knows (so Release never hits
\* its "never been seen" panic), and a task is dropped only once shutdown
\* has begun (c.stop or the coordinator's stopchan closed).
TaskConservation ==
    /\ \A t \in Tasks : Cardinality(Places(t)) = 1
    /\ \A t \in Tasks : hpc[t] # "none" => t \in etasks
    /\ lost # {} => stop \/ estop

\* A Shutdown call returns: Run's shutdown() stops every running handler and
\* both hwg.Wait() calls and runwg.Wait() are released.
ShutdownTerminates == shPc = "waitH" ~> shPc = "returned"

\* A submitted task is eventually run by a handler (or finished), unless the
\* consumer stops or is frozen first: Watch, the main loop, the ignore
\* manager's re-injection and Release's re-enqueue never strand it.
TaskProgress ==
    \A t \in Tasks : t \in submitting ~> (hpc[t] = "run" \/ t \in done \/ stop \/ frozen)

\* Every successful Claim is followed by a Release or Done (spec invariant
\* 3): a task claimed and not yet released has a live handler.
ClaimsFinalised == claims \subseteq {t \in Tasks : hpc[t] # "none"}

\* Once Shutdown has returned, a Run that has started has closed the
\* coordinator (the comment in Shutdown: "otherwise Shutdown() might exit
\* before coord.Close() is called").
ShutdownClosesCoordinator == shPc = "returned" /\ runPc # "init" => estop
=============================================================================
