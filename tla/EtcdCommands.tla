---------------------------- MODULE EtcdCommands ----------------------------
(***************************************************************************)
(* Command delivery to one node through etcd (src/m_etcd/coordinator.go,   *)
(* Command and parseCommand; src/unnamed/part_000, SubmitCommand) and the  *)
(* consumer's command poller that calls Command in a loop                  *)
(* (src/embedded/client.go, Run).  A command is a key under the node's     *)
(* commands directory; etcd's index counts writes, and a watch from index  *)
(* i returns the first event at or after i.  The response's EtcdIndex is   *)
(* etcd's current index when the response is made: for a watch that had   *)
(* to wait, the index when the wait began.                                 *)
(***************************************************************************)
EXTENDS Naturals, Sequences, FiniteSets, SequencesExt, FiniteSetsExt

CONSTANTS
    Cmds,          \* command keys, in the order SubmitCommand may add them
    Invalid,       \* keys whose body UnmarshalCommand rejects
    MaxFail,       \* bound on failed etcd calls (Delete, watch, GET)
    History        \* events etcd keeps in its watch history

ASSUME Invalid \subseteq Cmds /\ MaxFail \in Nat /\ History \in Nat \ {0}

VARIABLES
    present,    \* command keys in etcd
    log,        \* etcd event history: [act, key]; event i has index i
    cpc,        \* poller: "start", "get", "watch", "wait", "restart", "exited",
                \* "crashed"
    getList,    \* nodes of the last GET not yet parsed
    index,      \* Command's watch index
    wstart,     \* etcd index when the pending watch began to wait
    delivered,  \* key -> times Command returned it
    delFailed,  \* keys whose Delete failed at least once
    fails,      \* failed etcd calls so far
    closed      \* the coordinator's stop channel is closed

vars == <<present, log, cpc, getList, index, wstart, delivered, delFailed,
          fails, closed>>

EtcdIndex == Len(log)

Submitted == {log[i].key : i \in {j \in 1..Len(log) : log[j].act = "create"}}

\* etcd index of a key's creation (AddChild keys sort in this order)
CreatedAt(c) == SelectInSeq(log, LAMBDA e : e.act = "create" /\ e.key = c)

\* The first event at or after watch index i, if any.
EventsFrom(i) == {j \in 1..Len(log) : j >= i}

\* ec.watch fails with EcodeExpiredIndex when index+1 is older than the
\* oldest event etcd still keeps, and returns restartWatchError.
Expired == index + History < EtcdIndex

-----------------------------------------------------------------------------
\* Mutant of SubmitCommand: a fixed key is set, overwriting a pending command.
SubmitCommandOverwrite(c) ==
    /\ present' = present \cup {c}
    /\ log' = Append(log, [act |-> "create", key |-> c])
    /\ UNCHANGED <<cpc, getList, index, wstart, delivered, delFailed, fails, closed>>

\* mclient.SubmitCommand: AddChild under nodes/<id>/commands.
SubmitCommand(c) ==
    /\ c \notin Submitted
    /\ present' = present \cup {c}
    /\ log' = Append(log, [act |-> "create", key |-> c])
    /\ UNCHANGED <<cpc, getList, index, wstart, delivered, delFailed, fails, closed>>

\* Mutant of DeleteKey: the handled command is not deleted.
DeleteKeyNoop(c) == UNCHANGED <<present, log, delFailed, fails>>

\* parseCommand's Delete of the key: it fails when the key is gone, or on an
\* etcd error; either way it is only logged.
DeleteKey(c) ==
    \/ /\ c \in present
       /\ present' = present \ {c}
       /\ log' = Append(log, [act |-> "delete", key |-> c])
       /\ UNCHANGED <<delFailed, fails>>
    \/ /\ c \notin present
       /\ UNCHANGED <<present, log, delFailed, fails>>
    \/ /\ c \in present /\ fails < MaxFail
       /\ delFailed' = delFailed \cup {c}
       /\ fails' = fails + 1
       /\ UNCHANGED <<present, log>>

\* Command returns a command: the poller hands it to the main loop and
\* calls Command again.
Deliver(c) ==
    /\ delivered' = [delivered EXCEPT ![c] = @ + 1]
    /\ cpc' = "start"

\* Mutant of CommandStart: existing keys are not parsed, only watched past.
CommandStartNoExisting ==
    /\ cpc = "start"
    /\ \/ /\ closed
          /\ cpc' = "exited"
          /\ UNCHANGED <<getList, index, fails>>
       \/ /\ ~closed
          /\ cpc' = "get"
          /\ getList' = <<>>
          /\ index' = EtcdIndex
          /\ UNCHANGED fails
       \/ /\ ~closed /\ fails < MaxFail
          /\ cpc' = "exited"
          /\ fails' = fails + 1
          /\ UNCHANGED <<getList, index>>
    /\ UNCHANGED <<present, log, wstart, delivered, delFailed, closed>>

\* Command's GET of the commands directory, at the top of the startWatch
\* loop; an error is returned and ends the poller.
GetCommands ==
    \/ /\ cpc' = "get"
       /\ getList' = SetToSortSeq(present, LAMBDA a, b : CreatedAt(a) < CreatedAt(b))
       /\ index' = EtcdIndex
       /\ UNCHANGED fails
    \/ /\ fails < MaxFail
       /\ cpc' = "exited"
       /\ fails' = fails + 1
       /\ UNCHANGED <<getList, index>>

\* Command: return nil at once if closed, else GET the commands directory.
CommandStart ==
    /\ cpc = "start"
    /\ \/ /\ closed
          /\ cpc' = "exited"
          /\ UNCHANGED <<getList, index, fails>>
       \/ /\ ~closed
          /\ GetCommands
    /\ UNCHANGED <<present, log, wstart, delivered, delFailed, closed>>

\* Mutant of CommandRestart: the watch goes on from etcd's current index
\* without a new GET.
CommandRestartNoGet ==
    /\ cpc = "restart"
    /\ cpc' = "watch"
    /\ index' = EtcdIndex
    /\ UNCHANGED <<present, log, getList, wstart, delivered, delFailed, fails, closed>>

\* restartWatchError: `continue startWatch` takes a new GET, without the
\* closed check at the top of Command.
CommandRestart ==
    /\ cpc = "restart"
    /\ GetCommands
    /\ UNCHANGED <<present, log, wstart, delivered, delFailed, closed>>

\* The GET loop: parseCommand on the next node (Delete, then unmarshal the
\* value the GET returned); a valid command is returned.
CommandGetNext ==
    /\ cpc = "get"
    /\ \/ /\ getList = <<>>
          /\ cpc' = "watch"
          /\ UNCHANGED <<present, log, getList, delivered, delFailed, fails>>
       \/ /\ getList # <<>>
          /\ LET c == Head(getList) IN
             /\ DeleteKey(c)
             /\ getList' = Tail(getList)
             /\ IF c \in Invalid
                THEN UNCHANGED <<cpc, delivered>>
                ELSE Deliver(c)
    /\ UNCHANGED <<index, wstart, closed>>

\* parseCommand on a watch response carrying event e, then the loop goes on
\* from the response's EtcdIndex when nothing was returned.
Respond(e, respIndex) ==
    /\ DeleteKey(e.key)
    /\ IF e.act = "create" /\ e.key \notin Invalid
       THEN /\ Deliver(e.key)
            /\ UNCHANGED index
       ELSE /\ cpc' = "watch"
            /\ index' = respIndex
            /\ UNCHANGED delivered

\* ec.watch from index+1: an event already there is returned at once; else
\* the watch waits.  A closed stop channel ends it (Command returns nil);
\* an index older than etcd's history restarts Command with a GET; any
\* other error falls through to parseCommand with a nil response.
CommandWatch ==
    /\ cpc = "watch"
    /\ \/ /\ closed
          /\ cpc' = "exited"
          /\ UNCHANGED <<present, log, index, wstart, delivered, delFailed, fails>>
       \/ /\ ~closed /\ Expired
          /\ cpc' = "restart"
          /\ UNCHANGED <<present, log, index, wstart, delivered, delFailed, fails>>
       \/ /\ ~closed /\ ~Expired /\ EventsFrom(index + 1) # {}
          /\ Respond(log[Min(EventsFrom(index + 1))], EtcdIndex)
          /\ UNCHANGED wstart
       \/ /\ ~closed /\ EventsFrom(index + 1) = {}
          /\ cpc' = "wait"
          /\ wstart' = EtcdIndex
          /\ UNCHANGED <<present, log, index, delivered, delFailed, fails>>
       \/ /\ ~closed /\ fails < MaxFail
          /\ cpc' = "crashed"
          /\ fails' = fails + 1
          /\ UNCHANGED <<present, log, index, wstart, delivered, delFailed>>
    /\ UNCHANGED <<getList, closed>>

\* A waiting watch returns with the first new event, or ends on close.
CommandWake ==
    /\ cpc = "wait"
    /\ \/ /\ closed
          /\ cpc' = "exited"
          /\ UNCHANGED <<present, log, index, delivered, delFailed, fails>>
       \/ /\ ~closed /\ EventsFrom(index + 1) # {}
          /\ Respond(log[Min(EventsFrom(index + 1))], wstart)
    /\ UNCHANGED <<getList, wstart, closed>>

\* EtcdCoordinator.Close closes the stop channel.
Close ==
    /\ ~closed
    /\ closed' = TRUE
    /\ UNCHANGED <<present, log, cpc, getList, index, wstart, delivered,
                   delFailed, fails>>

-----------------------------------------------------------------------------
Init ==
    /\ present = {} /\ log = <<>>
    /\ cpc = "start" /\ getList = <<>> /\ index = 0 /\ wstart = 0
    /\ delivered = [c \in Cmds |-> 0]
    /\ delFailed = {} /\ fails = 0 /\ closed = FALSE

Next ==
    \/ \E c \in Cmds : SubmitCommand(c)
    \/ CommandStart \/ CommandGetNext \/ CommandWatch \/ CommandWake
    \/ CommandRestart
    \/ Close

Spec == Init /\ [][Next]_vars

\* The poller goroutine runs whenever it can.
FairSpec == Spec /\ WF_vars(CommandStart) /\ WF_vars(CommandGetNext)
                 /\ WF_vars(CommandWatch) /\ WF_vars(CommandWake)
                 /\ WF_vars(CommandRestart)

-----------------------------------------------------------------------------
(* Properties                                                              *)

\* Every variable stays in its domain.
TypeOK ==
    /\ present \subseteq Cmds
    /\ log \in Seq([act : {"create", "delete"}, key : Cmds])
    /\ \A i, j \in 1..Len(log) : i < j /\ log[i].key = log[j].key => log[i].act = "create"
                                                         /\ log[j].act = "delete"
    /\ cpc \in {"start", "get", "watch", "wait", "restart", "exited", "crashed"}
    /\ getList \in Seq(Cmds) /\ index \in 0..EtcdIndex /\ wstart \in 0..EtcdIndex
    /\ delivered \in [Cmds -> Nat] /\ delFailed \subseteq Cmds
    /\ fails \in 0..MaxFail /\ closed \in BOOLEAN

\* Command delivers a command twice only if a Delete of it failed: the
\* GET loop and the watch both delete before returning, and the next
\* Command call starts from a GET taken after that delete.
DuplicateOnlyAfterFailedDelete ==
    \A c \in Cmds : delivered[c] > 1 => c \in delFailed

\* Every valid command submitted is eventually returned by Command, unless
\* the coordinator closes or the poller ends on an error.
CommandEventuallyDelivered ==
    \A c \in Cmds \ Invalid :
        c \in Submitted ~> (delivered[c] > 0 \/ closed \/ cpc \in {"exited", "crashed"})
=============================================================================
