---------------------------- MODULE EtcdCommander ----------------------------
(***************************************************************************)
(* State-machine commands over etcd (src/m_etcd/commander.go): a cmdr      *)
(* Sends a command to a task by Setting the task's command key (the last   *)
(* Send wins), and the task's cmdrListener goroutine (watcher) GETs the    *)
(* key, then watches it, deleting each new command with CompareAndDelete   *)
(* on its value before passing it to the handler on an unbuffered channel. *)
(* The handler receives from Receive() and calls Stop when it ends.        *)
(*                                                                         *)
(* The watcher's GET check is inverted (err == nil where err != nil is     *)
(* meant), so the watch loop and the delivery of a command are not         *)
(* reachable; they are modelled as written all the same.                   *)
(***************************************************************************)
EXTENDS Naturals, Sequences

CONSTANTS
    Msgs,      \* command messages a commander may send
    NoMsg,     \* no message: the nil error of sendErr(nil)
    MaxSets    \* bound on the commander's Sends

ASSUME NoMsg \notin Msgs /\ MaxSets \in Nat

NoKey == [val |-> NoMsg, mod |-> 0]

VARIABLES
    log,       \* etcd events on the command key, event i has index i
    kv,        \* the key: [val, mod] (value and ModifiedIndex), or NoKey
    lpc,       \* watcher: "get", "watch", "cad", "deliver", "sendErr",
               \*          "exited", "panicked" (a nil dereference)
    index,     \* watcher's watch index
    cur,       \* index of the event sendMsg is handling
    out,       \* message the watcher is sending to the handler
    stop,      \* cmdrListener.stop closed
    received   \* messages the handler took from Receive(), in order

vars == <<log, kv, lpc, index, cur, out, stop, received>>

Message == [code : {"command", "error"}, msg : Msgs \cup {NoMsg}]

\* RawWatch(path, index): the first event at or after index (inclusive).
FirstFrom(i) == CHOOSE j \in 1..Len(log) : j >= i /\ \A k \in 1..Len(log) : k >= i => j <= k

-----------------------------------------------------------------------------
\* cmdr.Send: Set the key to the marshalled message (cmdTTL: a week).
Send(m) ==
    /\ Len(log) < MaxSets
    /\ log' = Append(log, [act |-> "set", val |-> m])
    /\ kv' = [val |-> m, mod |-> Len(log) + 1]
    /\ UNCHANGED <<lpc, index, cur, out, stop, received>>

\* cmdrListener.Stop: close stop once, under the mutex.
Stop ==
    /\ ~stop
    /\ stop' = TRUE
    /\ UNCHANGED <<log, kv, lpc, index, cur, out, received>>

\* watcher, startWatch: GET the key.  With err == nil the type assertion on
\* the nil error fails and sendErr(nil) follows; when the key is not found
\* (err != nil) sendMsg(nil) dereferences the nil response.  A failing etcd
\* takes that second branch too; it is not modelled as a fault here.
WatcherGet ==
    /\ lpc = "get"
    /\ \/ /\ kv # NoKey
          /\ lpc' = "sendErr"
          /\ out' = [code |-> "error", msg |-> NoMsg]
       \/ /\ kv = NoKey
          /\ lpc' = "panicked"
          /\ UNCHANGED out
    /\ UNCHANGED <<log, kv, index, cur, stop, received>>

\* sendErr: the handler receives the error, or stop is closed; the watcher
\* then returns.
SendErr ==
    /\ lpc = "sendErr"
    /\ \/ received' = Append(received, out)
       \/ stop /\ UNCHANGED received
    /\ lpc' = "exited"
    /\ UNCHANGED <<log, kv, index, cur, out, stop>>

\* watchLoop: RawWatch from index returns the first event at or after it;
\* a closed stop ends the watcher; any other error is sent to the handler.
WatchNext ==
    /\ lpc = "watch"
    /\ \/ /\ stop
          /\ lpc' = "exited"
          /\ UNCHANGED <<cur, out>>
       \/ /\ ~stop /\ \E j \in 1..Len(log) : j >= index
          /\ cur' = FirstFrom(index)
          /\ lpc' = "cad"
          /\ UNCHANGED out
       \/ /\ ~stop
          /\ lpc' = "sendErr"
          /\ out' = [code |-> "error", msg |-> NoMsg]
          /\ UNCHANGED cur
    /\ UNCHANGED <<log, kv, index, stop, received>>

\* sendMsg up to its send: events that are not a create or set are skipped;
\* CompareAndDelete on the event's value deletes the key; a compare failure
\* (a later, different command) skips the event; any other error (the key
\* is gone) is sent to the handler.  The returned index is overwritten by
\* the loop with the event's ModifiedIndex (index = resp.Node.ModifiedIndex).
SendMsg ==
    /\ lpc = "cad"
    /\ LET e == log[cur] IN
       \/ /\ e.act # "set"
          /\ lpc' = "watch" /\ index' = cur
          /\ UNCHANGED <<log, kv, out>>
       \/ /\ e.act = "set" /\ kv # NoKey /\ kv.val = e.val
          /\ log' = Append(log, [act |-> "compareAndDelete", val |-> e.val])
          /\ kv' = NoKey
          /\ out' = [code |-> "command", msg |-> e.val]
          /\ lpc' = "deliver" /\ index' = cur
       \/ /\ e.act = "set" /\ kv # NoKey /\ kv.val # e.val
          /\ lpc' = "watch" /\ index' = cur
          /\ UNCHANGED <<log, kv, out>>
       \/ /\ e.act = "set" /\ kv = NoKey
          /\ lpc' = "sendErr"
          /\ out' = [code |-> "error", msg |-> NoMsg]
          /\ UNCHANGED <<log, kv, index>>
    /\ UNCHANGED <<cur, stop, received>>

\* sendMsg's send: the handler receives the command, or stop is closed.
Deliver ==
    /\ lpc = "deliver"
    /\ \/ /\ received' = Append(received, out)
          /\ lpc' = "watch"
       \/ /\ stop
          /\ lpc' = "exited"
          /\ UNCHANGED received
    /\ UNCHANGED <<log, kv, index, cur, out, stop>>

-----------------------------------------------------------------------------
\* NewCommandListener starts the watcher; a command may already be waiting.
Init ==
    /\ log \in {<<>>} \cup {<<[act |-> "set", val |-> m]>> : m \in Msgs}
    /\ kv = IF log = <<>> THEN NoKey ELSE [val |-> log[1].val, mod |-> 1]
    /\ lpc = "get" /\ index = 0 /\ cur = 0
    /\ out = [code |-> "error", msg |-> NoMsg]
    /\ stop = FALSE /\ received = <<>>

Next ==
    \/ \E m \in Msgs : Send(m)
    \/ Stop
    \/ WatcherGet \/ SendErr \/ WatchNext \/ SendMsg \/ Deliver

Spec == Init /\ [][Next]_vars

\* The watcher goroutine runs whenever it can, and the handler receives from
\* Receive() while it runs (the statemachine's contract).
FairSpec == Spec /\ WF_vars(WatcherGet) /\ WF_vars(SendErr) /\ WF_vars(WatchNext)
                 /\ WF_vars(SendMsg) /\ WF_vars(Deliver)

-----------------------------------------------------------------------------
(* Properties                                                              *)

\* A command left in etcd for a running listener is eventually taken: the
\* watcher deletes it and hands it to the handler ("Remove command so it's
\* not processed twice"), unless the handler stops the listener first.
CommandConsumed == kv # NoKey ~> (kv = NoKey \/ stop)
=============================================================================
