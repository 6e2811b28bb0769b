------------------------------- MODULE PubSub -------------------------------
(***************************************************************************)
(* The pub/sub hub (internal/pubsub) with the goroutines that use it: one  *)
(* for each connection, which runs its commands (dispatch.go,              *)
(* cmd_pubsub.go, Server.closeConn), and one writePump for each Subscriber.*)
(*                                                                         *)
(* Hub.mu is held within a step and not between steps.  A command is a     *)
(* list of operations, its task: what runs under one hold of the lock, one *)
(* send on a channel, one call of closeConn.  A client may send commands   *)
(* without waiting for the replies.                                        *)
(***************************************************************************)
EXTENDS Integers, Sequences, FiniteSetsExt

CONSTANTS
    Conns,       \* connections
    Channels,
    MaxBuffer,   \* capacity of Subscriber.ch
    MaxCommands, \* bound: commands of one connection
    MaxSubs      \* bound: Subscribers made for one connection

Subs == Conns \X (1..MaxSubs)
NoSub == 0

VARIABLES
    sub,      \* Hub.subscribers: the number of the connection's Subscriber, or NoSub
    made,     \* Subscribers made for the connection so far
    channels, \* Subscriber.channels
    members,  \* Hub.channels
    queue,    \* Subscriber.ch
    done,     \* Subscribers whose done is closed
    ended,    \* Subscribers whose writePump has returned
    stuck,    \* TRUE: a panic has left Hub.mu locked
    late,     \* history: connections that a SUBSCRIBE entered after closeConn had run
    task,     \* operations that the connection's goroutine has yet to do
    asked,    \* commands of the connection so far
    buf,      \* cs.Buf: replies not flushed
    out,      \* what has been written to the socket
    gone,     \* connections whose goroutine has left its loop
    closed    \* connections that closeConn has closed

hub == <<sub, made, channels, members, done, stuck, late>>
vars == <<hub, queue, ended, task, asked, buf, out, gone, closed>>

Exists(c) == sub[c] # NoSub
Of(c) == <<c, sub[c]>>
Live(s) == sub[s[1]] = s[2]

Reply(c) == [kind |-> "reply", of |-> c, n |-> asked[c]]
Message(c) == [kind |-> "message", of |-> c, n |-> asked[c]]

Done(c, ops) == task' = [task EXCEPT ![c] = ops \o Tail(@)]
Doing(c, op) == ~stuck /\ task[c] # <<>> /\ Head(task[c]).op = op

(***************************************************************************)
(* A command, in subscriber mode and outside                               *)
(***************************************************************************)
Commands == [op : {"subscribe", "unsubscribe", "publish"}, channel : Channels]
            \cup [op : {"ping"}]

\* The operations of a command, c being a subscriber when it was received.
Pushed(c, cmd) ==
    LET reply == [op |-> "send", frame |-> Reply(c)'] IN
    CASE cmd.op = "subscribe" -> <<cmd>>
      [] cmd.op = "unsubscribe" -> <<reply, cmd>>
      [] cmd.op = "publish" -> <<cmd, reply>>
      [] cmd.op = "ping" -> <<reply>>

Classic(c, cmd) ==
    LET reply == [op |-> "write", frame |-> Reply(c)'] IN
    CASE cmd.op = "subscribe" -> <<[op |-> "flush"], cmd>>
      [] cmd.op = "ping" -> <<reply>>
      [] OTHER -> <<cmd, reply>>

Receive(c, cmd) ==
    /\ ~stuck
    /\ c \notin gone
    /\ task[c] = <<>>
    /\ asked[c] < MaxCommands
    /\ cmd.op = "subscribe" => (Exists(c) \/ made[c] < MaxSubs)
    /\ asked' = [asked EXCEPT ![c] = @ + 1]
    /\ task' = [task EXCEPT ![c] = IF Exists(c) THEN Pushed(c, cmd) ELSE Classic(c, cmd)]
    /\ UNCHANGED <<hub, queue, ended, buf, out, gone, closed>>

(***************************************************************************)
(* The operations                                                          *)
(***************************************************************************)
\* Subscribe under the lock: getOrCreateSub and the two maps.
Subscribe(c) ==
    /\ Doing(c, "subscribe")
    /\ Exists(c) \/ made[c] < MaxSubs
    /\ LET s  == IF Exists(c) THEN Of(c) ELSE <<c, made[c] + 1>>
           ch == Head(task[c]).channel
       IN  /\ sub' = [sub EXCEPT ![c] = s[2]]
           /\ made' = [made EXCEPT ![c] = Max({@, s[2]})]
           /\ channels' = [channels EXCEPT ![s] = @ \cup {ch}]
           /\ members' = [members EXCEPT ![ch] = @ \cup {s}]
           /\ late' = IF c \in closed /\ ~Exists(c) THEN late \cup {c} ELSE late
           /\ Done(c, <<[op |-> "enqueue", to |-> {s}, frame |-> Reply(c)]>>)
    /\ UNCHANGED <<queue, done, ended, stuck, asked, buf, out, gone, closed>>

CloseSub(s) == done' = done \cup {s} /\ sub' = [sub EXCEPT ![s[1]] = NoSub]

\* Mutant: a channel keeps a Subscriber that is gone.
RemovedNone(s) == members

Removed(s) == [ch \in Channels |-> members[ch] \ {s}]

Unsubscribe(c) ==
    /\ Doing(c, "unsubscribe")
    /\ LET s == Of(c)
           ch == Head(task[c]).channel
       IN  IF Exists(c)
           THEN /\ channels' = [channels EXCEPT ![s] = @ \ {ch}]
                /\ members' = [members EXCEPT ![ch] = @ \ {s}]
                /\ IF channels'[s] = {}
                   THEN CloseSub(s)
                   ELSE UNCHANGED <<done, sub>>
           ELSE UNCHANGED <<channels, members, done, sub>>
    /\ Done(c, <<>>)
    /\ UNCHANGED <<made, late, queue, ended, stuck, asked, buf, out, gone, closed>>

\* Publish takes the Subscribers under the lock and sends without it.
Publish(c) ==
    /\ Doing(c, "publish")
    /\ Done(c, <<[op |-> "enqueue", to |-> members[Head(task[c]).channel], frame |-> Message(c)]>>)
    /\ UNCHANGED <<hub, queue, ended, asked, buf, out, gone, closed>>

\* Send finds the Subscriber under the lock and sends without it.
Send(c) ==
    /\ Doing(c, "send")
    /\ Done(c, IF Exists(c) THEN <<[op |-> "enqueue", to |-> {Of(c)}, frame |-> Head(task[c]).frame]>>
                            ELSE <<>>)
    /\ UNCHANGED <<hub, queue, ended, asked, buf, out, gone, closed>>

\* A send with a default: a Subscriber whose channel is full is disconnected, and the
\* others have their turn.
Enqueue(c, s) ==
    /\ task[c] # <<>> /\ Head(task[c]).op = "enqueue"
    /\ s \in Head(task[c]).to
    /\ LET full == Len(queue[s]) = MaxBuffer
           op   == [Head(task[c]) EXCEPT !.to = @ \ {s}]
           rest == IF op.to = {} THEN <<>> ELSE <<op>>
       IN  /\ queue' = IF full THEN queue ELSE [queue EXCEPT ![s] = Append(@, op.frame)]
           /\ Done(c, (IF full THEN <<[op |-> "slow", sub |-> s]>> ELSE <<>>) \o rest)
    /\ UNCHANGED <<hub, ended, asked, buf, out, gone, closed>>

EnqueueNone(c) ==
    /\ task[c] # <<>> /\ Head(task[c]).op = "enqueue" /\ Head(task[c]).to = {}
    /\ Done(c, <<>>)
    /\ UNCHANGED <<hub, queue, ended, asked, buf, out, gone, closed>>

\* disconnectSlow under the lock.  It asks whether the connection has a Subscriber, not
\* whether it has this one; closing a closed channel is a panic, and Hub.mu is locked.
DisconnectSlow(c) ==
    /\ Doing(c, "slow")
    /\ LET s == Head(task[c]).sub IN
       IF ~Exists(s[1])
       THEN Done(c, <<>>) /\ UNCHANGED <<members, done, sub, stuck>>
       ELSE /\ members' = Removed(s)
            /\ stuck' = (s \in done)
            /\ done' = done \cup {s}
            /\ sub' = IF stuck' THEN sub ELSE [sub EXCEPT ![s[1]] = NoSub]
            /\ Done(c, <<[op |-> "close", conn |-> s[1]]>>)
    /\ UNCHANGED <<made, late, channels, queue, ended, asked, buf, out, gone, closed>>

RemoveConn(k) ==
    IF ~Exists(k) THEN UNCHANGED <<members, done, sub>>
    ELSE members' = Removed(Of(k)) /\ CloseSub(Of(k))

\* Server.CloseConn: closeConn runs once, tells the hub and closes the socket.
CloseConn(c) ==
    /\ Doing(c, "close")
    /\ LET k == Head(task[c]).conn IN
       IF k \in closed THEN UNCHANGED <<members, done, sub, closed>>
       ELSE RemoveConn(k) /\ closed' = closed \cup {k}
    /\ Done(c, <<>>)
    /\ UNCHANGED <<made, late, channels, stuck, queue, ended, asked, buf, out, gone>>

\* A reply goes into cs.Buf.
Write(c) ==
    /\ task[c] # <<>> /\ Head(task[c]).op = "write"
    /\ buf' = [buf EXCEPT ![c] = Append(@, Head(task[c]).frame)]
    /\ Done(c, <<>>)
    /\ UNCHANGED <<hub, queue, ended, asked, out, gone, closed>>

Sent(c) == /\ out' = IF c \in closed THEN out ELSE [out EXCEPT ![c] = @ \o buf[c]]
           /\ buf' = [buf EXCEPT ![c] = <<>>]

\* Mutant: what is in cs.Buf stays there.
NotFlushed(c) == UNCHANGED <<out, buf>>

\* subscribeClassic flushes, so that the replies are out before the writePump writes.
FlushBeforeWritePump(c) == Sent(c)

FlushFirst(c) ==
    /\ task[c] # <<>> /\ Head(task[c]).op = "flush"
    /\ FlushBeforeWritePump(c)
    /\ Done(c, <<>>)
    /\ UNCHANGED <<hub, queue, ended, asked, gone, closed>>

\* serve flushes when nothing is left to parse.
Flush(c) ==
    /\ task[c] = <<>> /\ buf[c] # <<>>
    /\ Sent(c)
    /\ UNCHANGED <<hub, queue, ended, task, asked, gone, closed>>

\* The client hangs up, or the socket is closed: serve returns and closes.
Leave(c) ==
    /\ c \notin gone
    /\ task[c] = <<>>
    /\ gone' = gone \cup {c}
    /\ task' = [task EXCEPT ![c] = <<[op |-> "close", conn |-> c]>>]
    /\ UNCHANGED <<hub, queue, ended, asked, buf, out, closed>>

(***************************************************************************)
(* writePump                                                               *)
(***************************************************************************)
Drained(s) ==
    /\ out' = IF s[1] \in closed THEN out ELSE [out EXCEPT ![s[1]] = @ \o queue[s]]
    /\ queue' = [queue EXCEPT ![s] = <<>>]

Running(s) == s[2] <= made[s[1]] /\ s \notin ended

\* What is in the channel is written and flushed; a write to a closed socket ends it.
Pump(s) ==
    /\ Running(s)
    /\ queue[s] # <<>>
    /\ Drained(s)
    /\ ended' = IF s[1] \in closed THEN ended \cup {s} ELSE ended
    /\ UNCHANGED <<hub, task, asked, buf, gone, closed>>

\* Mutant: the rest of the channel is not written.
DoneAtOnce(s) == UNCHANGED <<out, queue>>

DrainOnDone(s) == Drained(s)

PumpDone(s) ==
    /\ Running(s)
    /\ s \in done
    /\ DrainOnDone(s)
    /\ ended' = ended \cup {s}
    /\ UNCHANGED <<hub, task, asked, buf, gone, closed>>

Init ==
    /\ sub = [c \in Conns |-> NoSub] /\ made = [c \in Conns |-> 0]
    /\ channels = [s \in Subs |-> {}] /\ members = [ch \in Channels |-> {}]
    /\ queue = [s \in Subs |-> <<>>]
    /\ done = {} /\ ended = {} /\ stuck = FALSE /\ late = {}
    /\ task = [c \in Conns |-> <<>>] /\ asked = [c \in Conns |-> 0]
    /\ buf = [c \in Conns |-> <<>>] /\ out = [c \in Conns |-> <<>>]
    /\ gone = {} /\ closed = {}

Step(c) ==
    \/ Subscribe(c) \/ Unsubscribe(c) \/ Publish(c) \/ Send(c)
    \/ \E s \in Subs : Enqueue(c, s)
    \/ EnqueueNone(c)
    \/ DisconnectSlow(c) \/ CloseConn(c) \/ Write(c) \/ FlushFirst(c) \/ Flush(c)

Next ==
    \/ \E c \in Conns : Step(c) \/ Leave(c) \/ \E cmd \in Commands : Receive(c, cmd)
    \/ \E s \in Subs : Pump(s) \/ PumpDone(s)

Spec == Init /\ [][Next]_vars

(***************************************************************************)
(* Properties                                                              *)
(***************************************************************************)
\* The two maps of the hub agree, and exactly the Subscribers in them run undisturbed:
\* one that Unsubscribe, RemoveConn or disconnectSlow has taken out is told to end.
MapsAgree ==
    /\ \A ch \in Channels : members[ch] = {s \in Subs : Live(s) /\ ch \in channels[s]}
    /\ \A s \in Subs : Live(s) => channels[s] # {} /\ s \notin done
    /\ \A s \in Subs : s[2] <= made[s[1]] /\ ~Live(s) => s \in done

\* No connection that is closed has a Subscriber, but one that subscribed too late: the
\* hub does not ask whether closeConn has run, and nobody takes that Subscriber out.
NoGhosts == \A c \in closed \ late : ~Exists(c)

HubAgrees == MapsAgree /\ NoGhosts

\* disconnectSlow is safe in several goroutines at once: Hub.mu is not left locked.
NeverStuck == ~stuck

\* The replies among frames are in the order of the commands.
InOrder(frames) ==
    \A i, j \in DOMAIN frames :
        i < j /\ frames[i].kind = "reply" /\ frames[j].kind = "reply" => frames[i].n < frames[j].n

\* The socket has one writer at a time: replies are written in the order of the commands.
OneWriter == \A c \in Conns : InOrder(out[c])

\* So it is until the connection leaves subscriber mode.
HubOneWriter == \A c \in Conns : (\A s \in done : s[1] # c) => InOrder(out[c])

Closing(c) ==
    c \in closed \/ \E d \in Conns : \E i \in DOMAIN task[d] :
                       task[d][i].op = "close" /\ task[d][i].conn = c

\* The acknowledgement that ends subscriber mode is written although its writePump ends.
HubAckArrives ==
    \A s \in Subs : s \in ended /\ ~Closing(s[1]) =>
        \A i \in DOMAIN queue[s] : queue[s][i].kind # "reply"
=============================================================================
