---------------------------- MODULE PubSubProofs ----------------------------
(***************************************************************************)
(* What PubSub promises, for any connections, channels, sizes of queues,   *)
(* commands and Subscribers: the two maps agree, the socket has one writer *)
(* as long as its connection stays in subscriber mode, acknowledgements    *)
(* arrive; and of a closed connection nothing stays in the maps, unless it *)
(* subscribed after it was closed.                                         *)
(***************************************************************************)
EXTENDS PubSub, SequenceTheorems, TLAPS

Bounds == {MaxBuffer, MaxCommands, MaxSubs} \subseteq Nat

Frames == [kind : {"reply", "message"}, of : Conns, n : Nat]

Ops == [op : {"subscribe", "unsubscribe", "publish"}, channel : Channels]
       \cup [op : {"send", "write"}, frame : Frames]
       \cup [op : {"enqueue"}, to : SUBSET Subs, frame : Frames]
       \cup [op : {"slow"}, sub : Subs]
       \cup [op : {"close"}, conn : Conns]
       \cup [op : {"flush", "ping"}]

TypeInv ==
    /\ Bounds
    /\ sub \in [Conns -> 0..MaxSubs] /\ made \in [Conns -> 0..MaxSubs]
    /\ channels \in [Subs -> SUBSET Channels] /\ members \in [Channels -> SUBSET Subs]
    /\ queue \in [Subs -> Seq(Frames)]
    /\ done \subseteq Subs /\ ended \subseteq Subs /\ stuck \in BOOLEAN
    /\ task \in [Conns -> Seq(Ops)] /\ asked \in [Conns -> Nat]
    /\ buf \in [Conns -> Seq(Frames)] /\ out \in [Conns -> Seq(Frames)]
    /\ gone \subseteq Conns /\ closed \subseteq Conns

Made == {s \in Subs : s[2] <= made[s[1]]}

\* A Subscriber that is not made yet is nowhere, and the hub has only the latest one.
Unmade ==
    /\ \A c \in Conns : sub[c] <= made[c]
    /\ \A s \in Subs \ Made : channels[s] = {} /\ queue[s] = <<>> /\ s \notin done /\ s \notin ended

\* The operations that a goroutine has yet to do.
Todo(c) == {task[c][i] : i \in DOMAIN task[c]}

Knows(op) ==
    /\ op.op = "enqueue" => op.to \subseteq Made
    /\ op.op = "slow" => op.sub \in Made

KnowsMade == \A c \in Conns : \A op \in Todo(c) : Knows(op)

MapsInv == MapsAgree /\ Unmade /\ KnowsMade

\* A reply on its way into a queue.
Acks(op) == op.op = "enqueue" /\ op.frame.kind = "reply"

\* It goes to the connection's own Subscriber; whoever has taken that one out meanwhile
\* closes the connection.
OwnSub(c, op) ==
    \A s \in op.to : s[1] = c /\ op.to = {s} /\ (s \in done => Closing(c))

\* It is the next thing that its goroutine does.
AcksFirst ==
    \A c \in Conns : \A i \in DOMAIN task[c] : Acks(task[c][i]) => i = 1 /\ OwnSub(c, task[c][i])

\* A writePump ends because its Subscriber is out or its socket closed.
EndedIsOut == \A s \in ended : s \in done \/ s[1] \in closed

AckInv == AcksFirst /\ EndedIsOut /\ HubAckArrives

\* A command has one reply, which has its number.
Yields(op) == op.op \in {"subscribe", "send", "write"} \/ Acks(op)
Owes(c) == \E op \in Todo(c) : Yields(op)

OneReply ==
    \A c \in Conns : \A i \in DOMAIN task[c] :
        /\ task[c][i].op \in {"send", "write"} => task[c][i].frame.kind = "reply"
        /\ task[c][i].op \in {"send", "write"} \/ Acks(task[c][i]) => task[c][i].frame.n = asked[c]
        /\ \A j \in DOMAIN task[c] : Yields(task[c][i]) /\ Yields(task[c][j]) => i = j

\* The number of the last reply that may be on its way.
Due(c) == IF Owes(c) THEN asked[c] - 1 ELSE asked[c]

Upto(frames, n) == \A i \in DOMAIN frames : frames[i].kind = "reply" => frames[i].n <= n

Before(p, q) ==
    \A i \in DOMAIN p : p[i].kind = "reply" =>
        \A j \in DOMAIN q : q[j].kind = "reply" => p[i].n < q[j].n

\* frames come behind what is written.
Follow(written, frames, n) == InOrder(frames) /\ Upto(frames, n) /\ Before(written, frames)

\* No Subscriber of c is gone: c is in subscriber mode or has not been in it.
First(c) == \A s \in done : s[1] # c

Lined(c) ==
    /\ InOrder(out[c]) /\ Upto(out[c], Due(c))
    /\ Follow(out[c], buf[c], Due(c))
    /\ \A s \in Made : s[1] = c => Follow(out[c], queue[s], Due(c))

\* In subscriber mode replies go through the queue, outside through buf; the mode
\* begins with an empty buf.
Placed(c) ==
    /\ Exists(c) => buf[c] = <<>> /\ \A op \in Todo(c) : op.op # "write"
    /\ \A i \in DOMAIN task[c] : task[c][i].op = "subscribe" =>
           \/ i = 1 /\ buf[c] = <<>>
           \/ i = 2 /\ task[c][1].op = "flush"

LineInv == \A c \in Conns : First(c) => Lined(c) /\ Placed(c)

(***************************************************************************)
(* Sequences and tasks                                                     *)
(***************************************************************************)
LEMMA MaxOfTwo ==
    ASSUME NEW a \in Nat, NEW b \in Nat
    PROVE  Max({a, b}) = IF a >= b THEN a ELSE b
<1> DEFINE m == IF a >= b THEN a ELSE b
<1>1. m \in {a, b} /\ \A y \in {a, b} : m >= y
  OBVIOUS
<1>2. \A z \in {a, b} : (\A y \in {a, b} : z >= y) => z = m
  OBVIOUS
<1> QED
  BY <1>1, <1>2 DEF Max

\* The first operation of c's task is replaced by ops.
Replaced(c, ops) ==
    /\ task' \in [Conns -> Seq(Ops)]
    /\ \A d \in Conns : d # c => task'[d] = task[d] /\ Todo(d)' = Todo(d)
    /\ Len(task'[c]) = Len(ops) + Len(task[c]) - 1
    /\ \A i \in DOMAIN ops : i \in DOMAIN task'[c] /\ task'[c][i] = ops[i]
    /\ \A i \in DOMAIN task[c] : i # 1 =>
           LET j == Len(ops) + i - 1 IN j \in DOMAIN task'[c] /\ task'[c][j] = task[c][i]
    /\ \A j \in DOMAIN task'[c] : j > Len(ops) =>
           LET i == j - Len(ops) + 1 IN
           i \in DOMAIN task[c] /\ i # 1 /\ task'[c][j] = task[c][i]

LEMMA DoneReplaces ==
    ASSUME TypeInv, NEW c \in Conns, task[c] # <<>>, NEW ops \in Seq(Ops), Done(c, ops)
    PROVE  Replaced(c, ops)
<1> DEFINE old == task[c]
           new == ops \o Tail(old)
<1>1. task \in [Conns -> Seq(Ops)] /\ old \in Seq(Ops)
  BY DEF TypeInv
<1>2. Tail(old) \in Seq(Ops) /\ new \in Seq(Ops)
  BY <1>1
<1>3. task' = [task EXCEPT ![c] = new]
  BY DEF Done
<1>4. task' \in [Conns -> Seq(Ops)] /\ task'[c] = new
  BY <1>1, <1>2, <1>3
<1>5. \A d \in Conns : d # c => task'[d] = task[d]
  BY <1>1, <1>3
<1>6. \A d \in Conns : d # c => Todo(d)' = Todo(d)
  BY <1>5 DEF Todo
<1>7. /\ Len(Tail(old)) = Len(old) - 1 /\ Len(old) \in Nat \ {0} /\ Len(ops) \in Nat
      /\ \A i \in 1..(Len(old) - 1) : Tail(old)[i] = old[i + 1]
  BY <1>1
<1>8. /\ Len(new) = Len(ops) + Len(old) - 1
      /\ \A i \in 1..Len(new) : new[i] = IF i <= Len(ops) THEN ops[i] ELSE Tail(old)[i - Len(ops)]
  BY <1>2, <1>7
<1>9. DOMAIN ops = 1..Len(ops) /\ DOMAIN old = 1..Len(old) /\ DOMAIN new = 1..Len(new)
  BY <1>1, <1>2
<1>10. \A i \in DOMAIN ops : i \in DOMAIN new /\ new[i] = ops[i]
  BY <1>7, <1>8, <1>9
<1>11. ASSUME NEW i \in DOMAIN old, i # 1
       PROVE  LET j == Len(ops) + i - 1 IN j \in DOMAIN new /\ new[j] = old[i]
  <2>1. Len(ops) + i - 1 \in DOMAIN new /\ ~(Len(ops) + i - 1 <= Len(ops))
    BY <1>7, <1>8, <1>9, <1>11
  <2>2. new[Len(ops) + i - 1] = Tail(old)[i - 1]
    BY <1>7, <1>8, <1>9, <1>11, <2>1, SMTT(30)
  <2>3. i - 1 \in 1..(Len(old) - 1) /\ (i - 1) + 1 = i
    BY <1>7, <1>9, <1>11
  <2> QED
    BY <1>7, <2>1, <2>2, <2>3
<1>12. ASSUME NEW j \in DOMAIN new, j > Len(ops)
       PROVE  LET i == j - Len(ops) + 1 IN i \in DOMAIN old /\ i # 1 /\ new[j] = old[i]
  <2>1. j - Len(ops) \in 1..(Len(old) - 1)
    BY <1>7, <1>8, <1>9, <1>12
  <2>2. new[j] = Tail(old)[j - Len(ops)]
    BY <1>7, <1>8, <1>9, <1>12
  <2> QED
    BY <1>7, <1>9, <2>1, <2>2
<1> HIDE DEF new
<1> QED
  BY <1>4, <1>5, <1>6, <1>8, <1>10, <1>11, <1>12 DEF Replaced

\* In terms of what is still to be done: the first operation is gone, ops have come.
LEMMA ReplacedTodo ==
    ASSUME TypeInv, NEW c \in Conns, task[c] # <<>>, NEW ops \in Seq(Ops), Replaced(c, ops)
    PROVE  /\ Todo(c)' = {ops[i] : i \in DOMAIN ops}
                         \cup {task[c][i] : i \in DOMAIN task[c] \ {1}}
           /\ Todo(c) = {Head(task[c])} \cup {task[c][i] : i \in DOMAIN task[c] \ {1}}
<1>1. /\ task[c] \in Seq(Ops) /\ 1 \in DOMAIN task[c] /\ Head(task[c]) = task[c][1]
      /\ task'[c] \in Seq(Ops)
  BY DEF TypeInv, Replaced
<1>2. Todo(c) = {Head(task[c])} \cup {task[c][i] : i \in DOMAIN task[c] \ {1}}
  BY <1>1 DEF Todo
<1>3. \A op \in Todo(c)' : \/ \E i \in DOMAIN ops : op = ops[i]
                           \/ \E i \in DOMAIN task[c] \ {1} : op = task[c][i]
  <2>1. Todo(c)' = {task'[c][i] : i \in DOMAIN task'[c]}
    BY DEF Todo
  <2>2. DOMAIN task'[c] = 1..Len(task'[c]) /\ DOMAIN ops = 1..Len(ops) /\ Len(ops) \in Nat
    BY <1>1
  <2>3. \A j \in DOMAIN task'[c] : j \in DOMAIN ops \/ j > Len(ops)
    BY <2>2
  <2> QED
    BY <2>1, <2>3, SMTT(30) DEF Replaced
<1>4. /\ \A i \in DOMAIN ops : ops[i] \in Todo(c)'
      /\ \A i \in DOMAIN task[c] \ {1} : task[c][i] \in Todo(c)'
  BY DEF Replaced, Todo
<1> QED
  BY <1>2, <1>3, <1>4

(***************************************************************************)
(* Types                                                                   *)
(***************************************************************************)
LEMMA OpType ==
    ASSUME NEW op \in Ops
    PROVE  /\ op.op \in {"subscribe", "unsubscribe", "publish"} => op.channel \in Channels
           /\ op.op \in {"send", "write", "enqueue"} => op.frame \in Frames
           /\ op.op = "enqueue" => op.to \in SUBSET Subs
           /\ op.op = "slow" => op.sub \in Subs
           /\ op.op = "close" => op.conn \in Conns
BY DEF Ops

LEMMA FirstOp ==
    ASSUME TypeInv, NEW c \in Conns, task[c] # <<>>
    PROVE  /\ Head(task[c]) \in Ops /\ Head(task[c]) \in Todo(c)
           /\ 1 \in DOMAIN task[c] /\ Head(task[c]) = task[c][1]
BY DEF TypeInv, Todo

LEMMA FrameTypes ==
    ASSUME TypeInv, NEW c \in Conns
    PROVE  /\ Reply(c) \in Frames /\ Message(c) \in Frames
           /\ Reply(c).kind = "reply" /\ Reply(c).n = asked[c] /\ Message(c).kind = "message"
BY DEF TypeInv, Reply, Message, Frames

LEMMA SubTypes ==
    ASSUME TypeInv, NEW c \in Conns, Exists(c)
    PROVE  Of(c) \in Subs /\ Of(c)[1] = c /\ Of(c)[2] = sub[c] /\ Live(Of(c))
<1>1. sub[c] \in 0..MaxSubs /\ sub[c] # 0 /\ MaxSubs \in Nat
  BY DEF TypeInv, Bounds, Exists, NoSub
<1>2. sub[c] \in 1..MaxSubs
  BY <1>1
<1> QED
  BY <1>2 DEF Of, Subs, Live

LEMMA NewOps ==
    ASSUME NEW f \in Frames
    PROVE  /\ [op |-> "send", frame |-> f] \in Ops
           /\ [op |-> "write", frame |-> f] \in Ops
           /\ [op |-> "flush"] \in Ops
           /\ \A s \in Subs : [op |-> "slow", sub |-> s] \in Ops
           /\ \A c \in Conns : [op |-> "close", conn |-> c] \in Ops
           /\ \A to \in SUBSET Subs : [op |-> "enqueue", to |-> to, frame |-> f] \in Ops
<1>1. /\ [op |-> "send", frame |-> f] \in [op : {"send", "write"}, frame : Frames]
      /\ [op |-> "write", frame |-> f] \in [op : {"send", "write"}, frame : Frames]
  OBVIOUS
<1>2. [op |-> "flush"] \in [op : {"flush", "ping"}]
  OBVIOUS
<1>3. \A s \in Subs : [op |-> "slow", sub |-> s] \in [op : {"slow"}, sub : Subs]
  OBVIOUS
<1>4. \A c \in Conns : [op |-> "close", conn |-> c] \in [op : {"close"}, conn : Conns]
  OBVIOUS
<1>5. \A to \in SUBSET Subs :
          [op |-> "enqueue", to |-> to, frame |-> f] \in [op : {"enqueue"}, to : SUBSET Subs, frame : Frames]
  OBVIOUS
<1> QED
  BY <1>1, <1>2, <1>3, <1>4, <1>5 DEF Ops

SendOf(f) == [op |-> "send", frame |-> f]
WriteOf(f) == [op |-> "write", frame |-> f]
FlushOp == [op |-> "flush"]

\* What a command is made of, f being its reply.
Commanded(c, cmd, f) ==
    \/ Exists(c) /\ task'[c] = <<cmd>> /\ cmd.op = "subscribe"
    \/ Exists(c) /\ task'[c] = <<SendOf(f), cmd>> /\ cmd.op = "unsubscribe"
    \/ Exists(c) /\ task'[c] = <<cmd, SendOf(f)>> /\ cmd.op = "publish"
    \/ Exists(c) /\ task'[c] = <<SendOf(f)>> /\ cmd.op = "ping"
    \/ ~Exists(c) /\ task'[c] = <<FlushOp, cmd>> /\ cmd.op = "subscribe"
    \/ ~Exists(c) /\ task'[c] = <<WriteOf(f)>> /\ cmd.op = "ping"
    \/ ~Exists(c) /\ task'[c] = <<cmd, WriteOf(f)>> /\ cmd.op \in {"unsubscribe", "publish"}

LEMMA CommandTask ==
    ASSUME TypeInv, NEW c \in Conns, NEW cmd \in Commands, Receive(c, cmd)
    PROVE  /\ asked' = [asked EXCEPT ![c] = asked[c] + 1]
           /\ task[c] = <<>>
           /\ \A d \in Conns : d # c => task'[d] = task[d] /\ Todo(d)' = Todo(d)
           /\ \E f \in Frames : f.kind = "reply" /\ f.n = asked'[c] /\ Commanded(c, cmd, f)
<1> DEFINE f == [kind |-> "reply", of |-> c, n |-> asked'[c]]
<1>1. /\ asked' = [asked EXCEPT ![c] = asked[c] + 1]
      /\ task' = [task EXCEPT ![c] = IF Exists(c) THEN Pushed(c, cmd) ELSE Classic(c, cmd)]
      /\ task[c] = <<>>
  BY DEF Receive
<1>2. asked \in [Conns -> Nat] /\ task \in [Conns -> Seq(Ops)]
  BY DEF TypeInv
<1>3. asked'[c] = asked[c] + 1 /\ asked'[c] \in Nat
  BY <1>1, <1>2
<1>4. f \in Frames /\ f.kind = "reply" /\ f.n = asked'[c] /\ Reply(c)' = f
  BY <1>3 DEF Frames, Reply
<1>5. task'[c] = IF Exists(c) THEN Pushed(c, cmd) ELSE Classic(c, cmd)
  BY <1>1, <1>2
<1>6. cmd.op \in {"subscribe", "unsubscribe", "publish", "ping"}
  BY DEF Commands
<1>7. \A d \in Conns : d # c => task'[d] = task[d] /\ Todo(d)' = Todo(d)
  BY <1>1, <1>2 DEF Todo
<1>8. CASE Exists(c)
  <2>1. task'[c] = CASE cmd.op = "subscribe" -> <<cmd>>
                     [] cmd.op = "unsubscribe" -> <<SendOf(f), cmd>>
                     [] cmd.op = "publish" -> <<cmd, SendOf(f)>>
                     [] cmd.op = "ping" -> <<SendOf(f)>>
    BY <1>4, <1>5, <1>8 DEF Pushed, SendOf
  <2> HIDE DEF f
  <2> QED
    BY <1>1, <1>2, <1>4, <1>6, <1>7, <1>8, <2>1 DEF Commanded
<1>9. CASE ~Exists(c)
  <2>1. task'[c] = CASE cmd.op = "subscribe" -> <<FlushOp, cmd>>
                     [] cmd.op = "ping" -> <<WriteOf(f)>>
                     [] OTHER -> <<cmd, WriteOf(f)>>
    BY <1>4, <1>5, <1>9 DEF Classic, WriteOf, FlushOp
  <2> HIDE DEF f
  <2> QED
    BY <1>1, <1>2, <1>4, <1>6, <1>7, <1>9, <2>1 DEF Commanded
<1> QED
  BY <1>8, <1>9

LEMMA CommandOps ==
    ASSUME NEW cmd \in Commands
    PROVE  cmd \in Ops
BY DEF Commands, Ops

LEMMA ReceiveType ==
    ASSUME TypeInv, NEW c \in Conns, NEW cmd \in Commands, Receive(c, cmd)
    PROVE  TypeInv'
<1>1. PICK f \in Frames : Commanded(c, cmd, f)
  BY CommandTask
<1>2. cmd \in Ops /\ FlushOp \in Ops /\ SendOf(f) \in Ops /\ WriteOf(f) \in Ops
  BY CommandOps, NewOps DEF FlushOp, SendOf, WriteOf
<1>3. task'[c] \in Seq(Ops)
  <2>1. \A a, b \in Ops : <<a>> \in Seq(Ops) /\ <<a, b>> \in Seq(Ops)
    OBVIOUS
  <2>2. task'[c] \in {<<cmd>>, <<SendOf(f), cmd>>, <<cmd, SendOf(f)>>, <<SendOf(f)>>,
                      <<FlushOp, cmd>>, <<WriteOf(f)>>, <<cmd, WriteOf(f)>>}
    BY <1>1 DEF Commanded
  <2> QED
    BY <1>2, <2>1, <2>2
<1>4. task' \in [Conns -> Seq(Ops)]
  <2>1. task' = [task EXCEPT ![c] = task'[c]]
    BY DEF Receive, TypeInv
  <2> QED
    BY <1>3, <2>1 DEF TypeInv
<1>5. asked' \in [Conns -> Nat]
  BY DEF TypeInv, Receive
<1> QED
  BY <1>4, <1>5 DEF TypeInv, Receive, hub

LEMMA SubscribeTask ==
    ASSUME TypeInv, NEW c \in Conns, Subscribe(c)
    PROVE  /\ task[c] # <<>> /\ Head(task[c]).op = "subscribe" /\ Head(task[c]).channel \in Channels
           /\ \E s \in Subs :
                  /\ s[1] = c /\ s[2] = IF Exists(c) THEN sub[c] ELSE made[c] + 1
                  /\ Exists(c) => s = Of(c)
                  /\ LET op == [op |-> "enqueue", to |-> {s}, frame |-> Reply(c)]
                     IN  <<op>> \in Seq(Ops) /\ Replaced(c, <<op>>)
                  /\ sub' = [sub EXCEPT ![c] = s[2]]
                  /\ made' = [made EXCEPT ![c] = Max({made[c], s[2]})]
                  /\ channels' = [channels EXCEPT ![s] = @ \cup {Head(task[c]).channel}]
                  /\ members' = [members EXCEPT ![Head(task[c]).channel] = @ \cup {s}]
<1> DEFINE s == IF Exists(c) THEN Of(c) ELSE <<c, made[c] + 1>>
           op == [op |-> "enqueue", to |-> {s}, frame |-> Reply(c)]
<1>1. task[c] # <<>> /\ Head(task[c]).op = "subscribe" /\ Head(task[c]).channel \in Channels
  BY FirstOp, OpType DEF Subscribe, Doing
<1>2. s \in Subs /\ s[1] = c /\ s[2] = IF Exists(c) THEN sub[c] ELSE made[c] + 1
  <2>1. CASE Exists(c)
    BY <2>1, SubTypes
  <2>2. CASE ~Exists(c)
    <3>1. made[c] \in 0..MaxSubs /\ MaxSubs \in Nat /\ made[c] < MaxSubs
      BY <2>2 DEF TypeInv, Bounds, Subscribe
    <3>2. made[c] + 1 \in 1..MaxSubs
      BY <3>1
    <3> QED
      BY <2>2, <3>2 DEF Subs
  <2> QED
    BY <2>1, <2>2
<1>3. op \in Ops
  <2>1. {s} \in SUBSET Subs
    BY <1>2
  <2> QED
    BY <2>1, FrameTypes, NewOps
<1>4. Done(c, <<op>>) /\ <<op>> \in Seq(Ops)
  BY <1>3 DEF Subscribe
<1>5. Replaced(c, <<op>>)
  BY <1>1, <1>4, DoneReplaces
<1>6. /\ sub' = [sub EXCEPT ![c] = s[2]]
      /\ made' = [made EXCEPT ![c] = Max({made[c], s[2]})]
      /\ channels' = [channels EXCEPT ![s] = @ \cup {Head(task[c]).channel}]
      /\ members' = [members EXCEPT ![Head(task[c]).channel] = @ \cup {s}]
  BY DEF Subscribe
<1>7. Exists(c) => s = Of(c)
  OBVIOUS
<1> HIDE DEF s
<1> QED
  BY <1>1, <1>2, <1>4, <1>5, <1>6, <1>7

LEMMA TwoOps ==
    ASSUME NEW a \in Ops, NEW b \in Ops
    PROVE  <<a>> \o <<b>> = <<a, b>> /\ <<a, b>> \in Seq(Ops)
<1>1. <<a>> \in Seq(Ops) /\ <<a, b>> \in Seq(Ops)
  OBVIOUS
<1>2. Append(<<a>>, b) = <<a>> \o <<b>>
  BY <1>1, AppendIsConcat
<1>3. Append(<<a>>, b) = <<a, b>>
  <2> DEFINE p == Append(<<a>>, b)
             q == <<a, b>>
  <2>1. p \in Seq(Ops) /\ Len(p) = 2 /\ p[1] = a /\ p[2] = b
    BY <1>1, AppendProperties
  <2>2. q \in Seq(Ops) /\ Len(q) = 2 /\ q[1] = a /\ q[2] = b
    BY <1>1
  <2> HIDE DEF p, q
  <2>3. \A i \in 1..Len(p) : p[i] = q[i]
    BY <2>1, <2>2
  <2>4. p = q
    BY <2>1, <2>2, <2>3, SeqEqual
  <2> QED
    BY <2>4 DEF p, q
<1> QED
  BY <1>1, <1>2, <1>3

LEMMA EnqueueTask ==
    ASSUME TypeInv, NEW c \in Conns, NEW s \in Subs, Enqueue(c, s)
    PROVE  /\ task[c] # <<>> /\ Head(task[c]).op = "enqueue" /\ s \in Head(task[c]).to
           /\ Head(task[c]).frame \in Frames
           /\ LET rest == [Head(task[c]) EXCEPT !.to = Head(task[c]).to \ {s}]
                  slow == [op |-> "slow", sub |-> s]
              IN  /\ rest \in Ops /\ slow \in Ops
                  /\ rest.op = "enqueue" /\ rest.to = Head(task[c]).to \ {s}
                  /\ rest.frame = Head(task[c]).frame
                  /\ \/ /\ queue' = queue
                        /\ \/ Replaced(c, <<slow>>) /\ rest.to = {}
                           \/ Replaced(c, <<slow, rest>>) /\ rest.to # {}
                     \/ /\ queue' = [queue EXCEPT ![s] = Append(queue[s], Head(task[c]).frame)]
                        /\ \/ Replaced(c, <<>>) /\ rest.to = {}
                           \/ Replaced(c, <<rest>>) /\ rest.to # {}
<1> DEFINE head == Head(task[c])
           rest == [head EXCEPT !.to = head.to \ {s}]
           slow == [op |-> "slow", sub |-> s]
<1>1. /\ task[c] # <<>> /\ head.op = "enqueue" /\ s \in head.to
      /\ head \in [op : {"enqueue"}, to : SUBSET Subs, frame : Frames]
  <2>1. task[c] # <<>> /\ head.op = "enqueue" /\ s \in head.to
    BY DEF Enqueue
  <2>2. head \in Ops
    BY <2>1, FirstOp
  <2> QED
    BY <2>1, <2>2 DEF Ops
<1>2. /\ rest \in [op : {"enqueue"}, to : SUBSET Subs, frame : Frames]
      /\ rest.op = "enqueue" /\ rest.to = head.to \ {s} /\ rest.frame = head.frame
  BY <1>1
<1>3. rest \in Ops /\ slow \in Ops
  <2>1. rest \in Ops
    BY <1>2 DEF Ops
  <2>2. slow \in Ops
    BY <1>1, NewOps
  <2> QED
    BY <2>1, <2>2
<1>4. LET full == Len(queue[s]) = MaxBuffer
          more == IF rest.to = {} THEN <<>> ELSE <<rest>>
      IN  /\ queue' = IF full THEN queue ELSE [queue EXCEPT ![s] = Append(queue[s], rest.frame)]
          /\ Done(c, (IF full THEN <<slow>> ELSE <<>>) \o more)
  BY DEF Enqueue
<1> HIDE DEF rest, slow
<1>5. CASE Len(queue[s]) = MaxBuffer
  <2>1. CASE rest.to = {}
    <3>1. Done(c, <<slow>> \o <<>>) /\ <<slow>> \o <<>> = <<slow>> /\ <<slow>> \in Seq(Ops)
      BY <1>3, <1>4, <1>5, <2>1
    <3>2. Replaced(c, <<slow>>)
      BY <1>1, <3>1, DoneReplaces
    <3> QED
      BY <1>1, <1>2, <1>3, <1>4, <1>5, <2>1, <3>2 DEF rest, slow
  <2>2. CASE rest.to # {}
    <3> DEFINE ops == (IF Len(queue[s]) = MaxBuffer THEN <<slow>> ELSE <<>>)
                      \o (IF rest.to = {} THEN <<>> ELSE <<rest>>)
    <3>0. Done(c, ops)
      BY <1>4
    <3>1. ops = <<slow>> \o <<rest>>
      BY <1>5, <2>2
    <3> HIDE DEF ops
    <3>2. <<slow>> \o <<rest>> = <<slow, rest>> /\ <<slow, rest>> \in Seq(Ops)
      BY <1>3, TwoOps
    <3>3. Replaced(c, <<slow, rest>>)
      BY <1>1, <3>0, <3>1, <3>2, DoneReplaces
    <3> QED
      BY <1>1, <1>2, <1>3, <1>4, <1>5, <2>2, <3>3 DEF rest, slow
  <2> QED
    BY <2>1, <2>2
<1>6. CASE Len(queue[s]) # MaxBuffer
  <2>1. CASE rest.to = {}
    <3>1. Done(c, <<>> \o <<>>) /\ <<>> \o <<>> = <<>> /\ <<>> \in Seq(Ops)
      BY <1>4, <1>6, <2>1
    <3>2. Replaced(c, <<>>)
      BY <1>1, <3>1, DoneReplaces
    <3> QED
      BY <1>1, <1>2, <1>3, <1>4, <1>6, <2>1, <3>2 DEF rest, slow
  <2>2. CASE rest.to # {}
    <3>1. Done(c, <<>> \o <<rest>>) /\ <<>> \o <<rest>> = <<rest>> /\ <<rest>> \in Seq(Ops)
      BY <1>3, <1>4, <1>6, <2>2
    <3>2. Replaced(c, <<rest>>)
      BY <1>1, <3>1, DoneReplaces
    <3> QED
      BY <1>1, <1>2, <1>3, <1>4, <1>6, <2>2, <3>2 DEF rest, slow
  <2> QED
    BY <2>1, <2>2
<1> QED
  BY <1>5, <1>6

\* Operations that leave nothing to do.
LEMMA DropTask ==
    ASSUME TypeInv, NEW c \in Conns, task[c] # <<>>, Done(c, <<>>)
    PROVE  Replaced(c, <<>>) /\ <<>> \in Seq(Ops)
<1>1. <<>> \in Seq(Ops)
  OBVIOUS
<1> QED
  BY <1>1, DoneReplaces

LEMMA PublishTask ==
    ASSUME TypeInv, NEW c \in Conns, Publish(c)
    PROVE  /\ task[c] # <<>> /\ Head(task[c]).op = "publish" /\ Head(task[c]).channel \in Channels
           /\ LET op == [op |-> "enqueue", to |-> members[Head(task[c]).channel], frame |-> Message(c)]
              IN  <<op>> \in Seq(Ops) /\ Replaced(c, <<op>>)
<1> DEFINE op == [op |-> "enqueue", to |-> members[Head(task[c]).channel], frame |-> Message(c)]
<1>1. task[c] # <<>> /\ Head(task[c]).op = "publish" /\ Head(task[c]).channel \in Channels
  BY FirstOp, OpType DEF Publish, Doing
<1>2. op \in Ops
  <2>1. members[Head(task[c]).channel] \in SUBSET Subs
    BY <1>1 DEF TypeInv
  <2> QED
    BY <2>1, FrameTypes, NewOps
<1>3. Done(c, <<op>>) /\ <<op>> \in Seq(Ops)
  BY <1>2 DEF Publish
<1> QED
  BY <1>1, <1>3, DoneReplaces

LEMMA SendTask ==
    ASSUME TypeInv, NEW c \in Conns, Send(c)
    PROVE  /\ task[c] # <<>> /\ Head(task[c]).op = "send" /\ Head(task[c]).frame \in Frames
           /\ LET op == [op |-> "enqueue", to |-> {Of(c)}, frame |-> Head(task[c]).frame]
              IN  \/ Exists(c) /\ <<op>> \in Seq(Ops) /\ Replaced(c, <<op>>)
                  \/ ~Exists(c) /\ <<>> \in Seq(Ops) /\ Replaced(c, <<>>)
<1> DEFINE op == [op |-> "enqueue", to |-> {Of(c)}, frame |-> Head(task[c]).frame]
<1>1. task[c] # <<>> /\ Head(task[c]).op = "send" /\ Head(task[c]).frame \in Frames
  BY FirstOp, OpType DEF Send, Doing
<1>2. CASE Exists(c)
  <2>1. {Of(c)} \in SUBSET Subs
    BY <1>2, SubTypes
  <2>2. op \in Ops
    BY <1>1, <2>1, NewOps
  <2>3. Done(c, <<op>>) /\ <<op>> \in Seq(Ops)
    BY <1>2, <2>2 DEF Send
  <2> QED
    BY <1>1, <1>2, <2>3, DoneReplaces
<1>3. CASE ~Exists(c)
  <2>1. Done(c, <<>>)
    BY <1>3 DEF Send
  <2> QED
    BY <1>1, <1>3, <2>1, DropTask
<1> QED
  BY <1>2, <1>3

LEMMA DisconnectSlowTask ==
    ASSUME TypeInv, NEW c \in Conns, DisconnectSlow(c)
    PROVE  /\ task[c] # <<>> /\ Head(task[c]).op = "slow" /\ Head(task[c]).sub \in Subs
           /\ LET s == Head(task[c]).sub
                  op == [op |-> "close", conn |-> s[1]]
              IN  /\ s[1] \in Conns
                  /\ \/ ~Exists(s[1]) /\ <<>> \in Seq(Ops) /\ Replaced(c, <<>>)
                     \/ Exists(s[1]) /\ <<op>> \in Seq(Ops) /\ Replaced(c, <<op>>)
<1> DEFINE s == Head(task[c]).sub
           op == [op |-> "close", conn |-> s[1]]
<1>1. task[c] # <<>> /\ Head(task[c]).op = "slow" /\ s \in Subs
  BY FirstOp, OpType DEF DisconnectSlow, Doing
<1>2. s[1] \in Conns
  BY <1>1 DEF Subs
<1>3. CASE ~Exists(s[1])
  <2>1. Done(c, <<>>)
    BY <1>3 DEF DisconnectSlow
  <2> QED
    BY <1>1, <1>2, <1>3, <2>1, DropTask
<1>4. CASE Exists(s[1])
  <2>1. op \in Ops
    BY <1>2, FrameTypes, NewOps
  <2>2. Done(c, <<op>>) /\ <<op>> \in Seq(Ops)
    BY <1>4, <2>1 DEF DisconnectSlow
  <2> QED
    BY <1>1, <1>2, <1>4, <2>2, DoneReplaces
<1> QED
  BY <1>3, <1>4

\* The operations that are over at once.
LEMMA PlainTask ==
    ASSUME TypeInv, NEW c \in Conns,
           Unsubscribe(c) \/ EnqueueNone(c) \/ CloseConn(c) \/ Write(c) \/ FlushFirst(c)
    PROVE  /\ task[c] # <<>> /\ Head(task[c]) \in Ops
           /\ Replaced(c, <<>>) /\ <<>> \in Seq(Ops)
<1>1. task[c] # <<>> /\ Done(c, <<>>)
  BY DEF Unsubscribe, EnqueueNone, CloseConn, Write, FlushFirst, Doing
<1> QED
  BY <1>1, DropTask, FirstOp

LEMMA RemovedTypes ==
    ASSUME TypeInv, NEW s
    PROVE  Removed(s) \in [Channels -> SUBSET Subs]
BY DEF TypeInv, Removed

LEMMA CloseSubType ==
    ASSUME TypeInv, NEW s \in Subs, CloseSub(s)
    PROVE  sub' \in [Conns -> 0..MaxSubs] /\ done' \subseteq Subs
<1>1. NoSub \in 0..MaxSubs
  BY DEF TypeInv, Bounds, NoSub
<1> QED
  BY <1>1 DEF TypeInv, CloseSub

LEMMA RemoveConnType ==
    ASSUME TypeInv, NEW k \in Conns, RemoveConn(k)
    PROVE  /\ members' \in [Channels -> SUBSET Subs]
           /\ sub' \in [Conns -> 0..MaxSubs] /\ done' \subseteq Subs
<1>1. CASE ~Exists(k)
  BY <1>1 DEF RemoveConn, TypeInv
<1>2. CASE Exists(k)
  BY <1>2, SubTypes, RemovedTypes, CloseSubType DEF RemoveConn
<1> QED
  BY <1>1, <1>2

LEMMA TypeStep ==
    ASSUME TypeInv, [Next]_vars
    PROVE  TypeInv'
<1>1. ASSUME NEW c \in Conns, NEW cmd \in Commands, Receive(c, cmd) PROVE TypeInv'
  BY <1>1, ReceiveType
<1>2. ASSUME NEW c \in Conns, Subscribe(c) PROVE TypeInv'
  <2>1. PICK s \in Subs :
           /\ s[2] = IF Exists(c) THEN sub[c] ELSE made[c] + 1
           /\ sub' = [sub EXCEPT ![c] = s[2]]
           /\ made' = [made EXCEPT ![c] = Max({made[c], s[2]})]
           /\ channels' = [channels EXCEPT ![s] = @ \cup {Head(task[c]).channel}]
           /\ members' = [members EXCEPT ![Head(task[c]).channel] = @ \cup {s}]
    BY <1>2, SubscribeTask
  <2>2. Head(task[c]).channel \in Channels
    BY <1>2, SubscribeTask
  <2>3. s[2] \in 0..MaxSubs /\ made[c] \in 0..MaxSubs /\ MaxSubs \in Nat
    BY DEF Subs, TypeInv, Bounds
  <2>4. Max({made[c], s[2]}) \in 0..MaxSubs
    BY <2>3, MaxOfTwo
  <2>5. task' \in [Conns -> Seq(Ops)]
    BY <1>2, SubscribeTask DEF Replaced
  <2>6. sub' \in [Conns -> 0..MaxSubs] /\ made' \in [Conns -> 0..MaxSubs]
    BY <2>1, <2>3, <2>4 DEF TypeInv
  <2>7. channels' \in [Subs -> SUBSET Channels] /\ members' \in [Channels -> SUBSET Subs]
    BY <2>1, <2>2 DEF TypeInv
  <2> QED
    BY <1>2, <2>5, <2>6, <2>7 DEF TypeInv, Subscribe
<1>3. ASSUME NEW c \in Conns, Unsubscribe(c) PROVE TypeInv'
  <2>1. task' \in [Conns -> Seq(Ops)]
    BY <1>3, PlainTask DEF Replaced
  <2>2. CASE ~Exists(c)
    BY <1>3, <2>1, <2>2 DEF TypeInv, Unsubscribe
  <2>3. CASE Exists(c)
    <3>1. /\ channels' = [channels EXCEPT ![Of(c)] = @ \ {Head(task[c]).channel}]
          /\ members' = [members EXCEPT ![Head(task[c]).channel] = @ \ {Of(c)}]
          /\ CloseSub(Of(c)) \/ UNCHANGED <<done, sub>>
      BY <1>3, <2>3 DEF Unsubscribe
    <3>2. sub' \in [Conns -> 0..MaxSubs] /\ done' \subseteq Subs
      BY <2>3, <3>1, SubTypes, CloseSubType DEF TypeInv
    <3>3. channels' \in [Subs -> SUBSET Channels] /\ members' \in [Channels -> SUBSET Subs]
      BY <3>1 DEF TypeInv
    <3> QED
      BY <1>3, <2>1, <3>2, <3>3 DEF TypeInv, Unsubscribe
  <2> QED
    BY <2>2, <2>3
<1>4. ASSUME NEW c \in Conns, Publish(c) \/ Send(c) \/ EnqueueNone(c) PROVE TypeInv'
  <2>1. task' \in [Conns -> Seq(Ops)]
    BY <1>4, PublishTask, SendTask, PlainTask DEF Replaced
  <2> QED
    BY <1>4, <2>1 DEF TypeInv, Publish, Send, EnqueueNone, hub
<1>5. ASSUME NEW c \in Conns, NEW s \in Subs, Enqueue(c, s) PROVE TypeInv'
  <2>1. task' \in [Conns -> Seq(Ops)]
    BY <1>5, EnqueueTask DEF Replaced
  <2>2. queue[s] \in Seq(Frames) /\ queue \in [Subs -> Seq(Frames)]
    BY DEF TypeInv
  <2>3. Head(task[c]).frame \in Frames
    BY <1>5, EnqueueTask
  <2>4. Append(queue[s], Head(task[c]).frame) \in Seq(Frames)
    BY <2>2, <2>3
  <2>5. queue' = queue \/ queue' = [queue EXCEPT ![s] = Append(queue[s], Head(task[c]).frame)]
    BY <1>5 DEF Enqueue
  <2>6. queue' \in [Subs -> Seq(Frames)]
    BY <2>2, <2>4, <2>5
  <2> QED
    BY <1>5, <2>1, <2>6 DEF TypeInv, Enqueue, hub
<1>6. ASSUME NEW c \in Conns, DisconnectSlow(c) PROVE TypeInv'
  <2>1. task' \in [Conns -> Seq(Ops)] /\ Head(task[c]).sub \in Subs /\ Head(task[c]).sub[1] \in Conns
    BY <1>6, DisconnectSlowTask DEF Replaced
  <2>2. NoSub \in 0..MaxSubs
    BY DEF TypeInv, Bounds, NoSub
  <2>3. PICK s \in Subs :
           \/ UNCHANGED <<members, done, sub, stuck>>
           \/ /\ members' = Removed(s) /\ done' = done \cup {s}
              /\ sub' = sub \/ sub' = [sub EXCEPT ![s[1]] = NoSub]
    BY <1>6, <2>1 DEF DisconnectSlow
  <2>4. members' \in [Channels -> SUBSET Subs]
    BY <2>3, RemovedTypes DEF TypeInv
  <2>5. done' \subseteq Subs
    BY <2>3 DEF TypeInv
  <2>7. stuck' \in BOOLEAN
    <3>1. \A r : (r \in done) \in BOOLEAN
      OBVIOUS
    <3>2. stuck' = stuck \/ \E r : stuck' = (r \in done)
      BY <1>6, Zenon DEF DisconnectSlow
    <3>3. stuck \in BOOLEAN
      BY DEF TypeInv
    <3> QED
      BY <3>1, <3>2, <3>3, Zenon
  <2>6. sub' \in [Conns -> 0..MaxSubs]
    BY <2>2, <2>3 DEF TypeInv
  <2> QED
    BY <1>6, <2>1, <2>4, <2>5, <2>6, <2>7 DEF TypeInv, DisconnectSlow
<1>7. ASSUME NEW c \in Conns, CloseConn(c) PROVE TypeInv'
  <2>1. /\ task' \in [Conns -> Seq(Ops)] /\ Head(task[c]).conn \in Conns
    BY <1>7, PlainTask, OpType DEF Replaced, CloseConn, Doing
  <2>2. /\ members' \in [Channels -> SUBSET Subs] /\ done' \subseteq Subs
        /\ sub' \in [Conns -> 0..MaxSubs] /\ closed' \subseteq Conns
    BY <1>7, <2>1, RemoveConnType DEF TypeInv, CloseConn
  <2> QED
    BY <1>7, <2>1, <2>2 DEF TypeInv, CloseConn
<1>8. ASSUME NEW c \in Conns, Write(c) PROVE TypeInv'
  <2>1. task' \in [Conns -> Seq(Ops)] /\ Head(task[c]).frame \in Frames
    BY <1>8, PlainTask, OpType DEF Replaced, Write
  <2>2. buf' \in [Conns -> Seq(Frames)]
    <3>1. buf[c] \in Seq(Frames) /\ buf \in [Conns -> Seq(Frames)]
      BY DEF TypeInv
    <3>2. Append(buf[c], Head(task[c]).frame) \in Seq(Frames)
      BY <2>1, <3>1
    <3> QED
      BY <1>8, <3>1, <3>2 DEF Write
  <2> QED
    BY <1>8, <2>1, <2>2 DEF TypeInv, Write, hub
<1>9. ASSUME NEW c \in Conns, FlushFirst(c) \/ Flush(c) PROVE TypeInv'
  <2>1. task' \in [Conns -> Seq(Ops)]
    BY <1>9, PlainTask DEF Replaced, Flush, TypeInv
  <2>2. out' \in [Conns -> Seq(Frames)] /\ buf' \in [Conns -> Seq(Frames)]
    <3>1. out[c] \in Seq(Frames) /\ buf[c] \in Seq(Frames)
      BY DEF TypeInv
    <3>2. out[c] \o buf[c] \in Seq(Frames) /\ <<>> \in Seq(Frames)
      BY <3>1
    <3>3. Sent(c)
      BY <1>9 DEF FlushFirst, FlushBeforeWritePump, Flush
    <3> QED
      BY <3>2, <3>3 DEF Sent, TypeInv
  <2> QED
    BY <1>9, <2>1, <2>2 DEF TypeInv, FlushFirst, Flush, hub
<1>10. ASSUME NEW c \in Conns, Leave(c) PROVE TypeInv'
  <2>1. task' \in [Conns -> Seq(Ops)]
    <3>1. [op |-> "close", conn |-> c] \in Ops
      BY FrameTypes, NewOps
    <3>2. <<[op |-> "close", conn |-> c]>> \in Seq(Ops)
      BY <3>1
    <3> QED
      BY <1>10, <3>2 DEF Leave, TypeInv
  <2> QED
    BY <1>10, <2>1 DEF TypeInv, Leave, hub
<1>11. ASSUME NEW s \in Subs, Pump(s) \/ PumpDone(s) PROVE TypeInv'
  <2>1. s[1] \in Conns
    BY DEF Subs
  <2>2. out' \in [Conns -> Seq(Frames)] /\ queue' \in [Subs -> Seq(Frames)]
    <3>1. out[s[1]] \in Seq(Frames) /\ queue[s] \in Seq(Frames)
      BY <2>1 DEF TypeInv
    <3>2. out[s[1]] \o queue[s] \in Seq(Frames) /\ <<>> \in Seq(Frames)
      BY <3>1
    <3>3. Drained(s)
      BY <1>11 DEF Pump, PumpDone, DrainOnDone
    <3> QED
      BY <2>1, <3>2, <3>3 DEF Drained, TypeInv
  <2>3. ended' \subseteq Subs
    BY <1>11 DEF Pump, PumpDone, TypeInv
  <2> QED
    BY <1>11, <2>2, <2>3 DEF TypeInv, Pump, PumpDone, hub
<1>12. CASE UNCHANGED vars
  BY <1>12 DEF TypeInv, vars, hub
<1> QED
  BY <1>1, <1>2, <1>3, <1>4, <1>5, <1>6, <1>7, <1>8, <1>9, <1>10, <1>11, <1>12 DEF Next, Step

(***************************************************************************)
(* The maps of the hub                                                     *)
(***************************************************************************)
LEMMA SubPairs ==
    ASSUME NEW s \in Subs
    PROVE  /\ s[1] \in Conns /\ s[2] \in 1..MaxSubs /\ s = <<s[1], s[2]>>
           /\ \A t \in Subs : s[1] = t[1] /\ s[2] = t[2] => s = t
BY DEF Subs

LEMMA LiveIs ==
    ASSUME TypeInv, NEW s \in Subs
    PROVE  /\ Live(s) <=> Exists(s[1]) /\ s = Of(s[1])
           /\ Live(s) => Of(s[1]) = s
<1>1. s[1] \in Conns /\ s[2] \in 1..MaxSubs /\ s = <<s[1], s[2]>>
  BY SubPairs
<1>2. s[2] # 0
  <2>1. MaxSubs \in Nat
    BY DEF TypeInv, Bounds
  <2> QED
    BY <1>1, <2>1
<1> QED
  BY <1>1, <1>2 DEF Live, Exists, Of, NoSub

\* A step that leaves the hub alone.
LEMMA MapsSame ==
    ASSUME MapsAgree, UNCHANGED <<sub, made, channels, members, done>>
    PROVE  MapsAgree'
BY DEF MapsAgree, Live

LEMMA UnmadeSame ==
    ASSUME TypeInv, Unmade, UNCHANGED <<sub, made, channels, done>>,
           \A s \in Subs : s \notin Made => queue'[s] = queue[s] /\ (s \in ended' => s \in ended)
    PROVE  Unmade'
<1>1. Made' = Made
  BY DEF Made
<1> QED
  BY <1>1 DEF Unmade

LEMMA KnowsReplaced ==
    ASSUME TypeInv, KnowsMade, NEW c \in Conns, task[c] # <<>>, NEW ops \in Seq(Ops),
           Replaced(c, ops), Made \subseteq Made', \A i \in DOMAIN ops : Knows(ops[i])'
    PROVE  KnowsMade'
<1>1. \A op : Knows(op) => Knows(op)'
  BY DEF Knows
<1>2. ASSUME NEW d \in Conns, NEW op \in Todo(d)' PROVE Knows(op)'
  <2>1. CASE d = c
    <3>1. \/ \E i \in DOMAIN ops : op = ops[i]
          \/ \E i \in DOMAIN task[c] \ {1} : op = task[c][i]
      BY <1>2, <2>1, ReplacedTodo
    <3>2. CASE \E i \in DOMAIN ops : op = ops[i]
      BY <3>2
    <3>3. CASE \E i \in DOMAIN task[c] \ {1} : op = task[c][i]
      <4>1. op \in Todo(c)
        BY <3>3 DEF Todo
      <4> QED
        BY <1>1, <4>1 DEF KnowsMade
    <3> QED
      BY <3>1, <3>2, <3>3
  <2>2. CASE d # c
    <3>1. op \in Todo(d)
      BY <1>2, <2>2 DEF Replaced
    <3> QED
      BY <1>1, <3>1 DEF KnowsMade
  <2> QED
    BY <2>1, <2>2
<1> QED
  BY <1>2 DEF KnowsMade

LEMMA KnowsOne ==
    ASSUME TypeInv, KnowsMade, NEW c \in Conns, task[c] # <<>>, NEW op, <<op>> \in Seq(Ops),
           Replaced(c, <<op>>), Made \subseteq Made', Knows(op)'
    PROVE  KnowsMade'
<1>1. \A i \in DOMAIN <<op>> : <<op>>[i] = op
  OBVIOUS
<1>2. \A i \in DOMAIN <<op>> : Knows(<<op>>[i])'
  BY <1>1 DEF Knows
<1> QED
  BY <1>2, KnowsReplaced

LEMMA KnowsNone ==
    ASSUME TypeInv, KnowsMade, NEW c \in Conns, task[c] # <<>>, Replaced(c, <<>>),
           Made \subseteq Made'
    PROVE  KnowsMade'
<1>1. <<>> \in Seq(Ops) /\ DOMAIN <<>> = {}
  OBVIOUS
<1> QED
  BY <1>1, KnowsReplaced

LEMMA KnowsSame ==
    ASSUME KnowsMade, UNCHANGED <<task, made>>
    PROVE  KnowsMade'
<1>1. Made' = Made /\ \A c : Todo(c)' = Todo(c)
  BY DEF Made, Todo
<1> QED
  BY <1>1 DEF KnowsMade, Knows

LEMMA ReceiveMaps ==
    ASSUME TypeInv, MapsInv, NEW c \in Conns, NEW cmd \in Commands, Receive(c, cmd)
    PROVE  MapsInv'
<1>1. UNCHANGED <<sub, made, channels, members, done, queue, ended>>
  BY DEF Receive, hub
<1>2. MapsAgree' /\ Unmade'
  BY <1>1, MapsSame, UnmadeSame DEF MapsInv
<1>3. Made' = Made
  BY <1>1 DEF Made
<1>4. PICK f \in Frames : Commanded(c, cmd, f)
  BY CommandTask
<1>5. \A op : op.op \notin {"enqueue", "slow"} => Knows(op)'
  BY DEF Knows
<1>6. /\ cmd.op \notin {"enqueue", "slow"} /\ FlushOp.op \notin {"enqueue", "slow"}
      /\ SendOf(f).op \notin {"enqueue", "slow"} /\ WriteOf(f).op \notin {"enqueue", "slow"}
  BY DEF Commands, FlushOp, SendOf, WriteOf
<1>7. \A op \in Todo(c)' : op \in {cmd, FlushOp, SendOf(f), WriteOf(f)}
  <2>1. Todo(c)' = {task'[c][i] : i \in DOMAIN task'[c]}
    BY DEF Todo
  <2> QED
    BY <1>4, <2>1 DEF Commanded
<1>8. \A d \in Conns : d # c => Todo(d)' = Todo(d)
  BY CommandTask
<1>9. \A d \in Conns : \A op \in Todo(d)' : Knows(op)'
  <2>1. \A op : Knows(op) => Knows(op)'
    BY <1>3 DEF Knows
  <2> QED
    BY <1>5, <1>6, <1>7, <1>8, <2>1 DEF MapsInv, KnowsMade
<1> QED
  BY <1>2, <1>9 DEF MapsInv, KnowsMade

LEMMA SubscribeMaps ==
    ASSUME TypeInv, MapsInv, NEW c \in Conns, Subscribe(c)
    PROVE  MapsInv'
<1>1. PICK s \in Subs :
         /\ s[1] = c /\ s[2] = IF Exists(c) THEN sub[c] ELSE made[c] + 1
         /\ Exists(c) => s = Of(c)
         /\ LET op == [op |-> "enqueue", to |-> {s}, frame |-> Reply(c)]
            IN  <<op>> \in Seq(Ops) /\ Replaced(c, <<op>>)
         /\ sub' = [sub EXCEPT ![c] = s[2]]
         /\ made' = [made EXCEPT ![c] = Max({made[c], s[2]})]
         /\ channels' = [channels EXCEPT ![s] = @ \cup {Head(task[c]).channel}]
         /\ members' = [members EXCEPT ![Head(task[c]).channel] = @ \cup {s}]
  BY SubscribeTask
<1>2. task[c] # <<>> /\ Head(task[c]).channel \in Channels /\ UNCHANGED <<queue, done, ended>>
  BY SubscribeTask DEF Subscribe
<1>3. PICK ch : ch = Head(task[c]).channel
  OBVIOUS
<1>4. /\ sub[c] \in Nat /\ made[c] \in Nat /\ sub[c] <= made[c] /\ s[2] \in Nat /\ s[2] # 0
      /\ sub \in [Conns -> 0..MaxSubs] /\ made \in [Conns -> 0..MaxSubs]
      /\ channels \in [Subs -> SUBSET Channels] /\ members \in [Channels -> SUBSET Subs]
  <2>1. MaxSubs \in Nat
    BY DEF TypeInv, Bounds
  <2> QED
    BY <2>1, SubPairs DEF TypeInv, MapsInv, Unmade
<1>5. /\ made'[c] = s[2] \/ (Exists(c) /\ made'[c] = made[c])
      /\ made[c] <= made'[c] /\ s[2] <= made'[c] /\ sub'[c] = s[2]
      /\ ~Exists(c) => sub[c] = 0 /\ made'[c] = made[c] + 1 /\ s \notin Made
      /\ Exists(c) => sub[c] = s[2] /\ made'[c] = made[c] /\ s \in Made
      /\ \A d \in Conns : d # c => sub'[d] = sub[d] /\ made'[d] = made[d]
      /\ made'[c] \in Nat
  <2>1. Max({made[c], s[2]}) = IF made[c] >= s[2] THEN made[c] ELSE s[2]
    BY <1>4, MaxOfTwo
  <2>2. made'[c] = (IF made[c] >= s[2] THEN made[c] ELSE s[2]) /\ sub'[c] = s[2]
    BY <1>1, <1>4, <2>1
  <2>3. \A d \in Conns : d # c => sub'[d] = sub[d] /\ made'[d] = made[d]
    BY <1>1, <1>4
  <2>4. CASE Exists(c)
    BY <1>1, <1>4, <2>2, <2>3, <2>4 DEF Made
  <2>5. CASE ~Exists(c)
    BY <1>1, <1>4, <2>2, <2>3, <2>5 DEF Made, Exists, NoSub
  <2> QED
    BY <2>4, <2>5
<1>6. Made \subseteq Made' /\ s \in Made'
  <2>1. \A d \in Conns : made[d] \in Nat /\ made'[d] \in Nat /\ made[d] <= made'[d]
    <3>1. MaxSubs \in Nat
      BY DEF TypeInv, Bounds
    <3> QED
      BY <1>4, <1>5, <3>1
  <2>2. ASSUME NEW t \in Made PROVE t \in Made'
    <3>1. t \in Subs /\ t[1] \in Conns /\ t[2] \in 1..MaxSubs /\ t[2] <= made[t[1]]
      BY SubPairs DEF Made
    <3>2. t[2] <= made'[t[1]]
      BY <2>1, <3>1
    <3> QED
      BY <3>1, <3>2 DEF Made
  <2> QED
    BY <1>1, <1>5, <2>2 DEF Made
<1>7. \A t \in Subs : Live(t)' <=> t = s \/ Live(t)
  <2> TAKE t \in Subs
  <2>1. t[1] \in Conns /\ t[2] \in Nat /\ t[2] # 0 /\ (t[1] = s[1] /\ t[2] = s[2] => t = s)
    <3>1. MaxSubs \in Nat
      BY DEF TypeInv, Bounds
    <3> QED
      BY <3>1, SubPairs
  <2>2. CASE t[1] # c
    BY <1>1, <1>5, <2>1, <2>2 DEF Live
  <2>3. CASE t[1] = c
    BY <1>1, <1>5, <2>1, <2>3 DEF Live
  <2> QED
    BY <2>2, <2>3
<1>8. /\ channels'[s] = channels[s] \cup {ch} /\ \A t \in Subs : t # s => channels'[t] = channels[t]
      /\ members'[ch] = members[ch] \cup {s} /\ \A h \in Channels : h # ch => members'[h] = members[h]
  BY <1>1, <1>2, <1>3, <1>4
<1>9. s \notin done /\ (~Exists(c) => channels[s] = {})
  <2>1. CASE Exists(c)
    BY <1>1, <2>1, SubTypes DEF MapsInv, MapsAgree
  <2>2. CASE ~Exists(c)
    BY <1>5, <2>2 DEF MapsInv, Unmade
  <2> QED
    BY <2>1, <2>2
<1>10. MapsAgree'
  <2>1. ASSUME NEW h \in Channels
        PROVE  members'[h] = {t \in Subs : Live(t)' /\ h \in channels'[t]}
    <3>1. members[h] = {t \in Subs : Live(t) /\ h \in channels[t]}
      BY DEF MapsInv, MapsAgree
    <3>2. \A t \in Subs : t \in members'[h] <=> Live(t)' /\ h \in channels'[t]
      <4> TAKE t \in Subs
      <4>1. CASE t # s
        BY <1>7, <1>8, <3>1, <4>1
      <4>2. CASE t = s
        <5>1. Exists(c) => Live(s)
          BY <1>1, SubTypes
        <5> QED
          BY <1>2, <1>3, <1>7, <1>8, <1>9, <3>1, <4>2, <5>1 DEF Live
      <4> QED
        BY <4>1, <4>2
    <3>3. members'[h] \subseteq Subs
      BY <1>8, <3>1
    <3> QED
      BY <3>2, <3>3
  <2>2. \A t \in Subs : Live(t)' => channels'[t] # {} /\ t \notin done'
    BY <1>2, <1>7, <1>8, <1>9 DEF MapsInv, MapsAgree
  <2>3. ASSUME NEW t \in Subs, t[2] <= made'[t[1]], ~Live(t)' PROVE t \in done'
    <3>1. t # s /\ ~Live(t)
      BY <1>7, <2>3
    <3>2. t[1] \in Conns /\ t[2] \in Nat /\ (t[1] = s[1] /\ t[2] = s[2] => t = s)
      <4>1. MaxSubs \in Nat
        BY DEF TypeInv, Bounds
      <4> QED
        BY <4>1, SubPairs
    <3>3. t[2] <= made[t[1]]
      BY <1>1, <1>4, <1>5, <2>3, <3>1, <3>2
    <3> QED
      BY <1>2, <3>1, <3>3 DEF MapsInv, MapsAgree
  <2> QED
    BY <2>1, <2>2, <2>3 DEF MapsAgree
<1>11. Unmade'
  <2>1. \A d \in Conns : sub'[d] <= made'[d]
    BY <1>1, <1>5 DEF MapsInv, Unmade
  <2>2. \A t \in Subs \ Made' : t # s /\ t \in Subs \ Made
    BY <1>6
  <2> QED
    BY <1>2, <1>8, <2>1, <2>2 DEF MapsInv, Unmade
<1>12. KnowsMade'
  <2>1. PICK op : op = [op |-> "enqueue", to |-> {s}, frame |-> Reply(c)]
    OBVIOUS
  <2>2. Knows(op)'
    BY <1>6, <2>1 DEF Knows
  <2>3. <<op>> \in Seq(Ops) /\ Replaced(c, <<op>>)
    BY <1>1, <2>1
  <2> QED
    BY <1>2, <1>6, <2>2, <2>3, KnowsOne DEF MapsInv
<1> QED
  BY <1>10, <1>11, <1>12 DEF MapsInv

\* Taking a Subscriber out: it is the one that the hub has of its connection.
LEMMA ClosedSub ==
    ASSUME TypeInv, MapsInv, NEW k \in Conns, Exists(k), CloseSub(Of(k)), UNCHANGED made
    PROVE  /\ Of(k) \in Subs /\ Of(k) \in Made /\ Live(Of(k))
           /\ \A t \in Subs : Live(t)' <=> Live(t) /\ t # Of(k)
           /\ \A c \in Conns : sub'[c] <= made'[c]
           /\ Made' = Made /\ done' = done \cup {Of(k)}
<1>1. Of(k) \in Subs /\ Of(k)[1] = k /\ Of(k)[2] = sub[k] /\ Live(Of(k))
  BY SubTypes
<1>2. Of(k) \in Made
  BY <1>1 DEF MapsInv, Unmade, Made
<1>3. sub' = [sub EXCEPT ![k] = 0] /\ done' = done \cup {Of(k)}
  BY <1>1 DEF CloseSub, NoSub
<1>4. \A t \in Subs : Live(t)' <=> Live(t) /\ t # Of(k)
  <2> TAKE t \in Subs
  <2>1. t[1] \in Conns /\ t[2] # 0 /\ sub \in [Conns -> 0..MaxSubs]
    <3>1. MaxSubs \in Nat
      BY DEF TypeInv, Bounds
    <3> QED
      BY <3>1, SubPairs DEF TypeInv
  <2>2. CASE t[1] = k
    <3>1. ~Live(t)'
      BY <1>3, <2>1, <2>2 DEF Live
    <3>2. Live(t) => t = Of(k)
      BY <2>2, LiveIs
    <3> QED
      BY <3>1, <3>2
  <2>3. CASE t[1] # k
    BY <1>1, <1>3, <2>1, <2>3 DEF Live
  <2> QED
    BY <2>2, <2>3
<1>5. \A c \in Conns : sub'[c] <= made'[c]
  <2> TAKE c \in Conns
  <2>1. sub[c] <= made[c] /\ made[c] \in 0..MaxSubs /\ MaxSubs \in Nat /\ sub \in [Conns -> 0..MaxSubs]
    BY DEF MapsInv, Unmade, TypeInv, Bounds
  <2>2. sub'[c] = sub[c] \/ sub'[c] = 0
    BY <1>3, <2>1
  <2> QED
    BY <2>1, <2>2
<1>6. Made' = Made
  BY DEF Made
<1> QED
  BY <1>1, <1>2, <1>3, <1>4, <1>5, <1>6

LEMMA TakeOut ==
    ASSUME TypeInv, MapsInv, NEW k \in Conns, Exists(k),
           members' = Removed(Of(k)), CloseSub(Of(k)), UNCHANGED <<made, channels, queue, ended>>
    PROVE  MapsAgree' /\ Unmade' /\ Made' = Made
<1>1. PICK s : s = Of(k)
  OBVIOUS
<1>2. /\ s \in Subs /\ s \in Made
      /\ \A t \in Subs : Live(t)' <=> Live(t) /\ t # s
      /\ \A c \in Conns : sub'[c] <= made'[c]
      /\ Made' = Made /\ done' = done \cup {s}
  BY <1>1, ClosedSub
<1>3. \A ch \in Channels : members'[ch] = members[ch] \ {s}
  BY <1>1 DEF Removed
<1>4. MapsAgree'
  <2>1. ASSUME NEW ch \in Channels
        PROVE  members'[ch] = {t \in Subs : Live(t)' /\ ch \in channels'[t]}
    <3>1. members[ch] = {t \in Subs : Live(t) /\ ch \in channels[t]}
      BY DEF MapsInv, MapsAgree
    <3> QED
      BY <1>2, <1>3, <3>1
  <2>2. \A t \in Subs : Live(t)' => channels'[t] # {} /\ t \notin done'
    BY <1>2 DEF MapsInv, MapsAgree
  <2>3. \A t \in Subs : t[2] <= made'[t[1]] /\ ~Live(t)' => t \in done'
    BY <1>2 DEF MapsInv, MapsAgree
  <2> QED
    BY <2>1, <2>2, <2>3 DEF MapsAgree
<1>5. Unmade'
  BY <1>2 DEF MapsInv, Unmade
<1> QED
  BY <1>2, <1>4, <1>5

LEMMA UnsubscribeMaps ==
    ASSUME TypeInv, MapsInv, NEW c \in Conns, Unsubscribe(c)
    PROVE  MapsInv'
<1>1. /\ task[c] # <<>> /\ Replaced(c, <<>>) /\ UNCHANGED <<made, queue, ended>>
      /\ Head(task[c]).channel \in Channels
  BY PlainTask, OpType DEF Unsubscribe, Doing
<1>2. Made' = Made
  BY <1>1 DEF Made
<1>3. KnowsMade'
  BY <1>1, <1>2, KnowsNone DEF MapsInv
<1>4. CASE ~Exists(c)
  <2>1. UNCHANGED <<sub, made, channels, members, done, queue, ended>>
    BY <1>1, <1>4 DEF Unsubscribe
  <2> QED
    BY <1>3, <2>1, MapsSame, UnmadeSame DEF MapsInv
<1>5. CASE Exists(c)
  <2>1. PICK s, ch : s = Of(c) /\ ch = Head(task[c]).channel
    OBVIOUS
  <2>2. s \in Subs /\ Live(s) /\ ch \in Channels
    BY <1>1, <1>5, <2>1, SubTypes
  <2>3. /\ channels' = [channels EXCEPT ![s] = @ \ {ch}]
        /\ members' = [members EXCEPT ![ch] = @ \ {s}]
        /\ IF channels'[s] = {} THEN CloseSub(s) ELSE UNCHANGED <<done, sub>>
    BY <1>5, <2>1 DEF Unsubscribe
  <2>4. channels \in [Subs -> SUBSET Channels] /\ members \in [Channels -> SUBSET Subs]
    BY DEF TypeInv
  <2>5. /\ channels'[s] = channels[s] \ {ch} /\ \A t \in Subs : t # s => channels'[t] = channels[t]
        /\ members'[ch] = members[ch] \ {s} /\ \A h \in Channels : h # ch => members'[h] = members[h]
    BY <2>2, <2>3, <2>4
  <2>6. \A h \in Channels : members[h] = {t \in Subs : Live(t) /\ h \in channels[t]}
    BY DEF MapsInv, MapsAgree
  <2>7. \A t \in Subs : Live(t) => channels[t] # {} /\ t \notin done
    BY DEF MapsInv, MapsAgree
  <2>8. \A t \in Subs : t[2] <= made[t[1]] /\ ~Live(t) => t \in done
    BY DEF MapsInv, MapsAgree
  <2>9. CASE channels'[s] # {}
    <3>1. UNCHANGED <<done, sub>>
      BY <2>3, <2>9
    <3>2. \A t \in Subs : Live(t)' <=> Live(t)
      BY <3>1 DEF Live
    <3>3. ASSUME NEW h \in Channels
          PROVE  members'[h] = {t \in Subs : Live(t)' /\ h \in channels'[t]}
      BY <2>2, <2>4, <2>5, <2>6, <3>2
    <3>4. MapsAgree'
      <4>1. \A t \in Subs : Live(t)' => channels'[t] # {} /\ t \notin done'
        BY <2>5, <2>7, <2>9, <3>1, <3>2
      <4>2. \A t \in Subs : t[2] <= made'[t[1]] /\ ~Live(t)' => t \in done'
        BY <1>1, <2>8, <3>1, <3>2
      <4> QED
        BY <3>3, <4>1, <4>2 DEF MapsAgree
    <3>5. Unmade'
      BY <1>1, <1>2, <2>4, <2>5, <3>1 DEF MapsInv, Unmade
    <3> QED
      BY <1>3, <3>4, <3>5 DEF MapsInv
  <2>10. CASE channels'[s] = {}
    <3>1. CloseSub(s)
      BY <2>3, <2>10
    <3>2. /\ s \in Made /\ \A t \in Subs : Live(t)' <=> Live(t) /\ t # s
          /\ \A d \in Conns : sub'[d] <= made'[d]
          /\ done' = done \cup {s}
      BY <1>1, <1>5, <2>1, <3>1, ClosedSub
    <3>3. ASSUME NEW h \in Channels
          PROVE  members'[h] = {t \in Subs : Live(t)' /\ h \in channels'[t]}
      <4>1. h # ch => h \notin channels[s]
        BY <2>5, <2>10
      <4> QED
        BY <2>2, <2>4, <2>5, <2>6, <3>2, <4>1
    <3>4. MapsAgree'
      <4>1. \A t \in Subs : Live(t)' => channels'[t] # {} /\ t \notin done'
        BY <2>5, <2>7, <3>2
      <4>2. \A t \in Subs : t[2] <= made'[t[1]] /\ ~Live(t)' => t \in done'
        BY <1>1, <2>8, <3>2
      <4> QED
        BY <3>3, <4>1, <4>2 DEF MapsAgree
    <3>5. Unmade'
      BY <1>1, <1>2, <2>4, <2>5, <3>2 DEF MapsInv, Unmade
    <3> QED
      BY <1>3, <3>4, <3>5 DEF MapsInv
  <2> QED
    BY <2>9, <2>10
<1> QED
  BY <1>4, <1>5

LEMMA DisconnectSlowMaps ==
    ASSUME TypeInv, MapsInv, NEW c \in Conns, DisconnectSlow(c)
    PROVE  MapsInv'
<1>1. PICK s : s = Head(task[c]).sub
  OBVIOUS
<1>2. /\ task[c] # <<>> /\ Head(task[c]).op = "slow" /\ s \in Subs /\ s[1] \in Conns
      /\ UNCHANGED <<made, channels, queue, ended>>
  BY <1>1, DisconnectSlowTask DEF DisconnectSlow
<1>3. s \in Made /\ Made' = Made
  <2>1. Knows(Head(task[c]))
    BY <1>2, FirstOp DEF MapsInv, KnowsMade
  <2> QED
    BY <1>1, <1>2, <2>1 DEF Knows, Made
<1>4. KnowsMade'
  <2>1. PICK op : op = [op |-> "close", conn |-> s[1]]
    OBVIOUS
  <2>2. Knows(op)'
    BY <2>1 DEF Knows
  <2>3. Replaced(c, <<>>) \/ (<<op>> \in Seq(Ops) /\ Replaced(c, <<op>>))
    BY <1>1, <2>1, DisconnectSlowTask
  <2> QED
    BY <1>2, <1>3, <2>2, <2>3, KnowsOne, KnowsNone DEF MapsInv
<1>5. CASE ~Exists(s[1])
  <2>1. UNCHANGED <<sub, made, channels, members, done, queue, ended>>
    BY <1>1, <1>2, <1>5 DEF DisconnectSlow
  <2> QED
    BY <1>4, <2>1, MapsSame, UnmadeSame DEF MapsInv
<1>6. CASE Exists(s[1]) /\ s \in done
  <2>1. ~Live(s)
    BY <1>2, <1>6 DEF MapsInv, MapsAgree
  <2>2. members' = members
    <3>1. \A ch \in Channels : s \notin members[ch]
      BY <2>1 DEF MapsInv, MapsAgree
    <3>2. members' = [ch \in Channels |-> members[ch] \ {s}]
      BY <1>1, <1>6 DEF DisconnectSlow, Removed
    <3>3. \A ch \in Channels : members[ch] \ {s} = members[ch]
      BY <3>1
    <3> QED
      BY <3>2, <3>3 DEF TypeInv
  <2>3. sub' = sub /\ done' = done
    <3>1. stuck' = (s \in done) /\ done' = done \cup {s}
          /\ sub' = IF stuck' THEN sub ELSE [sub EXCEPT ![s[1]] = NoSub]
      BY <1>1, <1>6 DEF DisconnectSlow
    <3> QED
      BY <1>6, <3>1
  <2> QED
    BY <1>2, <1>4, <2>2, <2>3, MapsSame, UnmadeSame DEF MapsInv
<1>7. CASE Exists(s[1]) /\ s \notin done
  <2>1. Live(s)
    BY <1>3, <1>7 DEF MapsInv, MapsAgree, Made
  <2>2. s = Of(s[1])
    BY <1>2, <2>1, LiveIs
  <2>3. stuck' = (s \in done) /\ done' = done \cup {s} /\ members' = Removed(s)
        /\ sub' = IF stuck' THEN sub ELSE [sub EXCEPT ![s[1]] = NoSub]
    BY <1>1, <1>7 DEF DisconnectSlow
  <2>4. CloseSub(s)
    BY <1>7, <2>3 DEF CloseSub
  <2>5. MapsAgree' /\ Unmade'
    BY <1>2, <1>7, <2>2, <2>3, <2>4, TakeOut
  <2> QED
    BY <1>4, <2>5 DEF MapsInv
<1> QED
  BY <1>5, <1>6, <1>7

LEMMA CloseConnMaps ==
    ASSUME TypeInv, MapsInv, NEW c \in Conns, CloseConn(c)
    PROVE  MapsInv'
<1>1. PICK k : k = Head(task[c]).conn
  OBVIOUS
<1>2. /\ task[c] # <<>> /\ Replaced(c, <<>>) /\ k \in Conns
      /\ UNCHANGED <<made, channels, queue, ended>>
  BY <1>1, PlainTask, OpType DEF CloseConn, Doing
<1>3. Made' = Made
  BY <1>2 DEF Made
<1>4. KnowsMade'
  BY <1>2, <1>3, KnowsNone DEF MapsInv
<1>5. CASE k \in closed \/ ~Exists(k)
  <2>1. UNCHANGED <<sub, members, done>>
    BY <1>1, <1>5 DEF CloseConn, RemoveConn
  <2> QED
    BY <1>2, <1>4, <2>1, MapsSame, UnmadeSame DEF MapsInv
<1>6. CASE k \notin closed /\ Exists(k)
  <2>1. members' = Removed(Of(k)) /\ CloseSub(Of(k))
    BY <1>1, <1>6 DEF CloseConn, RemoveConn
  <2>2. MapsAgree' /\ Unmade'
    BY <1>2, <1>6, <2>1, TakeOut
  <2> QED
    BY <1>4, <2>2 DEF MapsInv
<1> QED
  BY <1>5, <1>6

\* The rest leaves the hub alone.
LEMMA QuietMaps ==
    ASSUME TypeInv, MapsInv, UNCHANGED <<sub, made, channels, members, done>>, KnowsMade',
           \A s \in Subs : s \notin Made => queue'[s] = queue[s] /\ (s \in ended' => s \in ended)
    PROVE  MapsInv'
BY MapsSame, UnmadeSame DEF MapsInv

LEMMA MapsStep ==
    ASSUME TypeInv, MapsInv, [Next]_vars
    PROVE  MapsInv'
<1>1. ASSUME NEW c \in Conns, NEW cmd \in Commands, Receive(c, cmd) PROVE MapsInv'
  BY <1>1, ReceiveMaps
<1>2. ASSUME NEW c \in Conns, Subscribe(c) PROVE MapsInv'
  BY <1>2, SubscribeMaps
<1>3. ASSUME NEW c \in Conns, Unsubscribe(c) PROVE MapsInv'
  BY <1>3, UnsubscribeMaps
<1>4. ASSUME NEW c \in Conns, DisconnectSlow(c) PROVE MapsInv'
  BY <1>4, DisconnectSlowMaps
<1>5. ASSUME NEW c \in Conns, CloseConn(c) PROVE MapsInv'
  BY <1>5, CloseConnMaps
<1>6. ASSUME NEW c \in Conns, Publish(c) PROVE MapsInv'
  <2>1. UNCHANGED <<sub, made, channels, members, done, queue, ended>> /\ Made' = Made
    BY <1>6 DEF Publish, hub, Made
  <2>2. PICK op : op = [op |-> "enqueue", to |-> members[Head(task[c]).channel], frame |-> Message(c)]
    OBVIOUS
  <2>3. /\ task[c] # <<>> /\ Head(task[c]).channel \in Channels
        /\ <<op>> \in Seq(Ops) /\ Replaced(c, <<op>>)
    BY <1>6, <2>2, PublishTask
  <2>4. \A t \in members[Head(task[c]).channel] : t \in Made
    <3>1. \A t \in members[Head(task[c]).channel] : t \in Subs /\ Live(t)
      BY <2>3 DEF MapsInv, MapsAgree
    <3>2. \A t \in Subs : Live(t) => t[2] <= made[t[1]]
      BY SubPairs DEF Live, MapsInv, Unmade
    <3> QED
      BY <3>1, <3>2 DEF Made
  <2>5. Knows(op)'
    BY <2>1, <2>2, <2>4 DEF Knows
  <2>6. KnowsMade'
    BY <2>1, <2>3, <2>5, KnowsOne DEF MapsInv
  <2> QED
    BY <2>1, <2>6, QuietMaps
<1>7. ASSUME NEW c \in Conns, Send(c) PROVE MapsInv'
  <2>1. UNCHANGED <<sub, made, channels, members, done, queue, ended>> /\ Made' = Made
    BY <1>7 DEF Send, hub, Made
  <2>2. PICK op : op = [op |-> "enqueue", to |-> {Of(c)}, frame |-> Head(task[c]).frame]
    OBVIOUS
  <2>3. /\ task[c] # <<>>
        /\ Replaced(c, <<>>) \/ (Exists(c) /\ <<op>> \in Seq(Ops) /\ Replaced(c, <<op>>))
    BY <1>7, <2>2, SendTask
  <2>4. Exists(c) => Of(c) \in Made
    BY SubTypes DEF Made, MapsInv, Unmade
  <2>5. Exists(c) => Knows(op)'
    BY <2>1, <2>2, <2>4 DEF Knows
  <2>6. KnowsMade'
    BY <2>1, <2>3, <2>5, KnowsOne, KnowsNone DEF MapsInv
  <2> QED
    BY <2>1, <2>6, QuietMaps
<1>8. ASSUME NEW c \in Conns, NEW s \in Subs, Enqueue(c, s) PROVE MapsInv'
  <2>1. UNCHANGED <<sub, made, channels, members, done, ended>> /\ Made' = Made
    BY <1>8 DEF Enqueue, hub, Made
  <2>2. PICK rest, slow : /\ rest = [Head(task[c]) EXCEPT !.to = Head(task[c]).to \ {s}]
                          /\ slow = [op |-> "slow", sub |-> s]
    OBVIOUS
  <2>3. /\ task[c] # <<>> /\ Head(task[c]).op = "enqueue" /\ s \in Head(task[c]).to
        /\ rest \in Ops /\ slow \in Ops
        /\ rest.op = "enqueue" /\ rest.to = Head(task[c]).to \ {s}
        /\ queue' = queue \/ queue' = [queue EXCEPT ![s] = Append(queue[s], Head(task[c]).frame)]
        /\ \/ Replaced(c, <<>>) \/ Replaced(c, <<slow>>)
           \/ Replaced(c, <<rest>>) \/ Replaced(c, <<slow, rest>>)
    BY <1>8, <2>2, EnqueueTask
  <2>4. Head(task[c]).to \subseteq Made
    BY <2>3, FirstOp DEF MapsInv, KnowsMade, Knows
  <2>5. Knows(rest)' /\ Knows(slow)' /\ s \in Made
    BY <2>1, <2>2, <2>3, <2>4 DEF Knows
  <2>6. KnowsMade'
    <3>1. <<rest>> \in Seq(Ops) /\ <<slow>> \in Seq(Ops) /\ <<slow, rest>> \in Seq(Ops)
      BY <2>3
    <3>2. \A i \in DOMAIN <<slow, rest>> : Knows(<<slow, rest>>[i])'
      <4>1. \A i \in DOMAIN <<slow, rest>> : <<slow, rest>>[i] \in {slow, rest}
        OBVIOUS
      <4> QED
        BY <2>5, <4>1 DEF Knows
    <3>3. CASE Replaced(c, <<slow, rest>>)
      BY <2>1, <2>3, <3>1, <3>2, <3>3, KnowsReplaced DEF MapsInv
    <3>4. CASE Replaced(c, <<>>) \/ Replaced(c, <<slow>>) \/ Replaced(c, <<rest>>)
      BY <2>1, <2>3, <2>5, <3>1, <3>4, KnowsOne, KnowsNone DEF MapsInv
    <3> QED
      BY <2>3, <3>3, <3>4
  <2>7. \A t \in Subs : t \notin Made => queue'[t] = queue[t]
    BY <2>3, <2>5 DEF TypeInv
  <2> QED
    BY <2>1, <2>6, <2>7, QuietMaps
<1>9. ASSUME NEW c \in Conns, EnqueueNone(c) \/ Write(c) \/ FlushFirst(c) PROVE MapsInv'
  <2>1. UNCHANGED <<sub, made, channels, members, done, queue, ended>> /\ Made' = Made
    BY <1>9 DEF EnqueueNone, Write, FlushFirst, hub, Made
  <2>2. KnowsMade'
    BY <1>9, <2>1, PlainTask, KnowsNone DEF MapsInv
  <2> QED
    BY <2>1, <2>2, QuietMaps
<1>10. ASSUME NEW c \in Conns, Flush(c) PROVE MapsInv'
  <2>1. UNCHANGED <<sub, made, channels, members, done, queue, ended, task>>
    BY <1>10 DEF Flush, hub
  <2>2. KnowsMade'
    BY <2>1, KnowsSame DEF MapsInv
  <2> QED
    BY <2>1, <2>2, QuietMaps
<1>11. ASSUME NEW c \in Conns, Leave(c) PROVE MapsInv'
  <2>1. UNCHANGED <<sub, made, channels, members, done, queue, ended>> /\ Made' = Made
    BY <1>11 DEF Leave, hub, Made
  <2>2. KnowsMade'
    <3>1. \A d \in Conns : \A op \in Todo(d)' : op \in Todo(d) \/ op.op = "close"
      BY <1>11 DEF Leave, Todo, TypeInv
    <3> QED
      BY <2>1, <3>1 DEF MapsInv, KnowsMade, Knows
  <2> QED
    BY <2>1, <2>2, QuietMaps
<1>12. ASSUME NEW s \in Subs, Pump(s) \/ PumpDone(s) PROVE MapsInv'
  <2>1. UNCHANGED <<sub, made, channels, members, done, task>>
    BY <1>12 DEF Pump, PumpDone, hub
  <2>2. KnowsMade'
    BY <2>1, KnowsSame DEF MapsInv
  <2>3. s \in Made /\ queue' = [queue EXCEPT ![s] = <<>>] /\ ended' \subseteq ended \cup {s}
    BY <1>12 DEF Pump, PumpDone, DrainOnDone, Drained, Running, Made
  <2>4. \A t \in Subs : t \notin Made => queue'[t] = queue[t] /\ (t \in ended' => t \in ended)
    BY <2>3 DEF TypeInv
  <2> QED
    BY <2>1, <2>2, <2>4, QuietMaps
<1>13. CASE UNCHANGED vars
  <2>1. UNCHANGED <<sub, made, channels, members, done, queue, ended, task>>
    BY <1>13 DEF hub, vars
  <2>2. KnowsMade'
    BY <2>1, KnowsSame DEF MapsInv
  <2> QED
    BY <2>1, <2>2, QuietMaps
<1> QED
  BY <1>1, <1>2, <1>3, <1>4, <1>5, <1>6, <1>7, <1>8, <1>9, <1>10, <1>11, <1>12, <1>13 DEF Next, Step

(***************************************************************************)
(* Acknowledgements                                                        *)
(***************************************************************************)
LEMMA ClosingIs ==
    ASSUME NEW k \in Conns
    PROVE  /\ Closing(k) <=> k \in closed \/ \E d \in Conns : \E op \in Todo(d) :
                                                op.op = "close" /\ op.conn = k
           /\ Closing(k)' <=> k \in closed' \/ \E d \in Conns : \E op \in Todo(d)' :
                                                op.op = "close" /\ op.conn = k
BY DEF Closing, Todo

LEMMA ClosingReplaced ==
    ASSUME TypeInv, NEW c \in Conns, task[c] # <<>>, NEW ops \in Seq(Ops), Replaced(c, ops),
           closed \subseteq closed', Head(task[c]).op = "close" => Head(task[c]).conn \in closed',
           NEW k \in Conns, Closing(k)
    PROVE  Closing(k)'
<1>1. CASE k \in closed
  BY <1>1, ClosingIs
<1>2. CASE k \notin closed
  <2>0. PICK d \in Conns : \E op \in Todo(d) : op.op = "close" /\ op.conn = k
    BY <1>2, ClosingIs
  <2>1. PICK op \in Todo(d) : op.op = "close" /\ op.conn = k
    BY <2>0
  <2>2. CASE d # c
    BY <2>1, <2>2, ClosingIs DEF Replaced
  <2>3. CASE d = c
    <3>1. op = Head(task[c]) \/ op \in {task[c][i] : i \in DOMAIN task[c] \ {1}}
      BY <2>1, <2>3, ReplacedTodo
    <3>2. op = Head(task[c]) \/ op \in Todo(c)'
      BY <3>1, ReplacedTodo
    <3> QED
      BY <2>1, <3>2, ClosingIs
  <2> QED
    BY <2>2, <2>3
<1> QED
  BY <1>1, <1>2

LEMMA ClosingSame ==
    ASSUME closed' = closed, \A d \in Conns : Todo(d) \subseteq Todo(d)', NEW k \in Conns, Closing(k)
    PROVE  Closing(k)'
BY ClosingIs

\* A connection that is being closed is closed in the end.
LEMMA ClosingKept ==
    ASSUME TypeInv, [Next]_vars
    PROVE  \A k \in Conns : Closing(k) => Closing(k)'
<1> SUFFICES ASSUME NEW k \in Conns, Closing(k) PROVE Closing(k)'
  OBVIOUS
<1>1. ASSUME NEW c \in Conns, NEW cmd \in Commands, Receive(c, cmd) PROVE Closing(k)'
  <2>1. closed' = closed /\ \A d \in Conns : Todo(d) \subseteq Todo(d)'
    <3>1. task[c] = <<>> /\ \A d \in Conns : d # c => Todo(d)' = Todo(d)
      BY <1>1, CommandTask
    <3>2. Todo(c) = {}
      BY <3>1 DEF Todo
    <3> QED
      BY <1>1, <3>1, <3>2 DEF Receive
  <2> QED
    BY <2>1, ClosingSame
<1>2. ASSUME NEW c \in Conns, Subscribe(c) PROVE Closing(k)'
  <2>1. PICK op : <<op>> \in Seq(Ops) /\ Replaced(c, <<op>>)
    BY <1>2, SubscribeTask
  <2>2. task[c] # <<>> /\ Head(task[c]).op = "subscribe" /\ closed' = closed
    BY <1>2, SubscribeTask DEF Subscribe
  <2> QED
    BY <2>1, <2>2, ClosingReplaced
<1>3. ASSUME NEW c \in Conns, Publish(c) PROVE Closing(k)'
  <2>1. PICK op : <<op>> \in Seq(Ops) /\ Replaced(c, <<op>>)
    BY <1>3, PublishTask
  <2>2. task[c] # <<>> /\ Head(task[c]).op = "publish" /\ closed' = closed
    BY <1>3, PublishTask DEF Publish
  <2> QED
    BY <2>1, <2>2, ClosingReplaced
<1>4. ASSUME NEW c \in Conns, Send(c) PROVE Closing(k)'
  <2>1. PICK ops \in Seq(Ops) : Replaced(c, ops)
    BY <1>4, SendTask
  <2>2. task[c] # <<>> /\ Head(task[c]).op = "send" /\ closed' = closed
    BY <1>4, SendTask DEF Send
  <2> QED
    BY <2>1, <2>2, ClosingReplaced
<1>5. ASSUME NEW c \in Conns, NEW s \in Subs, Enqueue(c, s) PROVE Closing(k)'
  <2>0. PICK rest, slow : /\ rest = [Head(task[c]) EXCEPT !.to = Head(task[c]).to \ {s}]
                          /\ slow = [op |-> "slow", sub |-> s]
    OBVIOUS
  <2>1. /\ rest \in Ops /\ slow \in Ops
        /\ \/ Replaced(c, <<>>) \/ Replaced(c, <<slow>>)
           \/ Replaced(c, <<rest>>) \/ Replaced(c, <<slow, rest>>)
    BY <1>5, <2>0, EnqueueTask
  <2>2. PICK ops \in Seq(Ops) : Replaced(c, ops)
    <3>1. /\ <<>> \in Seq(Ops) /\ <<rest>> \in Seq(Ops) /\ <<slow>> \in Seq(Ops)
          /\ <<slow, rest>> \in Seq(Ops)
      BY <2>1
    <3> QED
      BY <2>1, <3>1
  <2>3. task[c] # <<>> /\ Head(task[c]).op = "enqueue" /\ closed' = closed
    BY <1>5 DEF Enqueue
  <2> QED
    BY <2>2, <2>3, ClosingReplaced
<1>6. ASSUME NEW c \in Conns, DisconnectSlow(c) PROVE Closing(k)'
  <2>1. PICK ops \in Seq(Ops) : Replaced(c, ops)
    BY <1>6, DisconnectSlowTask
  <2>2. task[c] # <<>> /\ Head(task[c]).op = "slow" /\ closed' = closed
    BY <1>6, DisconnectSlowTask DEF DisconnectSlow
  <2> QED
    BY <2>1, <2>2, ClosingReplaced
<1>7. ASSUME NEW c \in Conns,
             Unsubscribe(c) \/ EnqueueNone(c) \/ CloseConn(c) \/ Write(c) \/ FlushFirst(c)
      PROVE  Closing(k)'
  <2>1. task[c] # <<>> /\ Replaced(c, <<>>) /\ <<>> \in Seq(Ops)
    BY <1>7, PlainTask
  <2>2. closed \subseteq closed' /\ (Head(task[c]).op = "close" => Head(task[c]).conn \in closed')
    BY <1>7 DEF Unsubscribe, EnqueueNone, CloseConn, Write, FlushFirst, Doing
  <2> QED
    BY <2>1, <2>2, ClosingReplaced
<1>8. ASSUME NEW c \in Conns, Leave(c) PROVE Closing(k)'
  <2>1. closed' = closed /\ \A d \in Conns : Todo(d) \subseteq Todo(d)'
    BY <1>8 DEF Leave, Todo, TypeInv
  <2> QED
    BY <2>1, ClosingSame
<1>9. CASE UNCHANGED <<task, closed>>
  BY <1>9 DEF Closing
<1>10. ASSUME NEW c \in Conns, Flush(c) PROVE Closing(k)'
  BY <1>9, <1>10 DEF Flush
<1>11. ASSUME NEW s \in Subs, Pump(s) \/ PumpDone(s) PROVE Closing(k)'
  BY <1>9, <1>11 DEF Pump, PumpDone
<1>12. CASE UNCHANGED vars
  BY <1>9, <1>12 DEF vars
<1> QED
  BY <1>1, <1>2, <1>3, <1>4, <1>5, <1>6, <1>7, <1>8, <1>10, <1>11, <1>12 DEF Next, Step

\* A step of c replaces its first operation; whoever it takes out is c's or is closed.
LEMMA AcksReplaced ==
    ASSUME TypeInv, AcksFirst, NEW c \in Conns, task[c] # <<>>, NEW ops \in Seq(Ops),
           Replaced(c, ops), \A k \in Conns : Closing(k) => Closing(k)',
           \A s \in Subs : s \in done' => s \in done \/ s[1] = c \/ Closing(s[1])',
           \A i \in DOMAIN ops : Acks(ops[i]) => i = 1 /\ OwnSub(c, ops[i])'
    PROVE  AcksFirst'
<1>1. ASSUME NEW d \in Conns, NEW j \in DOMAIN task'[d], Acks(task'[d][j])
      PROVE  j = 1 /\ OwnSub(d, task[d][j])'
  <2>1. CASE d = c
    <3>1. Len(ops) \in Nat /\ DOMAIN ops = 1..Len(ops) /\ task'[c] \in Seq(Ops)
      BY DEF Replaced
    <3>2. j \in Nat /\ j >= 1
      BY <1>1, <2>1, <3>1
    <3>3. CASE j <= Len(ops)
      <4>1. j \in DOMAIN ops /\ task'[c][j] = ops[j]
        BY <3>1, <3>2, <3>3 DEF Replaced
      <4>2. Acks(ops[j])
        BY <1>1, <2>1, <4>1
      <4> QED
        BY <2>1, <4>1, <4>2 DEF OwnSub
    <3>4. CASE j > Len(ops)
      <4>1. PICK i \in DOMAIN task[c] : i # 1 /\ task'[c][j] = task[c][i]
        BY <1>1, <2>1, <3>4 DEF Replaced
      <4> QED
        BY <1>1, <2>1, <4>1 DEF AcksFirst
    <3> QED
      BY <3>1, <3>2, <3>3, <3>4
  <2>2. CASE d # c
    <3>1. task'[d] = task[d]
      BY <2>2 DEF Replaced
    <3>2. j = 1 /\ OwnSub(d, task[d][j])
      BY <1>1, <3>1 DEF AcksFirst
    <3>3. task[d][j].to \subseteq Subs
      <4>1. task[d][j] \in Ops /\ task[d][j].op = "enqueue"
        BY <1>1, <3>1 DEF TypeInv, Acks
      <4> QED
        BY <4>1, OpType
    <3> QED
      BY <2>2, <3>1, <3>2, <3>3 DEF OwnSub
  <2> QED
    BY <2>1, <2>2
<1> QED
  BY <1>1 DEF AcksFirst, Acks, OwnSub

LEMMA AcksOne ==
    ASSUME TypeInv, AcksFirst, NEW c \in Conns, task[c] # <<>>, NEW op, <<op>> \in Seq(Ops),
           Replaced(c, <<op>>), \A k \in Conns : Closing(k) => Closing(k)',
           \A s \in Subs : s \in done' => s \in done \/ s[1] = c \/ Closing(s[1])',
           Acks(op) => OwnSub(c, op)'
    PROVE  AcksFirst'
<1>1. DOMAIN <<op>> = {1} /\ <<op>>[1] = op
  OBVIOUS
<1>2. \A i \in DOMAIN <<op>> : Acks(<<op>>[i]) => i = 1 /\ OwnSub(c, <<op>>[i])'
  BY <1>1 DEF OwnSub
<1> QED
  BY <1>2, AcksReplaced

LEMMA AcksNone ==
    ASSUME TypeInv, AcksFirst, NEW c \in Conns, task[c] # <<>>,
           Replaced(c, <<>>), \A k \in Conns : Closing(k) => Closing(k)',
           \A s \in Subs : s \in done' => s \in done \/ s[1] = c \/ Closing(s[1])'
    PROVE  AcksFirst'
<1>1. <<>> \in Seq(Ops) /\ DOMAIN <<>> = {}
  OBVIOUS
<1> QED
  BY <1>1, AcksReplaced

\* What has become of the queues when nothing is put into one.
LEMMA AckKept ==
    ASSUME TypeInv, AckInv, \A k \in Conns : Closing(k) => Closing(k)',
           \A s \in Subs : queue'[s] = queue[s] \/ queue'[s] = <<>>,
           \A s \in ended' : s \in ended \/ (s \in Subs /\ queue'[s] = <<>>)
    PROVE  HubAckArrives'
<1>1. ASSUME NEW s \in Subs, s \in ended', ~Closing(s[1])', NEW i \in DOMAIN queue'[s]
      PROVE  queue'[s][i].kind # "reply"
  <2>1. queue'[s] = queue[s] /\ s \in ended
    BY <1>1
  <2>2. ~Closing(s[1])
    BY <1>1, SubPairs
  <2> QED
    BY <1>1, <2>1, <2>2 DEF AckInv, HubAckArrives
<1> QED
  BY <1>1 DEF HubAckArrives

LEMMA EndedKept ==
    ASSUME EndedIsOut, done \subseteq done', closed \subseteq closed', UNCHANGED ended
    PROVE  EndedIsOut'
BY DEF EndedIsOut

LEMMA ReceiveAck ==
    ASSUME TypeInv, AckInv, NEW c \in Conns, NEW cmd \in Commands, Receive(c, cmd),
           \A k \in Conns : Closing(k) => Closing(k)'
    PROVE  AckInv'
<1>1. UNCHANGED <<queue, ended, done, closed>>
  BY DEF Receive, hub
<1>2. PICK f \in Frames : Commanded(c, cmd, f)
  BY CommandTask
<1>3. \A i \in DOMAIN task'[c] : task'[c][i] \in {cmd, FlushOp, SendOf(f), WriteOf(f)}
  BY <1>2 DEF Commanded
<1>4. /\ cmd.op # "enqueue" /\ FlushOp.op # "enqueue"
      /\ SendOf(f).op # "enqueue" /\ WriteOf(f).op # "enqueue"
  BY DEF Commands, FlushOp, SendOf, WriteOf
<1>5. \A i \in DOMAIN task'[c] : ~Acks(task'[c][i])
  BY <1>3, <1>4 DEF Acks
<1>6. \A d \in Conns : d # c => task'[d] = task[d]
  BY CommandTask
<1>7. AcksFirst'
  <2> SUFFICES ASSUME NEW d \in Conns, NEW i \in DOMAIN task'[d], Acks(task'[d][i])
               PROVE  i = 1 /\ OwnSub(d, task[d][i])'
    BY DEF AcksFirst, Acks, OwnSub
  <2>1. d # c /\ task'[d] = task[d]
    BY <1>5, <1>6
  <2>2. i = 1 /\ OwnSub(d, task[d][i])
    BY <2>1 DEF AckInv, AcksFirst
  <2>3. Closing(d) => Closing(d)'
    OBVIOUS
  <2> QED
    BY <1>1, <2>1, <2>2, <2>3 DEF OwnSub
<1> QED
  BY <1>1, <1>7, AckKept, EndedKept DEF AckInv
\* Send and Subscribe put the reply to their own Subscriber, which the hub has.
LEMMA SubscribeAck ==
    ASSUME TypeInv, MapsInv, AckInv, NEW c \in Conns, Subscribe(c),
           \A k \in Conns : Closing(k) => Closing(k)'
    PROVE  AckInv'
<1>1. PICK s \in Subs :
         /\ s[1] = c /\ s[2] = IF Exists(c) THEN sub[c] ELSE made[c] + 1
         /\ Exists(c) => s = Of(c)
         /\ LET op == [op |-> "enqueue", to |-> {s}, frame |-> Reply(c)]
            IN  <<op>> \in Seq(Ops) /\ Replaced(c, <<op>>)
  BY SubscribeTask
<1>2. PICK op : op = [op |-> "enqueue", to |-> {s}, frame |-> Reply(c)]
  OBVIOUS
<1>3. /\ task[c] # <<>> /\ UNCHANGED <<queue, done, ended, closed>>
      /\ <<op>> \in Seq(Ops) /\ Replaced(c, <<op>>)
  BY <1>1, <1>2, SubscribeTask DEF Subscribe
<1>4. s \notin done
  <2>1. CASE Exists(c)
    BY <1>1, <2>1, SubTypes DEF MapsInv, MapsAgree
  <2>2. CASE ~Exists(c)
    <3>1. made[c] \in Nat /\ ~(made[c] + 1 <= made[c])
      <4>1. MaxSubs \in Nat /\ made[c] \in 0..MaxSubs
        BY DEF TypeInv, Bounds
      <4> QED
        BY <4>1
    <3> QED
      BY <1>1, <2>2, <3>1 DEF MapsInv, Unmade, Made
  <2> QED
    BY <2>1, <2>2
<1>5. AcksFirst'
  <2>1. OwnSub(c, op)'
    BY <1>1, <1>2, <1>3, <1>4 DEF OwnSub
  <2> QED
    BY <1>3, <2>1, AcksOne DEF AckInv
<1> QED
  BY <1>3, <1>5, AckKept, EndedKept DEF AckInv

LEMMA SendAck ==
    ASSUME TypeInv, MapsInv, AckInv, NEW c \in Conns, Send(c),
           \A k \in Conns : Closing(k) => Closing(k)'
    PROVE  AckInv'
<1>1. PICK op : op = [op |-> "enqueue", to |-> {Of(c)}, frame |-> Head(task[c]).frame]
  OBVIOUS
<1>2. /\ task[c] # <<>> /\ UNCHANGED <<queue, done, ended, closed>>
      /\ Replaced(c, <<>>) \/ (Exists(c) /\ <<op>> \in Seq(Ops) /\ Replaced(c, <<op>>))
  BY <1>1, SendTask DEF Send, hub
<1>3. AcksFirst'
  <2>1. CASE Replaced(c, <<>>)
    BY <1>2, <2>1, AcksNone DEF AckInv
  <2>2. CASE Exists(c) /\ <<op>> \in Seq(Ops) /\ Replaced(c, <<op>>)
    <3>1. Of(c)[1] = c /\ Of(c) \notin done
      BY <2>2, SubTypes DEF MapsInv, MapsAgree
    <3>2. OwnSub(c, op)'
      BY <1>1, <1>2, <3>1 DEF OwnSub
    <3> QED
      BY <1>2, <2>2, <3>2, AcksOne DEF AckInv
  <2> QED
    BY <1>2, <2>1, <2>2
<1> QED
  BY <1>2, <1>3, AckKept, EndedKept DEF AckInv

LEMMA PublishAck ==
    ASSUME TypeInv, AckInv, NEW c \in Conns, Publish(c),
           \A k \in Conns : Closing(k) => Closing(k)'
    PROVE  AckInv'
<1>1. PICK op : op = [op |-> "enqueue", to |-> members[Head(task[c]).channel], frame |-> Message(c)]
  OBVIOUS
<1>2. /\ task[c] # <<>> /\ UNCHANGED <<queue, done, ended, closed>>
      /\ <<op>> \in Seq(Ops) /\ Replaced(c, <<op>>)
  BY <1>1, PublishTask DEF Publish, hub
<1>3. ~Acks(op)
  BY <1>1, FrameTypes DEF Acks
<1>4. AcksFirst'
  BY <1>2, <1>3, AcksOne DEF AckInv
<1> QED
  BY <1>2, <1>4, AckKept, EndedKept DEF AckInv

\* A reply gets into the queue of a Subscriber whose writePump has ended only if the
\* connection is being closed.
LEMMA EnqueueAck ==
    ASSUME TypeInv, AckInv, NEW c \in Conns, NEW s \in Subs, Enqueue(c, s),
           \A k \in Conns : Closing(k) => Closing(k)'
    PROVE  AckInv'
<1>1. PICK rest, slow : /\ rest = [Head(task[c]) EXCEPT !.to = Head(task[c]).to \ {s}]
                        /\ slow = [op |-> "slow", sub |-> s]
  OBVIOUS
<1>2. /\ task[c] # <<>> /\ Head(task[c]).op = "enqueue" /\ s \in Head(task[c]).to
      /\ Head(task[c]).frame \in Frames
      /\ rest \in Ops /\ slow \in Ops
      /\ rest.op = "enqueue" /\ rest.to = Head(task[c]).to \ {s}
      /\ rest.frame = Head(task[c]).frame
      /\ \/ queue' = queue /\ Replaced(c, <<slow>>)
         \/ queue' = queue /\ Replaced(c, <<slow, rest>>) /\ rest.to # {}
         \/ /\ queue' = [queue EXCEPT ![s] = Append(queue[s], Head(task[c]).frame)]
            /\ Replaced(c, <<>>) \/ (Replaced(c, <<rest>>) /\ rest.to # {})
      /\ UNCHANGED <<done, ended, closed>>
  BY <1>1, EnqueueTask DEF Enqueue, hub
<1>3. Acks(Head(task[c])) => s[1] = c /\ rest.to = {} /\ (s \in done => Closing(c))
  BY <1>2, FirstOp DEF AckInv, AcksFirst, OwnSub
<1>4. Acks(rest) => Acks(Head(task[c]))
  BY <1>2 DEF Acks
<1>5. AcksFirst'
  <2>1. CASE Replaced(c, <<>>)
    BY <1>2, <2>1, AcksNone DEF AckInv
  <2>2. CASE Replaced(c, <<slow>>)
    <3>1. ~Acks(slow) /\ <<slow>> \in Seq(Ops)
      BY <1>1, <1>2 DEF Acks
    <3> QED
      BY <1>2, <2>2, <3>1, AcksOne DEF AckInv
  <2>3. CASE Replaced(c, <<rest>>) /\ rest.to # {}
    <3>1. ~Acks(rest) /\ <<rest>> \in Seq(Ops)
      BY <1>2, <1>3, <1>4, <2>3
    <3> QED
      BY <1>2, <2>3, <3>1, AcksOne DEF AckInv
  <2>4. CASE Replaced(c, <<slow, rest>>) /\ rest.to # {}
    <3>1. ~Acks(rest) /\ ~Acks(slow) /\ <<slow, rest>> \in Seq(Ops)
      BY <1>1, <1>2, <1>3, <1>4, <2>4 DEF Acks
    <3>2. \A i \in DOMAIN <<slow, rest>> : ~Acks(<<slow, rest>>[i])
      <4>1. \A i \in DOMAIN <<slow, rest>> : <<slow, rest>>[i] \in {slow, rest}
        OBVIOUS
      <4> QED
        BY <3>1, <4>1
    <3> QED
      BY <1>2, <2>4, <3>1, <3>2, AcksReplaced DEF AckInv
  <2> QED
    BY <1>2, <2>1, <2>2, <2>3, <2>4
<1>6. CASE queue' = queue
  BY <1>2, <1>5, <1>6, AckKept, EndedKept DEF AckInv
<1>7. CASE queue' = [queue EXCEPT ![s] = Append(queue[s], Head(task[c]).frame)]
  <2>1. ASSUME NEW t \in Subs, t \in ended', ~Closing(t[1])', NEW i \in DOMAIN queue'[t]
        PROVE  queue'[t][i].kind # "reply"
    <3>1. t \in ended /\ ~Closing(t[1]) /\ t[1] \in Conns
      BY <1>2, <2>1, SubPairs
    <3>2. t[1] \notin closed /\ t \in done
      BY <3>1 DEF AckInv, EndedIsOut, Closing
    <3>3. \A j \in DOMAIN queue[t] : queue[t][j].kind # "reply"
      BY <3>1 DEF AckInv, HubAckArrives
    <3>4. CASE t # s
      <4>1. queue'[t] = queue[t]
        BY <1>7, <3>4 DEF TypeInv
      <4> QED
        BY <2>1, <3>3, <4>1
    <3>5. CASE t = s
      <4>1. ~Acks(Head(task[c]))
        BY <1>3, <3>1, <3>2, <3>5
      <4>2. Head(task[c]).frame.kind # "reply"
        BY <1>2, <4>1 DEF Acks
      <4>3. queue[s] \in Seq(Frames) /\ queue'[s] = Append(queue[s], Head(task[c]).frame)
        BY <1>7 DEF TypeInv
      <4>4. \A j \in DOMAIN queue'[s] : j \in DOMAIN queue[s] \/ j = Len(queue[s]) + 1
        BY <1>2, <4>3
      <4>5. /\ \A j \in DOMAIN queue[s] : queue'[s][j] = queue[s][j]
            /\ queue'[s][Len(queue[s]) + 1] = Head(task[c]).frame
        BY <1>2, <4>3
      <4> QED
        BY <2>1, <3>3, <3>5, <4>2, <4>4, <4>5
    <3> QED
      BY <3>4, <3>5
  <2> QED
    BY <1>2, <1>5, <2>1, EndedKept DEF AckInv, HubAckArrives
<1> QED
  BY <1>2, <1>6, <1>7
\* Operations that take a Subscriber out: their own connection's, or one that they close.
LEMMA TakenAck ==
    ASSUME TypeInv, AckInv, NEW c \in Conns, task[c] # <<>>, UNCHANGED <<queue, ended>>,
           Replaced(c, <<>>) \/ \E op : <<op>> \in Seq(Ops) /\ Replaced(c, <<op>>) /\ op.op # "enqueue",
           done \subseteq done', closed \subseteq closed',
           \A s \in Subs : s \in done' => s \in done \/ s[1] = c \/ Closing(s[1])',
           \A k \in Conns : Closing(k) => Closing(k)'
    PROVE  AckInv'
<1>1. AcksFirst'
  <2>1. CASE Replaced(c, <<>>)
    BY <2>1, AcksNone DEF AckInv
  <2>2. CASE \E op : <<op>> \in Seq(Ops) /\ Replaced(c, <<op>>) /\ op.op # "enqueue"
    <3>1. PICK op : <<op>> \in Seq(Ops) /\ Replaced(c, <<op>>) /\ op.op # "enqueue"
      BY <2>2
    <3> QED
      BY <3>1, AcksOne DEF AckInv, Acks
  <2> QED
    BY <2>1, <2>2
<1> QED
  BY <1>1, AckKept, EndedKept DEF AckInv

LEMMA UnsubscribeAck ==
    ASSUME TypeInv, AckInv, NEW c \in Conns, Unsubscribe(c),
           \A k \in Conns : Closing(k) => Closing(k)'
    PROVE  AckInv'
<1>1. done' = done \/ (Exists(c) /\ done' = done \cup {Of(c)})
  BY DEF Unsubscribe, CloseSub
<1>2. \A s \in Subs : s \in done' => s \in done \/ s[1] = c
  BY <1>1, SubTypes
<1>3. task[c] # <<>> /\ Replaced(c, <<>>) /\ UNCHANGED <<queue, ended, closed>>
  BY PlainTask DEF Unsubscribe
<1> QED
  BY <1>1, <1>2, <1>3, TakenAck

LEMMA DisconnectSlowAck ==
    ASSUME TypeInv, AckInv, NEW c \in Conns, DisconnectSlow(c),
           \A k \in Conns : Closing(k) => Closing(k)'
    PROVE  AckInv'
<1>1. PICK s, op : s = Head(task[c]).sub /\ op = [op |-> "close", conn |-> s[1]]
  OBVIOUS
<1>2. /\ task[c] # <<>> /\ s \in Subs /\ s[1] \in Conns /\ UNCHANGED <<queue, ended, closed>>
      /\ \/ ~Exists(s[1]) /\ Replaced(c, <<>>)
         \/ Exists(s[1]) /\ <<op>> \in Seq(Ops) /\ Replaced(c, <<op>>)
  BY <1>1, DisconnectSlowTask DEF DisconnectSlow
<1>3. CASE ~Exists(s[1])
  <2>1. done' = done /\ Replaced(c, <<>>)
    BY <1>1, <1>2, <1>3 DEF DisconnectSlow
  <2> QED
    BY <1>2, <2>1, TakenAck
<1>4. CASE Exists(s[1])
  <2>1. done' = done \cup {s} /\ <<op>> \in Seq(Ops) /\ Replaced(c, <<op>>)
    BY <1>1, <1>2, <1>4 DEF DisconnectSlow
  <2>2. Closing(s[1])'
    <3>1. op \in Todo(c)'
      <4>1. 1 \in DOMAIN <<op>> /\ <<op>>[1] = op
        OBVIOUS
      <4> QED
        BY <2>1, <4>1 DEF Replaced, Todo
    <3> QED
      BY <1>1, <1>2, <3>1, ClosingIs
  <2>3. op.op # "enqueue"
    BY <1>1
  <2>4. \E o : <<o>> \in Seq(Ops) /\ Replaced(c, <<o>>) /\ o.op # "enqueue"
    BY <2>1, <2>3
  <2>5. \A t \in Subs : t \in done' => t \in done \/ t[1] = c \/ Closing(t[1])'
    BY <2>1, <2>2 DEF Closing
  <2> QED
    BY <1>2, <2>1, <2>4, <2>5, TakenAck
<1> QED
  BY <1>3, <1>4

LEMMA CloseConnAck ==
    ASSUME TypeInv, AckInv, NEW c \in Conns, CloseConn(c),
           \A k \in Conns : Closing(k) => Closing(k)'
    PROVE  AckInv'
<1>1. PICK k : k = Head(task[c]).conn
  OBVIOUS
<1>2. task[c] # <<>> /\ Replaced(c, <<>>) /\ k \in Conns /\ UNCHANGED <<queue, ended>>
  BY <1>1, PlainTask, OpType DEF CloseConn, Doing
<1>3. /\ closed \subseteq closed'
      /\ done' = done \/ (Exists(k) /\ k \in closed' /\ done' = done \cup {Of(k)})
  BY <1>1 DEF CloseConn, RemoveConn, CloseSub
<1>4. \A s \in Subs : s \in done' => s \in done \/ s[1] = c \/ Closing(s[1])'
  BY <1>2, <1>3, SubTypes DEF Closing
<1> QED
  BY <1>2, <1>3, <1>4, TakenAck

LEMMA AckStep ==
    ASSUME TypeInv, MapsInv, AckInv, [Next]_vars
    PROVE  AckInv'
<1>0. \A k \in Conns : Closing(k) => Closing(k)'
  BY ClosingKept
<1>1. ASSUME NEW c \in Conns, EnqueueNone(c) \/ Write(c) \/ FlushFirst(c) PROVE AckInv'
  <2>1. task[c] # <<>> /\ Replaced(c, <<>>) /\ UNCHANGED <<queue, ended, done, closed>>
    BY <1>1, PlainTask DEF EnqueueNone, Write, FlushFirst, hub
  <2> QED
    BY <1>0, <2>1, TakenAck
<1>2. ASSUME NEW c \in Conns, Leave(c) PROVE AckInv'
  <2>1. UNCHANGED <<queue, ended, done, closed>>
    BY <1>2 DEF Leave, hub
  <2>2. AcksFirst'
    <3>1. \A d \in Conns : d # c => task'[d] = task[d]
      BY <1>2 DEF Leave, TypeInv
    <3>2. \A i \in DOMAIN task'[c] : ~Acks(task'[c][i])
      BY <1>2 DEF Leave, TypeInv, Acks
    <3> SUFFICES ASSUME NEW d \in Conns, NEW i \in DOMAIN task'[d], Acks(task'[d][i])
                 PROVE  i = 1 /\ OwnSub(d, task[d][i])'
      BY DEF AcksFirst, Acks, OwnSub
    <3>3. task'[d] = task[d] /\ i = 1 /\ OwnSub(d, task[d][i])
      BY <3>1, <3>2 DEF AckInv, AcksFirst
    <3> QED
      BY <1>0, <2>1, <3>3 DEF OwnSub
  <2> QED
    BY <1>0, <2>1, <2>2, AckKept, EndedKept DEF AckInv
<1>3. CASE UNCHANGED <<task, done, closed>> /\ EndedIsOut' /\ HubAckArrives'
  <2>1. \A d \in Conns : Closing(d)' <=> Closing(d)
    BY <1>3 DEF Closing
  <2>2. AcksFirst'
    BY <1>3, <2>1 DEF AckInv, AcksFirst, OwnSub, Acks
  <2> QED
    BY <1>3, <2>2 DEF AckInv
<1>4. CASE UNCHANGED <<task, done, closed, queue, ended>>
  BY <1>0, <1>3, <1>4, AckKept, EndedKept DEF AckInv
<1>5. ASSUME NEW c \in Conns, Flush(c) PROVE AckInv'
  BY <1>4, <1>5 DEF Flush, hub
<1>6. ASSUME NEW s \in Subs, Pump(s) \/ PumpDone(s) PROVE AckInv'
  <2>1. /\ UNCHANGED <<task, done, closed>> /\ queue' = [queue EXCEPT ![s] = <<>>]
        /\ ended' = ended \/ (ended' = ended \cup {s} /\ (s \in done \/ s[1] \in closed))
    BY <1>6 DEF Pump, PumpDone, DrainOnDone, Drained, hub
  <2>2. EndedIsOut'
    BY <2>1 DEF AckInv, EndedIsOut
  <2>3. HubAckArrives'
    <3>1. queue'[s] = <<>> /\ \A t \in Subs : queue'[t] = queue[t] \/ queue'[t] = <<>>
      BY <2>1 DEF TypeInv
    <3>2. \A t \in ended' : t \in ended \/ (t \in Subs /\ queue'[t] = <<>>)
      BY <2>1, <3>1
    <3> QED
      BY <1>0, <3>1, <3>2, AckKept
  <2> QED
    BY <1>3, <2>1, <2>2, <2>3
<1>7. CASE UNCHANGED vars
  BY <1>4, <1>7 DEF vars, hub
<1> QED
  BY <1>0, <1>1, <1>2, <1>5, <1>6, <1>7, ReceiveAck, SubscribeAck, SendAck, PublishAck, EnqueueAck,
     UnsubscribeAck, DisconnectSlowAck, CloseConnAck DEF Next, Step
(***************************************************************************)
(* One reply for a command                                                 *)
(***************************************************************************)
\* What a step puts in the place of an operation yields no more than that did.
LEMMA OneReplyReplaced ==
    ASSUME TypeInv, OneReply, NEW c \in Conns, task[c] # <<>>, NEW ops \in Seq(Ops),
           Replaced(c, ops), UNCHANGED asked,
           \A i \in DOMAIN ops :
               /\ Yields(ops[i]) => Yields(Head(task[c]))
               /\ ops[i].op \in {"send", "write"} => ops[i].frame.kind = "reply"
               /\ ops[i].op \in {"send", "write"} \/ Acks(ops[i]) => ops[i].frame.n = asked[c],
           \A i \in DOMAIN ops : \A j \in DOMAIN ops : Yields(ops[i]) /\ Yields(ops[j]) => i = j
    PROVE  OneReply' /\ \A d \in Conns : Owes(d)' => Owes(d)
<1>1. \A d \in Conns : d # c => task'[d] = task[d]
  BY DEF Replaced
<1>2. Head(task[c]) = task[c][1] /\ 1 \in DOMAIN task[c] /\ Head(task[c]) \in Todo(c)
  BY FirstOp
<1>3. /\ Len(ops) \in Nat /\ DOMAIN ops = 1..Len(ops)
      /\ task'[c] \in Seq(Ops) /\ DOMAIN task'[c] \subseteq Nat \ {0} /\ DOMAIN task[c] \subseteq Nat
  BY DEF Replaced, TypeInv
<1>4. ASSUME NEW j \in DOMAIN task'[c]
      PROVE  \/ j \in DOMAIN ops /\ task'[c][j] = ops[j]
             \/ /\ j - Len(ops) + 1 \in DOMAIN task[c] \ {1}
                /\ task'[c][j] = task[c][j - Len(ops) + 1]
  <2>1. j \in DOMAIN ops \/ j > Len(ops)
    BY <1>3
  <2> QED
    BY <2>1 DEF Replaced
<1>5. ASSUME NEW j \in DOMAIN task'[c]
      PROVE  /\ task'[c][j].op \in {"send", "write"} => task'[c][j].frame.kind = "reply"
             /\ task'[c][j].op \in {"send", "write"} \/ Acks(task'[c][j]) => task'[c][j].frame.n = asked[c]
  BY <1>4 DEF OneReply
<1>6. ASSUME NEW i \in DOMAIN task'[c], NEW j \in DOMAIN task'[c],
             Yields(task'[c][i]), Yields(task'[c][j])
      PROVE  i = j
  <2>1. PICK k \in DOMAIN task[c] : Yields(task[c][k])
    BY <1>2, <1>4, <1>6
  <2>2. \A m \in DOMAIN task[c] : Yields(task[c][m]) => m = k
    BY <2>1 DEF OneReply
  <2>3. CASE k = 1
    BY <1>4, <1>6, <2>2, <2>3
  <2>4. CASE k # 1
    <3>1. i - Len(ops) + 1 = k /\ j - Len(ops) + 1 = k
      BY <1>2, <1>4, <1>6, <2>2, <2>4
    <3> QED
      BY <1>3, <3>1
  <2> QED
    BY <2>3, <2>4
<1>7. Owes(c)' => Owes(c)
  <2> SUFFICES ASSUME NEW op \in Todo(c)', Yields(op) PROVE Owes(c)
    BY DEF Owes, Yields, Acks
  <2>1. PICK j \in DOMAIN task'[c] : op = task'[c][j]
    BY DEF Todo
  <2> QED
    BY <1>2, <1>4, <2>1 DEF Owes, Todo
<1>8. OneReply'
  <2> SUFFICES ASSUME NEW d \in Conns, NEW i \in DOMAIN task'[d]
               PROVE  /\ task'[d][i].op \in {"send", "write"} => task'[d][i].frame.kind = "reply"
                      /\ task'[d][i].op \in {"send", "write"} \/ Acks(task'[d][i])
                            => task'[d][i].frame.n = asked[d]
                      /\ \A j \in DOMAIN task'[d] :
                            Yields(task'[d][i]) /\ Yields(task'[d][j]) => i = j
    BY DEF OneReply, Yields, Acks
  <2>1. CASE d = c
    BY <1>5, <1>6, <2>1
  <2>2. CASE d # c
    BY <1>1, <2>2 DEF OneReply
  <2> QED
    BY <2>1, <2>2
<1>9. \A d \in Conns : Owes(d)' => Owes(d)
  BY <1>1, <1>7 DEF Owes, Yields, Acks, Todo
<1> QED
  BY <1>8, <1>9

LEMMA OneReplyOne ==
    ASSUME TypeInv, OneReply, NEW c \in Conns, task[c] # <<>>, NEW op, <<op>> \in Seq(Ops),
           Replaced(c, <<op>>), UNCHANGED asked,
           Yields(op) => Yields(Head(task[c])) /\ Acks(op) /\ op.frame.n = asked[c]
    PROVE  OneReply' /\ \A d \in Conns : Owes(d)' => Owes(d)
<1>1. DOMAIN <<op>> = {1} /\ <<op>>[1] = op
  OBVIOUS
<1>2. op.op \in {"send", "write"} \/ Acks(op) => Yields(op)
  BY DEF Yields
<1>3. op.op \in {"send", "write"} => ~Acks(op)
  BY DEF Acks
<1> QED
  BY <1>1, <1>2, <1>3, OneReplyReplaced

LEMMA OneReplyNone ==
    ASSUME TypeInv, OneReply, NEW c \in Conns, task[c] # <<>>, Replaced(c, <<>>), UNCHANGED asked
    PROVE  /\ OneReply' /\ \A d \in Conns : Owes(d)' => Owes(d)
           /\ Yields(Head(task[c])) => ~Owes(c)'
<1>1. <<>> \in Seq(Ops) /\ DOMAIN <<>> = {} /\ Len(<<>>) = 0
  OBVIOUS
<1>2. OneReply' /\ \A d \in Conns : Owes(d)' => Owes(d)
  BY <1>1, OneReplyReplaced
<1>3. ASSUME Yields(Head(task[c])), Owes(c)' PROVE FALSE
  <2>1. PICK op \in Todo(c)' : Yields(op)
    BY <1>3 DEF Owes, Yields, Acks
  <2>2. Todo(c)' = {<<>>[i] : i \in DOMAIN <<>>} \cup {task[c][i] : i \in DOMAIN task[c] \ {1}}
    BY <1>1, ReplacedTodo
  <2>3. PICK i \in DOMAIN task[c] \ {1} : op = task[c][i]
    BY <1>1, <2>1, <2>2
  <2>4. Yields(task[c][1]) /\ 1 \in DOMAIN task[c] /\ i \in DOMAIN task[c] /\ i # 1
    BY <1>3, FirstOp
  <2> QED
    BY <2>1, <2>3, <2>4 DEF OneReply
<1> QED
  BY <1>2, <1>3
LEMMA ReceiveOneReply ==
    ASSUME TypeInv, OneReply, NEW c \in Conns, NEW cmd \in Commands, Receive(c, cmd)
    PROVE  OneReply'
<1>1. PICK f \in Frames : f.kind = "reply" /\ f.n = asked'[c] /\ Commanded(c, cmd, f)
  BY CommandTask
<1>2. /\ asked' = [asked EXCEPT ![c] = asked[c] + 1]
      /\ \A d \in Conns : d # c => task'[d] = task[d]
  BY CommandTask
<1>3. \A op \in {cmd, FlushOp} : op.op \notin {"send", "write", "enqueue"}
  BY DEF Commands, FlushOp
<1>4. \A op \in {SendOf(f), WriteOf(f)} : op.op \in {"send", "write"} /\ op.frame = f
  BY DEF SendOf, WriteOf
<1>5. \A i \in DOMAIN task'[c] : task'[c][i] \in {cmd, FlushOp, SendOf(f), WriteOf(f)}
  BY <1>1 DEF Commanded
<1>6. ASSUME NEW i \in DOMAIN task'[c]
      PROVE  /\ task'[c][i].op \in {"send", "write"} => task'[c][i].frame = f
             /\ ~Acks(task'[c][i])
  <2>1. CASE task'[c][i] \in {cmd, FlushOp}
    BY <1>3, <2>1 DEF Acks
  <2>2. CASE task'[c][i] \in {SendOf(f), WriteOf(f)}
    BY <1>4, <2>2 DEF Acks
  <2> QED
    BY <1>5, <2>1, <2>2
<1>7. ASSUME NEW i \in DOMAIN task'[c], NEW j \in DOMAIN task'[c],
             Yields(task'[c][i]), Yields(task'[c][j])
      PROVE  i = j
  <2>1. ~Yields(FlushOp)
    BY DEF Yields, FlushOp, Acks
  <2>2. cmd.op \in {"unsubscribe", "publish"} => ~Yields(cmd)
    BY DEF Yields, Acks
  <2> QED
    BY <1>1, <1>7, <2>1, <2>2 DEF Commanded
<1>8. SUFFICES ASSUME NEW d \in Conns, NEW i \in DOMAIN task'[d]
               PROVE  /\ task'[d][i].op \in {"send", "write"} => task'[d][i].frame.kind = "reply"
                      /\ task'[d][i].op \in {"send", "write"} \/ Acks(task'[d][i])
                            => task'[d][i].frame.n = asked'[d]
                      /\ \A j \in DOMAIN task'[d] :
                            Yields(task'[d][i]) /\ Yields(task'[d][j]) => i = j
  BY DEF OneReply, Yields, Acks
<1>9. CASE d = c
  BY <1>1, <1>6, <1>7, <1>9
<1>10. CASE d # c
  <2>1. asked'[d] = asked[d] /\ task'[d] = task[d]
    BY <1>2, <1>10 DEF TypeInv
  <2> QED
    BY <2>1 DEF OneReply
<1> QED
  BY <1>9, <1>10

\* A command that has been received is owed a reply.
LEMMA ReceiveOwes ==
    ASSUME TypeInv, NEW c \in Conns, NEW cmd \in Commands, Receive(c, cmd)
    PROVE  ~Owes(c) /\ Owes(c)'
<1>1. PICK f \in Frames : Commanded(c, cmd, f)
  BY CommandTask
<1>2. \E i \in DOMAIN task'[c] : task'[c][i].op \in {"subscribe", "send", "write"}
  <2>1. /\ SendOf(f).op = "send" /\ WriteOf(f).op = "write"
    BY DEF SendOf, WriteOf
  <2>2. CASE task'[c] = <<cmd>> /\ cmd.op = "subscribe"
    BY <2>2
  <2>3. CASE task'[c] = <<FlushOp, cmd>> /\ cmd.op = "subscribe"
    <3>1. 2 \in DOMAIN task'[c] /\ task'[c][2] = cmd
      BY <2>3
    <3> QED
      BY <2>3, <3>1
  <2>4. CASE task'[c] = <<SendOf(f), cmd>> \/ task'[c] = <<SendOf(f)>> \/ task'[c] = <<WriteOf(f)>>
    <3>1. 1 \in DOMAIN task'[c] /\ task'[c][1] \in {SendOf(f), WriteOf(f)}
      BY <2>4
    <3> QED
      BY <2>1, <3>1
  <2>5. CASE task'[c] = <<cmd, SendOf(f)>> \/ task'[c] = <<cmd, WriteOf(f)>>
    <3>1. 2 \in DOMAIN task'[c] /\ task'[c][2] \in {SendOf(f), WriteOf(f)}
      BY <2>5
    <3> QED
      BY <2>1, <3>1
  <2> QED
    BY <1>1, <2>2, <2>3, <2>4, <2>5 DEF Commanded
<1>3. Owes(c)'
  BY <1>2 DEF Owes, Todo, Yields, Acks
<1>4. Todo(c) = {}
  BY CommandTask DEF Todo
<1> QED
  BY <1>3, <1>4 DEF Owes

\* Every other step leaves no more replies to yield than there were.
LEMMA OneReplyStep ==
    ASSUME TypeInv, OneReply, [Next]_vars,
           \A c \in Conns : \A cmd \in Commands : ~Receive(c, cmd)
    PROVE  OneReply' /\ UNCHANGED asked /\ \A d \in Conns : Owes(d)' => Owes(d)
<1> DEFINE Goal == OneReply' /\ asked' = asked /\ \A d \in Conns : Owes(d)' => Owes(d)
<1>1. ASSUME NEW c \in Conns, Subscribe(c) PROVE Goal
  <2>1. PICK s \in Subs : LET op == [op |-> "enqueue", to |-> {s}, frame |-> Reply(c)]
                          IN  <<op>> \in Seq(Ops) /\ Replaced(c, <<op>>)
    BY <1>1, SubscribeTask
  <2>2. PICK op : op = [op |-> "enqueue", to |-> {s}, frame |-> Reply(c)]
    OBVIOUS
  <2>3. /\ task[c] # <<>> /\ <<op>> \in Seq(Ops) /\ Replaced(c, <<op>>) /\ asked' = asked
        /\ Yields(Head(task[c]))
    BY <1>1, <2>1, <2>2, SubscribeTask DEF Subscribe, Yields
  <2>4. Acks(op) /\ op.frame.n = asked[c]
    BY <2>2, FrameTypes DEF Acks
  <2> QED
    BY <2>3, <2>4, OneReplyOne
<1>2. ASSUME NEW c \in Conns, Publish(c) PROVE Goal
  <2>1. PICK op : op = [op |-> "enqueue", to |-> members[Head(task[c]).channel], frame |-> Message(c)]
    OBVIOUS
  <2>2. /\ task[c] # <<>> /\ <<op>> \in Seq(Ops) /\ Replaced(c, <<op>>) /\ asked' = asked
    BY <1>2, <2>1, PublishTask DEF Publish
  <2>3. ~Yields(op)
    BY <2>1, FrameTypes DEF Yields, Acks
  <2> QED
    BY <2>2, <2>3, OneReplyOne
<1>3. ASSUME NEW c \in Conns, Send(c) PROVE Goal
  <2>1. PICK op : op = [op |-> "enqueue", to |-> {Of(c)}, frame |-> Head(task[c]).frame]
    OBVIOUS
  <2>2. /\ task[c] # <<>> /\ Head(task[c]).op = "send" /\ asked' = asked
        /\ Replaced(c, <<>>) \/ (<<op>> \in Seq(Ops) /\ Replaced(c, <<op>>))
    BY <1>3, <2>1, SendTask DEF Send
  <2>3. Yields(Head(task[c])) /\ Acks(op) /\ op.frame.n = asked[c]
    BY <2>1, <2>2, FirstOp DEF OneReply, Yields, Acks
  <2> QED
    BY <2>2, <2>3, OneReplyOne, OneReplyNone
<1>4. ASSUME NEW c \in Conns, NEW s \in Subs, Enqueue(c, s) PROVE Goal
  <2>1. PICK rest, slow : /\ rest = [Head(task[c]) EXCEPT !.to = Head(task[c]).to \ {s}]
                          /\ slow = [op |-> "slow", sub |-> s]
    OBVIOUS
  <2>2. /\ task[c] # <<>> /\ Head(task[c]).op = "enqueue" /\ asked' = asked
        /\ rest \in Ops /\ slow \in Ops
        /\ rest.op = "enqueue" /\ rest.frame = Head(task[c]).frame
        /\ \/ Replaced(c, <<>>) \/ Replaced(c, <<slow>>)
           \/ Replaced(c, <<rest>>) \/ Replaced(c, <<slow, rest>>)
    BY <1>4, <2>1, EnqueueTask DEF Enqueue
  <2>3. Yields(rest) => Yields(Head(task[c])) /\ Acks(rest) /\ rest.frame.n = asked[c]
    <3>1. Yields(rest) => Acks(rest) /\ Acks(Head(task[c]))
      BY <2>2 DEF Yields, Acks
    <3> QED
      BY <2>2, <3>1, FirstOp DEF OneReply, Yields
  <2>4. ~Yields(slow)
    BY <2>1 DEF Yields, Acks
  <2>5. <<rest>> \in Seq(Ops) /\ <<slow>> \in Seq(Ops) /\ <<slow, rest>> \in Seq(Ops)
    BY <2>2
  <2>6. CASE Replaced(c, <<>>) \/ Replaced(c, <<slow>>) \/ Replaced(c, <<rest>>)
    BY <2>2, <2>3, <2>4, <2>5, <2>6, OneReplyOne, OneReplyNone
  <2>7. CASE Replaced(c, <<slow, rest>>)
    <3>1. \A i \in DOMAIN <<slow, rest>> :
              (i = 1 /\ <<slow, rest>>[i] = slow) \/ (i = 2 /\ <<slow, rest>>[i] = rest)
      OBVIOUS
    <3>2. \A i \in DOMAIN <<slow, rest>> :
             /\ Yields(<<slow, rest>>[i]) => i = 2 /\ Yields(Head(task[c]))
             /\ <<slow, rest>>[i].op \notin {"send", "write"}
             /\ Acks(<<slow, rest>>[i]) => <<slow, rest>>[i].frame.n = asked[c]
      BY <2>1, <2>2, <2>3, <2>4, <3>1 DEF Yields
    <3> QED
      BY <2>2, <2>5, <2>7, <3>2, OneReplyReplaced
  <2> QED
    BY <2>2, <2>6, <2>7
<1>5. ASSUME NEW c \in Conns, DisconnectSlow(c) PROVE Goal
  <2>1. PICK s, op : s = Head(task[c]).sub /\ op = [op |-> "close", conn |-> s[1]]
    OBVIOUS
  <2>2. /\ task[c] # <<>> /\ asked' = asked
        /\ Replaced(c, <<>>) \/ (<<op>> \in Seq(Ops) /\ Replaced(c, <<op>>))
    BY <1>5, <2>1, DisconnectSlowTask DEF DisconnectSlow
  <2>3. ~Yields(op)
    BY <2>1 DEF Yields, Acks
  <2> QED
    BY <2>2, <2>3, OneReplyOne, OneReplyNone
<1>6. ASSUME NEW c \in Conns,
             Unsubscribe(c) \/ EnqueueNone(c) \/ CloseConn(c) \/ Write(c) \/ FlushFirst(c)
      PROVE  Goal
  <2>1. task[c] # <<>> /\ Replaced(c, <<>>) /\ asked' = asked
    BY <1>6, PlainTask DEF Unsubscribe, EnqueueNone, CloseConn, Write, FlushFirst
  <2> QED
    BY <2>1, OneReplyNone
<1>7. ASSUME NEW c \in Conns, Leave(c) PROVE Goal
  <2>1. /\ \A d \in Conns : d # c => task'[d] = task[d]
        /\ \A i \in DOMAIN task'[c] : i = 1 /\ task'[c][i].op = "close"
        /\ asked' = asked
    BY <1>7 DEF Leave, TypeInv
  <2>2. \A i \in DOMAIN task'[c] : ~Yields(task'[c][i])
    BY <2>1 DEF Yields, Acks
  <2>3. OneReply'
    BY <2>1, <2>2 DEF OneReply, Yields, Acks
  <2>4. \A d \in Conns : Owes(d)' => Owes(d)
    BY <2>1, <2>2 DEF Owes, Todo, Yields, Acks
  <2> QED
    BY <2>1, <2>3, <2>4
<1>8. CASE UNCHANGED <<task, asked>>
  BY <1>8 DEF OneReply, Owes, Todo, Yields, Acks
<1>9. ASSUME NEW c \in Conns, Flush(c) PROVE Goal
  BY <1>8, <1>9 DEF Flush
<1>10. ASSUME NEW s \in Subs, Pump(s) \/ PumpDone(s) PROVE Goal
  BY <1>8, <1>10 DEF Pump, PumpDone
<1>11. CASE UNCHANGED vars
  BY <1>8, <1>11 DEF vars
<1> QED
  BY <1>1, <1>2, <1>3, <1>4, <1>5, <1>6, <1>7, <1>9, <1>10, <1>11 DEF Next, Step
LEMMA DueGrows ==
    ASSUME TypeInv, TypeInv', OneReply, [Next]_vars, NEW d \in Conns
    PROVE  Due(d) \in Int /\ Due(d)' \in Int /\ Due(d) <= Due(d)'
<1>1. asked[d] \in Nat /\ asked'[d] \in Nat
  BY DEF TypeInv
<1>2. Due(d) \in Int /\ Due(d)' \in Int
  BY <1>1 DEF Due
<1>3. CASE \E c \in Conns : \E cmd \in Commands : Receive(c, cmd)
  <2>1. PICK c \in Conns : \E cmd \in Commands : Receive(c, cmd)
    BY <1>3
  <2>2. PICK cmd \in Commands : Receive(c, cmd)
    BY <2>1
  <2>3. asked' = [asked EXCEPT ![c] = asked[c] + 1] /\ (d # c => Todo(d)' = Todo(d))
    BY <2>2, CommandTask
  <2>4. CASE d = c
    <3>1. ~Owes(c) /\ Owes(c)'
      BY <2>2, ReceiveOwes
    <3>2. asked'[c] = asked[c] + 1
      BY <2>3 DEF TypeInv
    <3> QED
      BY <1>1, <2>4, <3>1, <3>2 DEF Due
  <2>5. CASE d # c
    <3>1. (Owes(d)' <=> Owes(d)) /\ asked'[d] = asked[d]
      BY <2>3, <2>5 DEF Owes, Yields, Acks, TypeInv
    <3> QED
      BY <1>1, <3>1 DEF Due
  <2> QED
    BY <2>4, <2>5
<1>4. CASE ~\E c \in Conns : \E cmd \in Commands : Receive(c, cmd)
  <2>1. UNCHANGED asked /\ (Owes(d)' => Owes(d))
    BY <1>4, OneReplyStep
  <2> QED
    BY <1>1, <2>1 DEF Due
<1> QED
  BY <1>2, <1>3, <1>4

\* The step that puts the reply where it is to be written.
LEMMA DueReplied ==
    ASSUME TypeInv, OneReply, NEW c \in Conns, task[c] # <<>>, Replaced(c, <<>>), UNCHANGED asked,
           Yields(Head(task[c]))
    PROVE  Due(c) = asked[c] - 1 /\ Due(c)' = asked[c]
<1>1. ~Owes(c)' /\ Owes(c)
  BY OneReplyNone, FirstOp DEF Owes
<1> QED
  BY <1>1 DEF Due

(***************************************************************************)
(* The order of replies                                                    *)
(***************************************************************************)
LEMMA FollowNone ==
    ASSUME NEW written, NEW n
    PROVE  Follow(written, <<>>, n)
<1>1. DOMAIN <<>> = {}
  OBVIOUS
<1> QED
  BY <1>1 DEF Follow, InOrder, Upto, Before

LEMMA FollowMore ==
    ASSUME NEW frames \in Seq(Frames), NEW n \in Int, NEW m \in Int, n <= m
    PROVE  /\ Upto(frames, n) => Upto(frames, m)
           /\ \A written : Follow(written, frames, n) => Follow(written, frames, m)
<1>1. \A i \in DOMAIN frames : frames[i] \in Frames
  OBVIOUS
<1>2. \A f \in Frames : f.n \in Nat
  BY DEF Frames
<1>3. Upto(frames, n) => Upto(frames, m)
  <2> SUFFICES ASSUME NEW i \in DOMAIN frames, frames[i].kind = "reply", frames[i].n <= n
               PROVE  frames[i].n <= m
    BY DEF Upto
  <2>1. frames[i].n \in Nat
    BY <1>1, <1>2
  <2> QED
    BY <2>1
<1> QED
  BY <1>3 DEF Follow

LEMMA FollowMessage ==
    ASSUME NEW written, NEW frames \in Seq(Frames), NEW n, NEW f \in Frames,
           f.kind # "reply", Follow(written, frames, n)
    PROVE  Follow(written, Append(frames, f), n)
<1>0. Append(frames, f) \in Seq(Frames)
  OBVIOUS
<1>1. PICK more \in Seq(Frames) : more = Append(frames, f)
  BY <1>0
<1>2. \A i \in DOMAIN more : more[i].kind = "reply" => i \in DOMAIN frames /\ more[i] = frames[i]
  BY <1>1
<1> QED
  BY <1>1, <1>2 DEF Follow, InOrder, Upto, Before

LEMMA FollowReply ==
    ASSUME NEW written \in Seq(Frames), NEW frames \in Seq(Frames), NEW n \in Int,
           NEW f \in Frames, f.n = n + 1, Follow(written, frames, n), Upto(written, n)
    PROVE  Follow(written, Append(frames, f), n + 1)
<1>0. Append(frames, f) \in Seq(Frames)
  OBVIOUS
<1>1. PICK more \in Seq(Frames) : more = Append(frames, f)
  BY <1>0
<1>2. \A i \in DOMAIN more : (i \in DOMAIN frames /\ more[i] = frames[i]) \/ (i = Len(frames) + 1 /\ more[i] = f)
  BY <1>1
<1>3. /\ \A i \in DOMAIN frames : i \in Nat /\ i < Len(frames) + 1 /\ frames[i].n \in Nat
      /\ \A i \in DOMAIN written : written[i].n \in Nat
      /\ Len(frames) \in Nat
  <2>1. \A g \in Frames : g.n \in Nat
    BY DEF Frames
  <2>2. /\ \A i \in DOMAIN frames : frames[i] \in Frames /\ i \in 1..Len(frames)
        /\ \A i \in DOMAIN written : written[i] \in Frames
        /\ Len(frames) \in Nat
    OBVIOUS
  <2> QED
    BY <2>1, <2>2
<1>4. \A i \in DOMAIN frames : frames[i].kind = "reply" => frames[i].n <= n
  BY DEF Follow, Upto
<1>5. InOrder(more)
  <2> SUFFICES ASSUME NEW i \in DOMAIN more, NEW j \in DOMAIN more, i < j,
                      more[i].kind = "reply", more[j].kind = "reply"
               PROVE  more[i].n < more[j].n
    BY DEF InOrder
  <2>1. CASE j \in DOMAIN frames /\ more[j] = frames[j]
    <3>1. i \in DOMAIN frames /\ more[i] = frames[i]
      BY <1>2, <1>3, <2>1
    <3> QED
      BY <2>1, <3>1 DEF Follow, InOrder
  <2>2. CASE j = Len(frames) + 1 /\ more[j] = f
    <3>1. i \in DOMAIN frames /\ more[i] = frames[i]
      BY <1>2, <1>3, <2>2
    <3>2. frames[i].n <= n /\ frames[i].n \in Nat
      BY <1>3, <1>4, <3>1
    <3> QED
      BY <2>2, <3>1, <3>2
  <2> QED
    BY <1>2, <2>1, <2>2
<1>6. Upto(more, n + 1)
  <2> SUFFICES ASSUME NEW i \in DOMAIN more, more[i].kind = "reply"
               PROVE  more[i].n <= n + 1
    BY DEF Upto
  <2> QED
    BY <1>2, <1>3, <1>4
<1>7. Before(written, more)
  <2> SUFFICES ASSUME NEW i \in DOMAIN written, written[i].kind = "reply",
                      NEW j \in DOMAIN more, more[j].kind = "reply"
               PROVE  written[i].n < more[j].n
    BY DEF Before
  <2>1. CASE j \in DOMAIN frames /\ more[j] = frames[j]
    BY <2>1 DEF Follow, Before
  <2>2. CASE more[j] = f
    <3>1. written[i].n <= n /\ written[i].n \in Nat
      BY <1>3 DEF Upto
    <3> QED
      BY <2>2, <3>1
  <2> QED
    BY <1>2, <2>1, <2>2
<1> QED
  BY <1>1, <1>5, <1>6, <1>7 DEF Follow

\* What follows may be written.
LEMMA FollowWritten ==
    ASSUME NEW written \in Seq(Frames), NEW frames \in Seq(Frames), NEW n \in Int,
           InOrder(written), Upto(written, n), Follow(written, frames, n)
    PROVE  InOrder(written \o frames) /\ Upto(written \o frames, n)
<1>0. written \o frames \in Seq(Frames)
  OBVIOUS
<1>1. PICK all \in Seq(Frames) : all = written \o frames
  BY <1>0
<1>2. /\ Len(written) \in Nat /\ DOMAIN written = 1..Len(written)
      /\ Len(frames) \in Nat /\ DOMAIN frames = 1..Len(frames)
      /\ DOMAIN all = 1..(Len(written) + Len(frames))
      /\ \A i \in DOMAIN all : all[i] = IF i <= Len(written) THEN written[i] ELSE frames[i - Len(written)]
  BY <1>1
<1>3. \A i \in DOMAIN all : \/ i \in DOMAIN written /\ all[i] = written[i]
                            \/ /\ i > Len(written) /\ i - Len(written) \in DOMAIN frames
                               /\ all[i] = frames[i - Len(written)]
  BY <1>2
<1>4. InOrder(all)
  <2> SUFFICES ASSUME NEW i \in DOMAIN all, NEW j \in DOMAIN all, i < j,
                      all[i].kind = "reply", all[j].kind = "reply"
               PROVE  all[i].n < all[j].n
    BY DEF InOrder
  <2>0. i \in Nat /\ j \in Nat
    BY <1>2
  <2>1. CASE j \in DOMAIN written /\ all[j] = written[j]
    <3>1. i \in DOMAIN written /\ all[i] = written[i]
      BY <1>2, <2>0, <2>1
    <3> QED
      BY <2>1, <3>1 DEF InOrder
  <2>2. CASE j > Len(written) /\ j - Len(written) \in DOMAIN frames /\ all[j] = frames[j - Len(written)]
    <3>1. CASE i \in DOMAIN written /\ all[i] = written[i]
      BY <2>2, <3>1 DEF Follow, Before
    <3>2. CASE i > Len(written) /\ i - Len(written) \in DOMAIN frames /\ all[i] = frames[i - Len(written)]
      <4>1. i - Len(written) < j - Len(written)
        BY <1>2, <2>0
      <4> QED
        BY <2>2, <3>2, <4>1 DEF Follow, InOrder
    <3> QED
      BY <1>3, <3>1, <3>2
  <2> QED
    BY <1>3, <2>1, <2>2
<1>5. Upto(all, n)
  BY <1>3 DEF Follow, Upto
<1> QED
  BY <1>1, <1>4, <1>5
\* Before its Subscriber is gone, a connection has one, the only one that was made.
LEMMA OnlySub ==
    ASSUME TypeInv, MapsInv, NEW d \in Conns, First(d)
    PROVE  \A s \in Made : s[1] = d => Exists(d) /\ s = Of(d)
<1> SUFFICES ASSUME NEW s \in Made, s[1] = d PROVE Exists(d) /\ s = Of(d)
  OBVIOUS
<1>1. s \in Subs /\ s \notin done /\ s[2] <= made[s[1]]
  BY DEF Made, First
<1>2. Live(s)
  BY <1>1 DEF MapsInv, MapsAgree
<1> QED
  BY <1>1, <1>2, LiveIs

LEMMA LinedFrames ==
    ASSUME TypeInv, NEW d \in Conns
    PROVE  /\ out[d] \in Seq(Frames) /\ buf[d] \in Seq(Frames)
           /\ \A s \in Made : queue[s] \in Seq(Frames)
           /\ \A s \in Subs : queue[s] \in Seq(Frames)
BY DEF TypeInv, Made

\* What is written stays, and buf; a queue may be written out or be another's.
LEMMA LinedSame ==
    ASSUME TypeInv, NEW d \in Conns, Lined(d), Due(d) \in Int, Due(d)' \in Int, Due(d) <= Due(d)',
           out'[d] = out[d], buf'[d] = buf[d] \/ buf'[d] = <<>>,
           \A s \in Made' : s[1] = d =>
               \/ s \in Made /\ queue'[s] = queue[s]
               \/ queue'[s] = <<>>
               \/ Follow(out[d], queue'[s], Due(d)')
    PROVE  Lined(d)'
<1>1. PICK n, m : n = Due(d) /\ m = Due(d)' /\ n \in Int /\ m \in Int /\ n <= m
  OBVIOUS
<1>2. InOrder(out[d]) /\ Upto(out[d], m)
  BY <1>1, LinedFrames, FollowMore DEF Lined
<1>3. Follow(out[d], buf'[d], m)
  BY <1>1, LinedFrames, FollowMore, FollowNone DEF Lined
<1>4. \A s \in Made' : s[1] = d => Follow(out[d], queue'[s], m)
  <2> SUFFICES ASSUME NEW s \in Made', s[1] = d PROVE Follow(out[d], queue'[s], m)
    OBVIOUS
  <2>1. CASE s \in Made /\ queue'[s] = queue[s]
    BY <1>1, <2>1, LinedFrames, FollowMore DEF Lined
  <2>2. CASE queue'[s] = <<>>
    BY <2>2, FollowNone
  <2>3. CASE Follow(out[d], queue'[s], Due(d)')
    BY <1>1, <2>3
  <2> QED
    BY <2>1, <2>2, <2>3
<1> QED
  BY <1>1, <1>2, <1>3, <1>4 DEF Lined, InOrder, Follow, Upto, Before

LEMMA PlacedKept ==
    ASSUME NEW d \in Conns, Placed(d), task'[d] = task[d], Exists(d)' => Exists(d),
           buf'[d] = buf[d] \/ buf'[d] = <<>>
    PROVE  Placed(d)'
<1>1. Todo(d)' = Todo(d)
  BY DEF Todo
<1> QED
  BY <1>1 DEF Placed

LEMMA PlacedReplaced ==
    ASSUME TypeInv, NEW c \in Conns, Placed(c), task[c] # <<>>, NEW ops \in Seq(Ops), Replaced(c, ops),
           Head(task[c]).op # "flush", \A i \in DOMAIN ops : ops[i].op \notin {"subscribe", "write"},
           Exists(c)' => buf'[c] = <<>> /\ \A op \in Todo(c) : op.op # "write"
    PROVE  Placed(c)'
<1>1. Todo(c)' = {ops[i] : i \in DOMAIN ops} \cup {task[c][i] : i \in DOMAIN task[c] \ {1}}
  BY ReplacedTodo
<1>2. \A i \in DOMAIN task[c] \ {1} : task[c][i].op # "subscribe" /\ task[c][i] \in Todo(c)
  BY FirstOp DEF Placed, Todo
<1>3. \A op \in Todo(c)' : op.op # "subscribe" /\ (op.op = "write" => op \in Todo(c))
  BY <1>1, <1>2
<1>4. \A i \in DOMAIN task'[c] : task'[c][i] \in Todo(c)'
  BY DEF Todo
<1> QED
  BY <1>3, <1>4 DEF Placed

LEMMA ReceiveLine ==
    ASSUME TypeInv, TypeInv', MapsInv, OneReply, LineInv,
           NEW c \in Conns, NEW cmd \in Commands, Receive(c, cmd)
    PROVE  LineInv'
<1>1. UNCHANGED <<sub, made, done, queue, buf, out>>
  BY DEF Receive, hub
<1>2. \A d \in Conns : Due(d) \in Int /\ Due(d)' \in Int /\ Due(d) <= Due(d)'
  <2>1. [Next]_vars
    BY DEF Next
  <2> QED
    BY <2>1, DueGrows
<1>3. PICK f \in Frames : Commanded(c, cmd, f)
  BY CommandTask
<1>4. SUFFICES ASSUME NEW d \in Conns, First(d)' PROVE Lined(d)' /\ Placed(d)'
  BY DEF LineInv
<1>5. Lined(d) /\ Placed(d)
  BY <1>1, <1>4 DEF LineInv, First
<1>6. Lined(d)'
  BY <1>1, <1>2, <1>5, LinedSame DEF Made
<1>7. CASE d # c
  <2>1. task'[d] = task[d]
    BY <1>7, CommandTask
  <2> QED
    BY <1>1, <1>5, <1>6, <2>1, PlacedKept DEF Exists
<1>8. CASE d = c
  <2>1. /\ cmd.op # "write" /\ SendOf(f).op = "send" /\ WriteOf(f).op = "write" /\ FlushOp.op = "flush"
    BY DEF Commands, SendOf, WriteOf, FlushOp
  <2>2. CASE Exists(c)
    <3>1. buf[c] = <<>>
      BY <1>5, <1>8, <2>2 DEF Placed
    <3>2. \/ task'[c] = <<cmd>> \/ (task'[c] = <<SendOf(f), cmd>> /\ cmd.op = "unsubscribe")
          \/ (task'[c] = <<cmd, SendOf(f)>> /\ cmd.op = "publish") \/ task'[c] = <<SendOf(f)>>
      BY <1>3, <2>2 DEF Commanded
    <3>3. \A i \in DOMAIN task'[c] : /\ task'[c][i].op # "write"
                                     /\ task'[c][i].op = "subscribe" => i = 1
      BY <2>1, <3>2
    <3> QED
      BY <1>1, <1>6, <1>8, <3>1, <3>3 DEF Placed, Todo
  <2>3. CASE ~Exists(c)
    <3>1. \/ task'[c] = <<FlushOp, cmd>> \/ task'[c] = <<WriteOf(f)>>
          \/ (task'[c] = <<cmd, WriteOf(f)>> /\ cmd.op \in {"unsubscribe", "publish"})
      BY <1>3, <2>3 DEF Commanded
    <3>2. \A i \in DOMAIN task'[c] : task'[c][i].op = "subscribe" => i = 2 /\ task'[c][1].op = "flush"
      BY <2>1, <3>1
    <3>3. ~Exists(c)'
      BY <1>1, <2>3 DEF Exists
    <3> QED
      BY <1>6, <1>8, <3>2, <3>3 DEF Placed
  <2> QED
    BY <2>2, <2>3
<1> QED
  BY <1>7, <1>8

\* Operations that touch no queue and no buffer.
LEMMA QuietLine ==
    ASSUME TypeInv, TypeInv', OneReply, LineInv, [Next]_vars,
           NEW c \in Conns, task[c] # <<>>, NEW ops \in Seq(Ops), Replaced(c, ops),
           Head(task[c]).op # "flush", \A i \in DOMAIN ops : ops[i].op \notin {"subscribe", "write"},
           UNCHANGED <<made, queue, buf, out>>, done \subseteq done',
           \A d \in Conns : Exists(d)' => Exists(d)
    PROVE  LineInv'
<1>1. \A d \in Conns : Due(d) \in Int /\ Due(d)' \in Int /\ Due(d) <= Due(d)'
  BY DueGrows
<1>2. SUFFICES ASSUME NEW d \in Conns, First(d)' PROVE Lined(d)' /\ Placed(d)'
  BY DEF LineInv
<1>3. Lined(d) /\ Placed(d)
  BY <1>2 DEF LineInv, First
<1>4. Lined(d)'
  BY <1>1, <1>3, LinedSame DEF Made
<1>5. CASE d # c
  BY <1>3, <1>4, <1>5, PlacedKept DEF Replaced
<1>6. CASE d = c
  <2>1. Exists(c)' => buf'[c] = <<>> /\ \A op \in Todo(c) : op.op # "write"
    BY <1>3, <1>6 DEF Placed
  <2> QED
    BY <1>3, <1>4, <1>6, <2>1, PlacedReplaced
<1> QED
  BY <1>5, <1>6
\* The Subscriber that a connection gets is its first, and buf is empty.
LEMMA SubscribeLine ==
    ASSUME TypeInv, TypeInv', MapsInv, OneReply, LineInv, [Next]_vars, NEW c \in Conns, Subscribe(c)
    PROVE  LineInv'
<1>1. PICK s \in Subs :
         /\ s[1] = c /\ s[2] = IF Exists(c) THEN sub[c] ELSE made[c] + 1
         /\ Exists(c) => s = Of(c)
         /\ LET op == [op |-> "enqueue", to |-> {s}, frame |-> Reply(c)]
            IN  <<op>> \in Seq(Ops) /\ Replaced(c, <<op>>)
         /\ sub' = [sub EXCEPT ![c] = s[2]]
         /\ made' = [made EXCEPT ![c] = Max({made[c], s[2]})]
  BY SubscribeTask, ZenonT(60)
<1>2. PICK op : op = [op |-> "enqueue", to |-> {s}, frame |-> Reply(c)]
  OBVIOUS
<1>3. /\ task[c] # <<>> /\ Head(task[c]).op = "subscribe" /\ UNCHANGED <<queue, buf, out, done>>
      /\ <<op>> \in Seq(Ops) /\ Replaced(c, <<op>>)
  BY <1>1, <1>2, SubscribeTask DEF Subscribe
<1>4. \A d \in Conns : Due(d) \in Int /\ Due(d)' \in Int /\ Due(d) <= Due(d)'
  BY DueGrows
<1>5. SUFFICES ASSUME NEW d \in Conns, First(d)' PROVE Lined(d)' /\ Placed(d)'
  BY DEF LineInv
<1>6. Lined(d) /\ Placed(d)
  BY <1>3, <1>5 DEF LineInv, First
<1>7. Lined(d)'
  <2>1. ASSUME NEW t \in Made', t \notin Made PROVE queue'[t] = <<>>
    <3>1. t \in Subs
      BY <2>1 DEF Made
    <3> QED
      BY <1>3, <2>1, <3>1 DEF MapsInv, Unmade
  <2>2. \A t \in Made' : (t \in Made /\ queue'[t] = queue[t]) \/ queue'[t] = <<>>
    BY <1>3, <2>1
  <2> QED
    BY <1>3, <1>4, <1>6, <2>2, LinedSame
<1>8. CASE d # c
  <2>1. Exists(d)' => Exists(d)
    BY <1>1, <1>8 DEF Exists, TypeInv
  <2> QED
    BY <1>3, <1>6, <1>7, <1>8, <2>1, PlacedKept DEF Replaced
<1>9. CASE d = c
  <2>1. buf[c] = <<>>
    BY <1>3, <1>6, <1>9, FirstOp DEF Placed
  <2>2. \A o \in Todo(c) : o.op # "write"
    <3> SUFFICES ASSUME NEW i \in DOMAIN task[c], task[c][i].op = "write" PROVE FALSE
      BY DEF Todo
    <3>1. Yields(task[c][i]) /\ Yields(task[c][1]) /\ 1 \in DOMAIN task[c]
      BY <1>3, FirstOp DEF Yields
    <3>2. i = 1
      BY <3>1 DEF OneReply
    <3> QED
      BY <1>3, <3>2, FirstOp
  <2>3. \A i \in DOMAIN <<op>> : <<op>>[i].op \notin {"subscribe", "write"}
    <3>1. \A i \in DOMAIN <<op>> : <<op>>[i] = op
      OBVIOUS
    <3> QED
      BY <1>2, <3>1
  <2> QED
    BY <1>3, <1>6, <1>7, <1>9, <2>1, <2>2, <2>3, PlacedReplaced
<1> QED
  BY <1>8, <1>9

\* A reply goes behind everything that was put in the queue; messages have no order here.
LEMMA EnqueueLine ==
    ASSUME TypeInv, TypeInv', MapsInv, AckInv, OneReply, LineInv, [Next]_vars,
           NEW c \in Conns, NEW s \in Subs, Enqueue(c, s)
    PROVE  LineInv'
<1>1. PICK rest, slow : /\ rest = [Head(task[c]) EXCEPT !.to = Head(task[c]).to \ {s}]
                        /\ slow = [op |-> "slow", sub |-> s]
  OBVIOUS
<1>2. /\ task[c] # <<>> /\ Head(task[c]).op = "enqueue" /\ s \in Head(task[c]).to
      /\ Head(task[c]).frame \in Frames
      /\ rest \in Ops /\ slow \in Ops
      /\ rest.op = "enqueue" /\ rest.to = Head(task[c]).to \ {s}
      /\ \/ queue' = queue /\ (Replaced(c, <<slow>>) \/ Replaced(c, <<slow, rest>>))
         \/ /\ queue' = [queue EXCEPT ![s] = Append(queue[s], Head(task[c]).frame)]
            /\ Replaced(c, <<>>) \/ (Replaced(c, <<rest>>) /\ rest.to # {})
      /\ UNCHANGED <<sub, made, done, buf, out, asked>>
  BY <1>1, EnqueueTask DEF Enqueue, hub
<1>3. PICK ops \in Seq(Ops) : /\ Replaced(c, ops)
                              /\ \A i \in DOMAIN ops : ops[i].op \notin {"subscribe", "write"}
  <2>1. /\ <<>> \in Seq(Ops) /\ <<rest>> \in Seq(Ops) /\ <<slow>> \in Seq(Ops)
        /\ <<slow, rest>> \in Seq(Ops)
    BY <1>2
  <2>2. slow.op = "slow" /\ rest.op = "enqueue"
    BY <1>1, <1>2
  <2>3. /\ \A i \in DOMAIN <<>> : <<>>[i].op \notin {"subscribe", "write"}
        /\ \A i \in DOMAIN <<rest>> : <<rest>>[i].op \notin {"subscribe", "write"}
        /\ \A i \in DOMAIN <<slow>> : <<slow>>[i].op \notin {"subscribe", "write"}
        /\ \A i \in DOMAIN <<slow, rest>> : <<slow, rest>>[i].op \notin {"subscribe", "write"}
    <3>1. \A i \in DOMAIN <<slow, rest>> : <<slow, rest>>[i] \in {slow, rest}
      OBVIOUS
    <3> QED
      BY <2>2, <3>1
  <2>4. CASE Replaced(c, <<>>)
    BY <2>1, <2>3, <2>4
  <2>5. CASE Replaced(c, <<rest>>)
    BY <2>1, <2>3, <2>5
  <2>6. CASE Replaced(c, <<slow>>)
    BY <2>1, <2>3, <2>6
  <2>7. CASE Replaced(c, <<slow, rest>>)
    BY <2>1, <2>3, <2>7
  <2> QED
    BY <1>2, <2>4, <2>5, <2>6, <2>7
<1>4. CASE queue' = queue
  BY <1>2, <1>3, <1>4, QuietLine DEF Exists
<1>5. CASE queue' = [queue EXCEPT ![s] = Append(queue[s], Head(task[c]).frame)]
  <2>1. \A d \in Conns : Due(d) \in Int /\ Due(d)' \in Int /\ Due(d) <= Due(d)'
    BY DueGrows
  <2>2. SUFFICES ASSUME NEW d \in Conns, First(d)' PROVE Lined(d)' /\ Placed(d)'
    BY DEF LineInv
  <2>3. Lined(d) /\ Placed(d)
    BY <1>2, <2>2 DEF LineInv, First
  <2>4. \A t \in Subs : t # s => queue'[t] = queue[t]
    BY <1>5 DEF TypeInv
  <2>5. queue'[s] = Append(queue[s], Head(task[c]).frame) /\ queue[s] \in Seq(Frames)
    BY <1>5 DEF TypeInv
  <2>6. ASSUME s \in Made, s[1] = d PROVE Follow(out[d], queue'[s], Due(d)')
    <3>0. PICK n, m : n = Due(d) /\ m = Due(d)' /\ n \in Int /\ m \in Int /\ n <= m
      BY <2>1
    <3>1. Follow(out[d], queue[s], n) /\ Upto(out[d], n) /\ out[d] \in Seq(Frames)
      BY <2>3, <2>6, <3>0, LinedFrames DEF Lined
    <3>2. CASE Head(task[c]).frame.kind # "reply"
      <4>1. Follow(out[d], queue'[s], n) /\ queue'[s] \in Seq(Frames)
        BY <1>2, <2>5, <3>1, <3>2, FollowMessage
      <4>2. Follow(out[d], queue'[s], m)
        BY <3>0, <4>1, FollowMore
      <4> QED
        BY <3>0, <4>2
    <3>3. CASE Head(task[c]).frame.kind = "reply"
      <4>1. Acks(Head(task[c])) /\ Yields(Head(task[c]))
        BY <1>2, <3>3 DEF Acks, Yields
      <4>2. d = c /\ rest.to = {}
        BY <1>2, <2>6, <4>1, FirstOp DEF AckInv, AcksFirst, OwnSub
      <4>3. Replaced(c, <<>>)
        <5>1. queue' # queue
          <6>1. Len(queue'[s]) = Len(queue[s]) + 1 /\ Len(queue[s]) \in Nat
            BY <1>2, <2>5
          <6> QED
            BY <6>1
        <5> QED
          BY <1>2, <4>2, <5>1
      <4>4. n = asked[c] - 1 /\ m = asked[c] /\ asked[c] \in Nat
        BY <1>2, <3>0, <4>1, <4>2, <4>3, DueReplied DEF TypeInv
      <4>5. Head(task[c]).frame.n = asked[c]
        BY <1>2, <4>1, FirstOp DEF OneReply
      <4>6. Head(task[c]).frame.n = n + 1 /\ m = n + 1
        BY <4>4, <4>5
      <4>7. Follow(out[d], queue'[s], n + 1)
        BY <1>2, <2>5, <3>0, <3>1, <4>6, FollowReply
      <4> QED
        BY <3>0, <4>6, <4>7
    <3> QED
      BY <3>2, <3>3
  <2>7. Lined(d)'
    <3>1. Made' = Made /\ Made \subseteq Subs
      BY <1>2 DEF Made
    <3>2. ASSUME NEW t \in Made', t[1] = d
          PROVE  (t \in Made /\ queue'[t] = queue[t]) \/ Follow(out[d], queue'[t], Due(d)')
      <4>1. CASE t = s
        BY <2>6, <3>1, <3>2, <4>1
      <4>2. CASE t # s
        BY <2>4, <3>1, <3>2, <4>2
      <4> QED
        BY <4>1, <4>2
    <3> QED
      BY <1>2, <2>1, <2>3, <3>2, LinedSame
  <2>8. CASE d # c
    BY <1>2, <1>3, <2>3, <2>7, <2>8, PlacedKept DEF Replaced, Exists
  <2>9. CASE d = c
    <3>1. Exists(c)' => buf'[c] = <<>> /\ \A op \in Todo(c) : op.op # "write"
      BY <1>2, <2>3, <2>9 DEF Placed, Exists
    <3> QED
      BY <1>2, <1>3, <2>3, <2>7, <2>9, <3>1, PlacedReplaced
  <2> QED
    BY <2>8, <2>9
<1> QED
  BY <1>2, <1>4, <1>5
LEMMA WriteLine ==
    ASSUME TypeInv, TypeInv', MapsInv, OneReply, LineInv, [Next]_vars, NEW c \in Conns, Write(c)
    PROVE  LineInv'
<1>1. /\ task[c] # <<>> /\ Head(task[c]).op = "write" /\ Replaced(c, <<>>) /\ <<>> \in Seq(Ops)
      /\ UNCHANGED <<sub, made, done, queue, out, asked>>
      /\ Head(task[c]).frame \in Frames
  BY PlainTask, FirstOp, OpType DEF Write, hub
<1>2. buf[c] \in Seq(Frames) /\ buf'[c] = Append(buf[c], Head(task[c]).frame)
      /\ \A d \in Conns : d # c => buf'[d] = buf[d]
  BY DEF Write, TypeInv
<1>3. Yields(Head(task[c])) /\ Head(task[c]).frame.n = asked[c]
  BY <1>1, FirstOp DEF OneReply, Yields
<1>4. \A d \in Conns : Due(d) \in Int /\ Due(d)' \in Int /\ Due(d) <= Due(d)'
  BY DueGrows
<1>5. SUFFICES ASSUME NEW d \in Conns, First(d)' PROVE Lined(d)' /\ Placed(d)'
  BY DEF LineInv
<1>6. First(d) /\ Lined(d) /\ Placed(d) /\ Made' = Made
  BY <1>1, <1>5 DEF LineInv, First, Made
<1>7. CASE d # c
  <2>1. Lined(d)'
    BY <1>1, <1>2, <1>4, <1>6, <1>7, LinedSame
  <2>2. Placed(d)'
    BY <1>1, <1>2, <1>6, <1>7, PlacedKept DEF Replaced, Exists
  <2> QED
    BY <2>1, <2>2
<1>8. CASE d = c
  <2>1. ~Exists(c) /\ ~Exists(c)'
    BY <1>1, <1>6, <1>8, FirstOp DEF Placed, Exists
  <2>2. \A s \in Made : s[1] # c
    BY <1>6, <1>8, <2>1, OnlySub
  <2>3. PICK n, m : n = Due(c) /\ m = Due(c)' /\ n \in Int /\ m \in Int
    BY <1>4
  <2>4. n = asked[c] - 1 /\ m = asked[c] /\ asked[c] \in Nat
    BY <1>1, <1>3, <2>3, DueReplied DEF TypeInv
  <2>5. Follow(out[c], buf[c], n) /\ Upto(out[c], n) /\ InOrder(out[c]) /\ out[c] \in Seq(Frames)
    BY <1>6, <1>8, <2>3, LinedFrames DEF Lined
  <2>6. Head(task[c]).frame.n = n + 1 /\ m = n + 1
    BY <1>3, <2>4
  <2>7. Follow(out[c], buf'[c], m)
    <3>1. Follow(out[c], buf'[c], n + 1)
      BY <1>1, <1>2, <2>3, <2>5, <2>6, FollowReply
    <3> QED
      BY <2>6, <3>1
  <2>8. Upto(out[c], m)
    <3>1. n <= m
      BY <2>4
    <3> QED
      BY <2>3, <2>5, <3>1, FollowMore
  <2>9. Lined(c)'
    <3>1. out'[c] = out[c] /\ \A s \in Made' : s[1] # c
      BY <1>1, <1>6, <2>2
    <3>2. InOrder(out'[c]) /\ Upto(out'[c], m) /\ Follow(out'[c], buf'[c], m)
      BY <2>5, <2>7, <2>8, <3>1
    <3> QED
      BY <2>3, <3>1, <3>2 DEF Lined, InOrder, Upto, Follow, Before
  <2>10. Placed(c)'
    <3>1. DOMAIN <<>> = {} /\ Head(task[c]).op # "flush"
      BY <1>1
    <3> QED
      BY <1>1, <1>6, <1>8, <2>1, <3>1, PlacedReplaced
  <2> QED
    BY <1>8, <2>9, <2>10
<1> QED
  BY <1>7, <1>8

\* subscribeClassic and serve flush buf; if the connection has a Subscriber it is empty.
LEMMA SentLined ==
    ASSUME TypeInv, MapsInv, NEW c \in Conns, First(c), Lined(c), Placed(c), Sent(c),
           UNCHANGED <<made, queue>>, Due(c) \in Int, Due(c)' \in Int, Due(c) <= Due(c)'
    PROVE  Lined(c)'
<1>1. /\ Made' = Made /\ buf'[c] = <<>> /\ out[c] \in Seq(Frames) /\ buf[c] \in Seq(Frames)
      /\ out'[c] = out[c] \/ out'[c] = out[c] \o buf[c]
  BY DEF Made, Sent, TypeInv
<1>2. CASE out'[c] = out[c]
  BY <1>1, <1>2, LinedSame
<1>3. CASE out'[c] = out[c] \o buf[c] /\ Exists(c)
  <2>1. out[c] \o <<>> = out[c]
    BY <1>1
  <2>2. buf[c] = <<>>
    BY <1>3 DEF Placed
  <2>3. out'[c] = out[c]
    BY <1>3, <2>1, <2>2
  <2> QED
    BY <1>1, <2>3, LinedSame
<1>4. CASE out'[c] = out[c] \o buf[c] /\ ~Exists(c)
  <2>1. \A s \in Made : s[1] # c
    BY <1>4, OnlySub
  <2>2. PICK n, m : n = Due(c) /\ m = Due(c)' /\ n \in Int /\ m \in Int /\ n <= m
    OBVIOUS
  <2>3. InOrder(out'[c]) /\ Upto(out'[c], n) /\ out'[c] \in Seq(Frames)
    BY <1>1, <1>4, <2>2, FollowWritten DEF Lined
  <2>4. Upto(out'[c], m)
    BY <2>2, <2>3, FollowMore
  <2>5. Follow(out'[c], buf'[c], m)
    BY <1>1, FollowNone
  <2> QED
    BY <1>1, <2>1, <2>2, <2>3, <2>4, <2>5 DEF Lined, InOrder, Upto, Follow, Before
<1> QED
  BY <1>1, <1>2, <1>3, <1>4

LEMMA FlushLine ==
    ASSUME TypeInv, TypeInv', MapsInv, OneReply, LineInv, [Next]_vars,
           NEW c \in Conns, FlushFirst(c) \/ Flush(c)
    PROVE  LineInv'
<1>1. Sent(c) /\ UNCHANGED <<sub, made, done, queue>>
  BY DEF FlushFirst, FlushBeforeWritePump, Flush, hub
<1>2. /\ buf'[c] = <<>>
      /\ \A d \in Conns : d # c => buf'[d] = buf[d] /\ out'[d] = out[d]
  BY <1>1 DEF Sent, TypeInv
<1>3. \A d \in Conns : Due(d) \in Int /\ Due(d)' \in Int /\ Due(d) <= Due(d)'
  BY DueGrows
<1>4. SUFFICES ASSUME NEW d \in Conns, First(d)' PROVE Lined(d)' /\ Placed(d)'
  BY DEF LineInv
<1>5. First(d) /\ Lined(d) /\ Placed(d) /\ Made' = Made
  BY <1>1, <1>4 DEF LineInv, First, Made
<1>6. Lined(d)'
  <2>1. CASE d = c
    BY <1>1, <1>3, <1>5, <2>1, SentLined
  <2>2. CASE d # c
    BY <1>1, <1>2, <1>3, <1>5, <2>2, LinedSame
  <2> QED
    BY <2>1, <2>2
<1>7. CASE task'[d] = task[d]
  BY <1>1, <1>2, <1>5, <1>6, <1>7, PlacedKept DEF Exists
<1>8. CASE task'[d] # task[d]
  <2>1. FlushFirst(c) /\ Replaced(c, <<>>) /\ d = c /\ task[c] # <<>> /\ Head(task[c]).op = "flush"
    <3>1. FlushFirst(c)
      BY <1>8 DEF Flush
    <3> QED
      BY <1>8, <3>1, PlainTask DEF Replaced, FlushFirst
  <2>2. \A j \in DOMAIN task'[c] : /\ j \in Nat \ {0} /\ j + 1 \in DOMAIN task[c]
                                   /\ task'[c][j] = task[c][j + 1]
    <3>1. Len(<<>>) = 0 /\ task'[c] \in Seq(Ops) /\ task[c] \in Seq(Ops)
      BY <2>1 DEF Replaced, TypeInv
    <3>2. \A j \in DOMAIN task'[c] : j \in Nat \ {0} /\ j > 0 /\ j - 0 + 1 = j + 1
      BY <3>1
    <3> QED
      BY <2>1, <3>1, <3>2 DEF Replaced
  <2>3. \A j \in DOMAIN task'[c] : task'[c][j].op = "subscribe" => j = 1
    <3> SUFFICES ASSUME NEW j \in DOMAIN task'[c], task'[c][j].op = "subscribe" PROVE j = 1
      OBVIOUS
    <3>1. j \in Nat \ {0} /\ j + 1 \in DOMAIN task[c] /\ task[c][j + 1].op = "subscribe"
      BY <2>2
    <3>2. j + 1 = 1 \/ j + 1 = 2
      BY <1>5, <2>1, <3>1 DEF Placed
    <3> QED
      BY <3>1, <3>2
  <2>4. \A op \in Todo(c)' : op \in Todo(c)
    BY <2>2 DEF Todo
  <2>5. Placed(c)'
    BY <1>1, <1>2, <1>5, <2>1, <2>3, <2>4 DEF Placed, Exists
  <2> QED
    BY <1>6, <2>1, <2>5
<1> QED
  BY <1>7, <1>8

\* writePump writes out the queue of the Subscriber, and buf is empty.
LEMMA PumpLine ==
    ASSUME TypeInv, TypeInv', MapsInv, OneReply, LineInv, [Next]_vars,
           NEW s \in Subs, Pump(s) \/ PumpDone(s)
    PROVE  LineInv'
<1>1. /\ Drained(s) /\ s \in Made /\ s[1] \in Conns
      /\ UNCHANGED <<sub, made, done, task, buf>>
  BY SubPairs DEF Pump, PumpDone, DrainOnDone, Running, Made, hub
<1>2. /\ queue'[s] = <<>> /\ \A t \in Subs : t # s => queue'[t] = queue[t]
      /\ \A d \in Conns : d # s[1] => out'[d] = out[d]
      /\ out'[s[1]] = out[s[1]] \/ out'[s[1]] = out[s[1]] \o queue[s]
      /\ Made' = Made /\ Made \subseteq Subs
  BY <1>1 DEF Drained, TypeInv, Made
<1>3. \A d \in Conns : Due(d) \in Int /\ Due(d)' \in Int /\ Due(d) <= Due(d)'
  BY DueGrows
<1>4. SUFFICES ASSUME NEW d \in Conns, First(d)' PROVE Lined(d)' /\ Placed(d)'
  BY DEF LineInv
<1>5. First(d) /\ Lined(d) /\ Placed(d)
  BY <1>1, <1>4 DEF LineInv, First
<1>6. Placed(d)'
  BY <1>1, <1>5, PlacedKept DEF Exists
<1>7. \A t \in Made : queue'[t] = queue[t] \/ queue'[t] = <<>>
  BY <1>2
<1>8. CASE out'[d] = out[d]
  BY <1>1, <1>2, <1>3, <1>5, <1>6, <1>7, <1>8, LinedSame
<1>9. CASE out'[d] # out[d]
  <2>1. d = s[1] /\ out'[d] = out[d] \o queue[s]
    BY <1>2, <1>9
  <2>2. Exists(d) /\ \A t \in Made : t[1] = d => t = s
    BY <1>1, <1>5, <2>1, OnlySub
  <2>3. buf'[d] = <<>>
    BY <1>1, <1>5, <2>2 DEF Placed
  <2>4. PICK n, m : n = Due(d) /\ m = Due(d)' /\ n \in Int /\ m \in Int /\ n <= m
    BY <1>3
  <2>5. /\ out[d] \in Seq(Frames) /\ queue[s] \in Seq(Frames) /\ InOrder(out[d]) /\ Upto(out[d], n)
        /\ Follow(out[d], queue[s], n)
    BY <1>1, <1>5, <2>1, <2>4, LinedFrames DEF Lined
  <2>6. InOrder(out'[d]) /\ Upto(out'[d], n) /\ out'[d] \in Seq(Frames)
    BY <2>1, <2>4, <2>5, FollowWritten
  <2>7. Upto(out'[d], m)
    BY <2>4, <2>6, FollowMore
  <2>8. Follow(out'[d], buf'[d], m) /\ \A t \in Made : t[1] = d => Follow(out'[d], queue'[t], m)
    BY <1>2, <2>2, <2>3, FollowNone
  <2>9. Lined(d)'
    BY <1>2, <2>4, <2>6, <2>7, <2>8 DEF Lined, InOrder, Upto, Follow, Before
  <2> QED
    BY <1>6, <2>9
<1> QED
  BY <1>8, <1>9

LEMMA LeaveLine ==
    ASSUME TypeInv, TypeInv', MapsInv, OneReply, LineInv, [Next]_vars, NEW c \in Conns, Leave(c)
    PROVE  LineInv'
<1>1. UNCHANGED <<sub, made, done, queue, buf, out>>
  BY DEF Leave, hub
<1>2. /\ \A d \in Conns : d # c => task'[d] = task[d]
      /\ task[c] = <<>> /\ \A i \in DOMAIN task'[c] : task'[c][i].op = "close"
  BY DEF Leave, TypeInv
<1>3. \A d \in Conns : Due(d) \in Int /\ Due(d)' \in Int /\ Due(d) <= Due(d)'
  BY DueGrows
<1>4. SUFFICES ASSUME NEW d \in Conns, First(d)' PROVE Lined(d)' /\ Placed(d)'
  BY DEF LineInv
<1>5. First(d) /\ Lined(d) /\ Placed(d) /\ Made' = Made
  BY <1>1, <1>4 DEF LineInv, First, Made
<1>6. Lined(d)'
  BY <1>1, <1>3, <1>5, LinedSame
<1>7. CASE d # c
  BY <1>1, <1>2, <1>5, <1>6, <1>7, PlacedKept DEF Exists
<1>8. CASE d = c
  BY <1>1, <1>2, <1>5, <1>6, <1>8 DEF Placed, Todo, Exists
<1> QED
  BY <1>7, <1>8
LEMMA LineStep ==
    ASSUME TypeInv, TypeInv', MapsInv, AckInv, OneReply, LineInv, [Next]_vars
    PROVE  LineInv'
<1>1. ASSUME NEW c \in Conns, Publish(c) PROVE LineInv'
  <2>1. PICK op : op = [op |-> "enqueue", to |-> members[Head(task[c]).channel], frame |-> Message(c)]
    OBVIOUS
  <2>2. /\ task[c] # <<>> /\ Head(task[c]).op = "publish"
        /\ <<op>> \in Seq(Ops) /\ Replaced(c, <<op>>) /\ UNCHANGED <<sub, made, queue, buf, out, done>>
    BY <1>1, <2>1, PublishTask DEF Publish, hub
  <2>3. \A i \in DOMAIN <<op>> : <<op>>[i].op \notin {"subscribe", "write"}
    <3>1. \A i \in DOMAIN <<op>> : <<op>>[i] = op
      OBVIOUS
    <3> QED
      BY <2>1, <3>1
  <2> QED
    BY <2>2, <2>3, QuietLine DEF Exists
<1>2. ASSUME NEW c \in Conns, Send(c) PROVE LineInv'
  <2>1. PICK op : op = [op |-> "enqueue", to |-> {Of(c)}, frame |-> Head(task[c]).frame]
    OBVIOUS
  <2>2. /\ task[c] # <<>> /\ Head(task[c]).op = "send" /\ UNCHANGED <<sub, made, queue, buf, out, done>>
        /\ Replaced(c, <<>>) \/ (<<op>> \in Seq(Ops) /\ Replaced(c, <<op>>))
    BY <1>2, <2>1, SendTask DEF Send, hub
  <2>3. /\ <<>> \in Seq(Ops) /\ DOMAIN <<>> = {}
        /\ \A i \in DOMAIN <<op>> : <<op>>[i] = op
    OBVIOUS
  <2>4. \A i \in DOMAIN <<op>> : <<op>>[i].op \notin {"subscribe", "write"}
    BY <2>1, <2>3
  <2> QED
    BY <2>2, <2>3, <2>4, QuietLine DEF Exists
<1>3. ASSUME NEW c \in Conns, DisconnectSlow(c) PROVE LineInv'
  <2>1. PICK s, op : s = Head(task[c]).sub /\ op = [op |-> "close", conn |-> s[1]]
    OBVIOUS
  <2>2. /\ task[c] # <<>> /\ Head(task[c]).op = "slow" /\ UNCHANGED <<made, queue, buf, out>>
        /\ Replaced(c, <<>>) \/ (<<op>> \in Seq(Ops) /\ Replaced(c, <<op>>))
        /\ s[1] \in Conns
    BY <1>3, <2>1, DisconnectSlowTask DEF DisconnectSlow
  <2>3. /\ <<>> \in Seq(Ops) /\ DOMAIN <<>> = {}
        /\ \A i \in DOMAIN <<op>> : <<op>>[i] = op
    OBVIOUS
  <2>4. \A i \in DOMAIN <<op>> : <<op>>[i].op \notin {"subscribe", "write"}
    BY <2>1, <2>3
  <2>5. done \subseteq done' /\ (sub' = sub \/ sub' = [sub EXCEPT ![s[1]] = NoSub])
    BY <1>3, <2>1 DEF DisconnectSlow
  <2>6. \A d \in Conns : Exists(d)' => Exists(d)
    BY <2>2, <2>5 DEF Exists, TypeInv
  <2> QED
    BY <2>2, <2>3, <2>4, <2>5, <2>6, QuietLine
<1>4. ASSUME NEW c \in Conns, Unsubscribe(c) \/ EnqueueNone(c) \/ CloseConn(c) PROVE LineInv'
  <2>1. /\ task[c] # <<>> /\ Head(task[c]).op # "flush" /\ UNCHANGED <<made, queue, buf, out>>
        /\ Replaced(c, <<>>) /\ <<>> \in Seq(Ops)
    BY <1>4, PlainTask DEF Unsubscribe, EnqueueNone, CloseConn, Doing, hub
  <2>2. /\ done \subseteq done'
        /\ sub' = sub \/ \E k \in Conns : sub' = [sub EXCEPT ![k] = NoSub]
    <3>1. CASE EnqueueNone(c)
      BY <3>1 DEF EnqueueNone, hub
    <3>2. CASE Unsubscribe(c)
      <4>1. (done' = done /\ sub' = sub) \/ (Exists(c) /\ CloseSub(Of(c)))
        BY <3>2 DEF Unsubscribe
      <4> QED
        BY <4>1, SubTypes DEF CloseSub
    <3>3. CASE CloseConn(c)
      <4>1. Head(task[c]).conn \in Conns
        BY <2>1, <3>3, FirstOp, OpType DEF CloseConn, Doing
      <4>2. PICK k \in Conns : (done' = done /\ sub' = sub) \/ (Exists(k) /\ CloseSub(Of(k)))
        BY <3>3, <4>1 DEF CloseConn, RemoveConn
      <4> QED
        BY <4>2, SubTypes DEF CloseSub
    <3> QED
      BY <1>4, <3>1, <3>2, <3>3
  <2>3. \A d \in Conns : Exists(d)' => Exists(d)
    BY <2>2 DEF Exists, TypeInv
  <2>4. DOMAIN <<>> = {}
    OBVIOUS
  <2> QED
    BY <2>1, <2>2, <2>3, <2>4, QuietLine
<1>5. CASE UNCHANGED vars
  <2>1. UNCHANGED <<sub, made, done, queue, task, asked, buf, out>>
    BY <1>5 DEF vars, hub
  <2> QED
    BY <2>1 DEF LineInv, First, Lined, Placed, Due, Owes, Todo, Yields, Acks, Exists, Made,
                InOrder, Upto, Follow, Before
<1> QED
  BY <1>1, <1>2, <1>3, <1>4, <1>5, ReceiveLine, SubscribeLine, EnqueueLine, WriteLine, FlushLine,
     PumpLine, LeaveLine DEF Next, Step
(***************************************************************************)
(* Closed connections                                                      *)
(***************************************************************************)
\* Only a late SUBSCRIBE gives a closed connection a Subscriber, and closeConn takes out
\* the one that it finds.
LEMMA GhostStep ==
    ASSUME TypeInv, NoGhosts, [Next]_vars
    PROVE  NoGhosts'
<1>0. closed \subseteq Conns
  BY DEF TypeInv
<1>1. ASSUME UNCHANGED <<closed, late>>, \A d \in Conns : Exists(d)' => Exists(d) PROVE NoGhosts'
  BY <1>0, <1>1 DEF NoGhosts
<1>2. ASSUME NEW c \in Conns, Subscribe(c) PROVE NoGhosts'
  <2>1. PICK s \in Subs : s[1] = c /\ sub' = [sub EXCEPT ![c] = s[2]]
    BY <1>2, SubscribeTask
  <2>2. closed' = closed /\ late' = IF c \in closed /\ ~Exists(c) THEN late \cup {c} ELSE late
    BY <1>2 DEF Subscribe
  <2>3. \A d \in Conns : d # c => (Exists(d)' <=> Exists(d))
    BY <2>1 DEF Exists, TypeInv
  <2> QED
    BY <1>0, <2>2, <2>3 DEF NoGhosts
<1>3. ASSUME NEW c \in Conns, CloseConn(c) PROVE NoGhosts'
  <2>1. PICK k : k = Head(task[c]).conn
    OBVIOUS
  <2>2. k \in Conns
    BY <1>3, <2>1, FirstOp, OpType DEF CloseConn, Doing
  <2>3. late' = late
    BY <1>3 DEF CloseConn
  <2>4. \/ closed' = closed /\ sub' = sub
        \/ closed' = closed \cup {k} /\ ~Exists(k)' /\ \A d \in Conns : Exists(d)' => Exists(d)
    <3>1. CASE k \in closed
      BY <1>3, <2>1, <3>1 DEF CloseConn
    <3>2. CASE k \notin closed /\ ~Exists(k)
      BY <1>3, <2>1, <3>2 DEF CloseConn, RemoveConn, Exists
    <3>3. CASE k \notin closed /\ Exists(k)
      <4>0. closed' = closed \cup {k} /\ CloseSub(Of(k))
        BY <1>3, <2>1, <3>3 DEF CloseConn, RemoveConn
      <4>1. closed' = closed \cup {k} /\ sub' = [sub EXCEPT ![k] = NoSub]
        BY <2>2, <3>3, <4>0, SubTypes DEF CloseSub
      <4> QED
        BY <2>2, <4>1 DEF Exists, TypeInv
    <3> QED
      BY <3>1, <3>2, <3>3
  <2> QED
    BY <1>0, <2>2, <2>3, <2>4 DEF NoGhosts, Exists
<1>4. ASSUME NEW c \in Conns, DisconnectSlow(c) PROVE NoGhosts'
  <2>1. PICK s : s = Head(task[c]).sub
    OBVIOUS
  <2>2. (sub' = sub \/ sub' = [sub EXCEPT ![s[1]] = NoSub]) /\ UNCHANGED <<closed, late>>
    BY <1>4, <2>1 DEF DisconnectSlow
  <2>3. \A d \in Conns : Exists(d)' => Exists(d)
    BY <2>2 DEF Exists, TypeInv
  <2> QED
    BY <1>1, <2>2, <2>3
<1>5. ASSUME NEW c \in Conns, Unsubscribe(c) PROVE NoGhosts'
  <2>1. (sub' = sub \/ (Exists(c) /\ CloseSub(Of(c)))) /\ UNCHANGED <<closed, late>>
    BY <1>5 DEF Unsubscribe
  <2>2. sub' = sub \/ sub' = [sub EXCEPT ![c] = NoSub]
    BY <2>1, SubTypes DEF CloseSub
  <2>3. \A d \in Conns : Exists(d)' => Exists(d)
    BY <2>2 DEF Exists, TypeInv
  <2> QED
    BY <1>1, <2>1, <2>3
<1>6. CASE UNCHANGED <<sub, closed, late>>
  BY <1>1, <1>6 DEF Exists
<1>7. ASSUME NEW c \in Conns,
             \/ Publish(c) \/ Send(c) \/ (\E s \in Subs : Enqueue(c, s)) \/ EnqueueNone(c)
             \/ Write(c) \/ FlushFirst(c) \/ Flush(c)
      PROVE  NoGhosts'
  <2>1. UNCHANGED <<sub, closed, late>>
    BY <1>7 DEF Publish, Send, Enqueue, EnqueueNone, Write, FlushFirst, Flush, hub
  <2> QED
    BY <1>6, <2>1
<1>8. ASSUME NEW c \in Conns, Leave(c) \/ \E cmd \in Commands : Receive(c, cmd) PROVE NoGhosts'
  BY <1>6, <1>8 DEF Leave, Receive, hub
<1>9. ASSUME NEW s \in Subs, Pump(s) \/ PumpDone(s) PROVE NoGhosts'
  BY <1>6, <1>9 DEF Pump, PumpDone, hub
<1>10. CASE UNCHANGED vars
  BY <1>6, <1>10 DEF vars, hub
<1> QED
  BY <1>2, <1>3, <1>4, <1>5, <1>7, <1>8, <1>9, <1>10 DEF Next, Step
(***************************************************************************)
(* The theorems                                                            *)
(***************************************************************************)
HubInv == TypeInv /\ MapsInv /\ AckInv /\ OneReply /\ LineInv /\ NoGhosts

LEMMA InitHolds ==
    ASSUME Bounds, Init
    PROVE  HubInv
<1>1. TypeInv
  <2>1. 0 \in 0..MaxSubs
    BY DEF Bounds
  <2>2. <<>> \in Seq(Ops) /\ <<>> \in Seq(Frames)
    OBVIOUS
  <2> QED
    BY <2>1, <2>2 DEF Init, TypeInv, NoSub
<1>2. /\ \A c \in Conns : task[c] = <<>> /\ ~Exists(c) /\ made[c] = 0 /\ Todo(c) = {}
      /\ DOMAIN <<>> = {}
      /\ \A c \in Conns : out[c] = <<>> /\ buf[c] = <<>>
      /\ \A s \in Subs : queue[s] = <<>> /\ channels[s] = {}
      /\ \A ch \in Channels : members[ch] = {}
      /\ done = {} /\ ended = {} /\ gone = {} /\ closed = {}
  <2>1. \A c \in Conns : task[c] = <<>> /\ made[c] = 0 /\ sub[c] = 0
    BY DEF Init, NoSub
  <2>2. DOMAIN <<>> = {}
    OBVIOUS
  <2> QED
    BY <2>1, <2>2 DEF Init, Exists, NoSub, Todo
<1>3. Made = {} /\ \A s \in Subs : ~Live(s)
  <2>1. MaxSubs \in Nat
    BY DEF Bounds
  <2>2. \A s \in Subs : s[2] # 0 /\ ~(s[2] <= 0) /\ made[s[1]] = 0 /\ sub[s[1]] = 0
    BY <1>2, <2>1, SubPairs DEF Exists, NoSub
  <2> QED
    BY <2>2 DEF Made, Live
<1>4. MapsInv
  <2>1. MapsAgree
    <3>1. \A s \in Subs : ~(s[2] <= made[s[1]])
      BY <1>3 DEF Made
    <3> QED
      BY <1>2, <1>3, <3>1 DEF MapsAgree
  <2>2. \A c \in Conns : sub[c] <= made[c]
    BY <1>2 DEF Exists, NoSub
  <2>3. Unmade /\ KnowsMade
    BY <1>2, <2>2 DEF Unmade, KnowsMade
  <2> QED
    BY <2>1, <2>3 DEF MapsInv
<1>5. AckInv
  BY <1>2 DEF AckInv, AcksFirst, EndedIsOut, HubAckArrives
<1>6. OneReply
  BY <1>2 DEF OneReply
<1>7. LineInv
  <2>1. \A c \in Conns : Lined(c)
    BY <1>2, <1>3 DEF Lined, InOrder, Upto, Follow, Before
  <2>2. \A c \in Conns : Placed(c)
    BY <1>2 DEF Placed
  <2> QED
    BY <2>1, <2>2 DEF LineInv
<1>8. NoGhosts
  BY <1>2 DEF NoGhosts
<1> QED
  BY <1>1, <1>4, <1>5, <1>6, <1>7, <1>8 DEF HubInv

LEMMA InvariantHolds ==
    ASSUME Bounds
    PROVE  Spec => []HubInv
<1>1. Init => HubInv
  BY InitHolds
<1>2. HubInv /\ [Next]_vars => HubInv'
  <2> SUFFICES ASSUME HubInv, [Next]_vars PROVE HubInv'
    OBVIOUS
  <2>1. TypeInv /\ MapsInv /\ AckInv /\ OneReply /\ LineInv /\ NoGhosts
    BY DEF HubInv
  <2>2. TypeInv' /\ MapsInv' /\ AckInv'
    BY <2>1, TypeStep, MapsStep, AckStep
  <2>3. OneReply'
    BY <2>1, OneReplyStep, ReceiveOneReply
  <2>4. LineInv'
    BY <2>1, <2>2, LineStep
  <2>5. NoGhosts'
    BY <2>1, GhostStep
  <2> QED
    BY <2>2, <2>3, <2>4, <2>5 DEF HubInv
<1> QED
  BY <1>1, <1>2, PTL DEF Spec

\* Hub.channels and Subscriber.channels agree, and a Subscriber that Unsubscribe,
\* RemoveConn or disconnectSlow has taken out of the hub has its done closed, however
\* often connections subscribe anew.
THEOREM MapsStayInStep ==
    ASSUME Bounds
    PROVE  Spec => []MapsAgree
<1>1. HubInv => MapsAgree
  BY DEF HubInv, MapsInv
<1> QED
  BY <1>1, InvariantHolds, PTL

\* Moreover, no connection that closeConn has closed has a Subscriber, unless one of its
\* own SUBSCRIBEs ran after that; so no publisher goes on writing to it.
THEOREM HubStaysInAgreement ==
    ASSUME Bounds
    PROVE  Spec => []HubAgrees
<1>1. HubInv => HubAgrees
  BY DEF HubInv, MapsInv, HubAgrees
<1> QED
  BY <1>1, InvariantHolds, PTL

\* subscribeClassic flushes cs.Buf before the writePump writes: until the connection
\* leaves subscriber mode, its replies are written in the order of its commands.
THEOREM RepliesInOrder ==
    ASSUME Bounds
    PROVE  Spec => []HubOneWriter
<1>1. HubInv => HubOneWriter
  BY DEF HubInv, LineInv, Lined, First, HubOneWriter
<1> QED
  BY <1>1, InvariantHolds, PTL

\* drainOnDone writes the rest of the channel: a writePump that ends leaves no reply
\* behind, unless its connection is closed or about to be.
THEOREM AcknowledgementsArrive ==
    ASSUME Bounds
    PROVE  Spec => []HubAckArrives
<1>1. HubInv => HubAckArrives
  BY DEF HubInv, AckInv
<1> QED
  BY <1>1, InvariantHolds, PTL
=============================================================================
