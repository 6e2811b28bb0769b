--------------------------------- MODULE Tx ---------------------------------
(***************************************************************************)
(* The dispatcher (cmd/kvstore/dispatch.go): authentication, subscriber    *)
(* mode, the gates before a command, and MULTI / EXEC / DISCARD, where EXEC *)
(* runs its queue under globalTxMu.  Other connections' plain commands do  *)
(* not take that lock.                                                     *)
(*                                                                         *)
(* A command is its kind, and every command has one reply; the array of an *)
(* EXEC, which is announced before its elements exist, is counted.         *)
(***************************************************************************)
EXTENDS Integers, Sequences

CONSTANTS
    Conns,
    NoConn,
    Commands,      \* commands that clients send
    MaxCommands,   \* bound: commands of one connection
    AuthEnabled,
    Restored       \* the server serves a point in time (restoreLSN > 0)

VARIABLES
    authenticated, inTx, aborted, queue,   \* server.ConnState
    subscriber,    \* connections that the hub has in subscriber mode
    pc,            \* "idle"; in EXEC "lock" or "run"; in a write "write"; "closed"
    at,            \* how much of its queue an EXEC has run
    owed,          \* elements of its array that are announced and not written
    asked,         \* commands received
    multi,         \* history: what the client has sent since MULTI
    globalTxMu,    \* who holds it
    failed, oom,   \* the log has failed; the store is over its limit
    ran            \* history: who carried out each write, and in which EXEC (0: none)

vars == <<authenticated, inTx, aborted, queue, subscriber, pc, at, owed, asked, multi,
          globalTxMu, failed, oom, ran>>

session == <<authenticated, inTx, aborted, queue, multi>>
exec == <<at, owed, globalTxMu>>
env == <<failed, oom>>

(***************************************************************************)
(* execute                                                                 *)
(***************************************************************************)
isWriteCmd(cmd) == cmd \in {"SET", "DEL"}
isMemoryGrowingCmd(cmd) == cmd = "SET"

\* The gates, in order.
Refused(cmd) ==
    \/ isMemoryGrowingCmd(cmd) /\ oom
    \/ Restored /\ isWriteCmd(cmd)
    \/ isWriteCmd(cmd) /\ failed

\* One element of the array, unless the command replies on the connection itself: the
\* hub's commands and PSYNC do.
Answered(c, cmd) ==
    IF inTx[c] /\ cmd \notin {"SUBSCRIBE", "PSYNC"} THEN [owed EXCEPT ![c] = @ - 1] ELSE owed

Advanced(c) == IF inTx[c] THEN [at EXCEPT ![c] = @ + 1] ELSE at

\* A write is logged and applied in a step of its own, after its gates.
execute(c, cmd) ==
    /\ IF isWriteCmd(cmd) /\ ~Refused(cmd)
       THEN pc' = [pc EXCEPT ![c] = "write"] /\ UNCHANGED <<at, owed, subscriber>>
       ELSE /\ at' = Advanced(c)
            /\ owed' = Answered(c, cmd)
            /\ subscriber' = IF cmd = "SUBSCRIBE" THEN subscriber \cup {c} ELSE subscriber
            /\ UNCHANGED pc
    /\ UNCHANGED <<session, globalTxMu, ran>>

Write(c) ==
    /\ pc[c] = "write"
    /\ ran' = Append(ran, [conn |-> c, exec |-> IF inTx[c] THEN asked[c] ELSE 0])
    /\ pc' = [pc EXCEPT ![c] = IF inTx[c] THEN "run" ELSE "idle"]
    /\ at' = Advanced(c)
    /\ owed' = Answered(c, "SET")
    /\ UNCHANGED <<session, subscriber, asked, globalTxMu, env>>

(***************************************************************************)
(* handle                                                                  *)
(***************************************************************************)
Auth(c, good) ==
    /\ authenticated' = IF good THEN authenticated \cup {c} ELSE authenticated
    /\ UNCHANGED <<inTx, aborted, queue, multi, subscriber, pc, exec, ran>>

\* In subscriber mode everything is the hub's, MULTI and EXEC too.
HandleSubscriberCommand(c, cmd) ==
    /\ subscriber' = IF cmd = "UNSUBSCRIBE" THEN subscriber \ {c} ELSE subscriber
    /\ UNCHANGED <<session, pc, exec, ran>>

Leave(c) ==
    /\ inTx' = [inTx EXCEPT ![c] = FALSE]
    /\ queue' = [queue EXCEPT ![c] = <<>>]

\* MULTI within MULTI starts anew.
Multi(c) ==
    /\ inTx' = [inTx EXCEPT ![c] = TRUE]
    /\ queue' = [queue EXCEPT ![c] = <<>>]
    /\ aborted' = [aborted EXCEPT ![c] = FALSE]
    /\ multi' = [multi EXCEPT ![c] = <<>>]
    /\ UNCHANGED <<authenticated, subscriber, pc, exec, ran>>

Discard(c) ==
    /\ IF inTx[c] THEN Leave(c) /\ aborted' = [aborted EXCEPT ![c] = FALSE]
       ELSE UNCHANGED <<inTx, queue, aborted>>
    /\ UNCHANGED <<authenticated, multi, subscriber, pc, exec, ran>>

\* EXEC: without MULTI an error; after a forbidden command EXECABORT; else the lock.
Exec(c) ==
    /\ IF inTx[c] /\ aborted[c]
       THEN Leave(c) /\ aborted' = [aborted EXCEPT ![c] = FALSE] /\ UNCHANGED pc
       ELSE /\ pc' = IF inTx[c] THEN [pc EXCEPT ![c] = "lock"] ELSE pc
            /\ UNCHANGED <<inTx, queue, aborted>>
    /\ UNCHANGED <<authenticated, multi, subscriber, exec, ran>>

\* Mutant: SUBSCRIBE may be queued.
forbiddenNever(cmd) == FALSE

forbiddenInTx(cmd) == cmd \in {"SUBSCRIBE", "UNSUBSCRIBE"}

\* Mutant: a command that is refused does not spoil the transaction.
QueuedOnly(c, cmd) ==
    /\ queue' = IF forbiddenInTx(cmd) THEN queue ELSE [queue EXCEPT ![c] = Append(@, cmd)]
    /\ UNCHANGED aborted

Queued(c, cmd) ==
    IF forbiddenInTx(cmd)
    THEN aborted' = [aborted EXCEPT ![c] = TRUE] /\ UNCHANGED queue
    ELSE queue' = [queue EXCEPT ![c] = Append(@, cmd)] /\ UNCHANGED aborted

queueTxCommand(c, cmd) ==
    /\ Queued(c, cmd)
    /\ multi' = [multi EXCEPT ![c] = Append(@, cmd)]
    /\ UNCHANGED <<authenticated, inTx, subscriber, pc, exec, ran>>

handle(c, cmd) ==
    /\ pc[c] = "idle"
    /\ asked[c] < MaxCommands
    /\ asked' = [asked EXCEPT ![c] = @ + 1]
    /\ CASE AuthEnabled /\ cmd \in {"AUTH", "BADAUTH"} -> Auth(c, cmd = "AUTH")
         [] AuthEnabled /\ c \notin authenticated /\ cmd \notin {"AUTH", "BADAUTH", "PING"} ->
              UNCHANGED <<session, subscriber, pc, exec, ran>>
         [] OTHER ->
              CASE c \in subscriber -> HandleSubscriberCommand(c, cmd)
                [] c \notin subscriber /\ cmd = "MULTI" -> Multi(c)
                [] c \notin subscriber /\ cmd = "DISCARD" -> Discard(c)
                [] c \notin subscriber /\ cmd = "EXEC" -> Exec(c)
                [] OTHER -> IF inTx[c] THEN queueTxCommand(c, cmd) ELSE execute(c, cmd)
    /\ UNCHANGED env

(***************************************************************************)
(* execQueuedTx                                                            *)
(***************************************************************************)
\* Mutant: nobody waits for another's EXEC.
LockFreeAlways == TRUE

LockFree == globalTxMu = NoConn

LockTx(c) ==
    /\ pc[c] = "lock"
    /\ LockFree
    /\ globalTxMu' = c
    /\ owed' = [owed EXCEPT ![c] = Len(queue[c])]
    /\ at' = [at EXCEPT ![c] = 0]
    /\ pc' = [pc EXCEPT ![c] = "run"]
    /\ UNCHANGED <<session, subscriber, asked, env, ran>>

RunQueued(c) ==
    /\ pc[c] = "run"
    /\ at[c] < Len(queue[c])
    /\ execute(c, queue[c][at[c] + 1])
    /\ UNCHANGED <<asked, env>>

EndTx(c) ==
    /\ pc[c] = "run"
    /\ at[c] = Len(queue[c])
    /\ globalTxMu' = NoConn
    /\ Leave(c)
    /\ pc' = [pc EXCEPT ![c] = "idle"]
    /\ UNCHANGED <<authenticated, aborted, multi, subscriber, at, owed, asked, env, ran>>

UnlockedByDefer(c) == IF globalTxMu = c THEN NoConn ELSE globalTxMu

\* A handler panics: serve recovers and closes the connection.
Panic(c) ==
    /\ pc[c] \in {"run", "write"}
    /\ pc' = [pc EXCEPT ![c] = "closed"]
    /\ globalTxMu' = UnlockedByDefer(c)
    /\ subscriber' = subscriber \ {c}
    /\ UNCHANGED <<session, at, owed, asked, env, ran>>

WalFails == ~failed /\ failed' = TRUE /\ UNCHANGED <<session, subscriber, pc, exec, asked, oom, ran>>
Memory == oom' = ~oom /\ UNCHANGED <<session, subscriber, pc, exec, asked, failed, ran>>

Init ==
    /\ authenticated = {} /\ subscriber = {}
    /\ inTx = [c \in Conns |-> FALSE] /\ aborted = [c \in Conns |-> FALSE]
    /\ queue = [c \in Conns |-> <<>>] /\ multi = [c \in Conns |-> <<>>]
    /\ pc = [c \in Conns |-> "idle"]
    /\ at = [c \in Conns |-> 0] /\ owed = [c \in Conns |-> 0] /\ asked = [c \in Conns |-> 0]
    /\ globalTxMu = NoConn
    /\ failed = FALSE /\ oom = FALSE
    /\ ran = <<>>

Next ==
    \/ \E c \in Conns :
         \/ \E cmd \in Commands : handle(c, cmd)
         \/ Write(c) \/ LockTx(c) \/ RunQueued(c) \/ EndTx(c) \/ Panic(c)
    \/ WalFails \/ Memory

Spec == Init /\ [][Next]_vars

(***************************************************************************)
(* Properties                                                              *)
(***************************************************************************)
\* Between two writes of one EXEC there is no write of another (dispatch.go:135-140).
\* Plain commands may come in between, by design.
ExecsDoNotMix ==
    \A i, j, k \in DOMAIN ran :
        (i < j /\ j < k /\ ran[i] = ran[k] /\ ran[j].exec > 0 /\ ran[i].exec > 0) => ran[j] = ran[i]

\* Nobody holds the lock but an EXEC that is running: one that panicked has left it.
LockIsLeft == globalTxMu # NoConn => inTx[globalTxMu] /\ pc[globalTxMu] \in {"run", "write"}

\* Two EXECs do not mix, and each leaves the lock that keeps them apart.
TxDoNotMix == ExecsDoNotMix /\ LockIsLeft

\* An EXEC writes as many replies as it announced, whatever was refused by a gate and
\* whatever the commands are: the client never takes one reply for another.
TxArrayComplete == \A c \in Conns : pc[c] = "idle" => owed[c] = 0

\* What an EXEC runs is what its client sent since MULTI, and nothing if a part of that
\* could not be queued; an EXEC that ends has come to the last of it.  A gate may refuse
\* one command and not the others, and a panic in a handler cuts an EXEC short.
TxRunsWhatWasSent ==
    [][\A c \in Conns : pc[c] = "run" =>
          /\ queue[c] = multi[c]
          /\ pc'[c] = "idle" => at[c] = Len(multi[c])]_vars
=============================================================================
