-------------------------------- MODULE Migrate --------------------------------
(***************************************************************************)
(* A slot moves from one node to another while clients use it              *)
(* (internal/cluster: SETSLOT and MIGRATE in migration.go, CheckKey and    *)
(* CheckKeyAsk in cluster.go, MigrateDelFunc and the others in             *)
(* cmd/kvstore/cluster_experimental.go).  The operator marks the slot at   *)
(* both nodes, migrates the keys that the source lists, again after an     *)
(* error, and gives the slot away when it lists none.                      *)
(*                                                                         *)
(* A remote command may fail before it is done or after it.                *)
(***************************************************************************)
EXTENDS Integers, FiniteSets

CONSTANTS
    Keys, Values, None,
    MaxWrites,    \* bound: writes of clients
    MaxFailures   \* bound: remote commands that fail

Source == "source"
Target == "target"
Nodes == {Source, Target}
Kinds == {"kv", "vec"}
Empty == [kind \in Kinds |-> [k \in Keys |-> None]]

VARIABLES
    data,      \* the two stores of each node
    owner,     \* SlotTable of each node, for the slot
    migrating, \* the source has it in Migrating
    importing, \* the target has it in Importing
    migrate,   \* MigrateKey: where it is, with which key and what it has read
    writes, failures,
    latest,    \* history: what the clients wrote last
    raced      \* history: keys that were written while they were under way

vars == <<data, owner, migrating, importing, migrate, writes, failures, latest, raced>>

Idle == [pc |-> "idle", key |-> None, value |-> None]

(***************************************************************************)
(* Routing                                                                 *)
(***************************************************************************)
\* CheckKey: nil, and not MOVED.
CheckKey(n) == owner[n] = n \/ (n = Target /\ importing)

\* Mutant: no ASK.
AskNever(kind, k) == FALSE

\* CheckKeyAsk, which only GET asks: the source has not got the key.
Asks(kind, k) == kind = "kv" /\ migrating /\ data[Source][kind][k] = None

\* What a client that starts at node n gets in the end.
Get(n, kind, k) ==
    LET at == IF ~CheckKey(n) THEN owner[n]
              ELSE IF n = Source /\ Asks(kind, k) THEN Target ELSE n
    IN  IF CheckKey(at) THEN data[at][kind][k] ELSE None

(***************************************************************************)
(* Clients                                                                 *)
(***************************************************************************)
\* The node at which a write of a client that starts at n is done.
Lands(n) == IF CheckKey(n) THEN n ELSE owner[n]

\* The write is done where the source's table leads, and MigrateKey is not at the key.
AtRest(n, k) == Lands(n) = owner[Source] /\ migrate.key # k

\* A string that comes back to the source after it has left, or a vector that no string
\* goes with, may be left behind.
SetIsSafe(n, kind, k) ==
    /\ AtRest(n, k)
    /\ migrating => data[Source]["kv"][k] # None
    /\ kind = "vec" => data[Lands(n)]["kv"][k] # None

\* The target may have a copy, which a deletion at the source leaves there.
DelIsSafe(n, k) == AtRest(n, k) /\ (Lands(n) = Target \/ data[Target]["kv"][k] = None)

Races(safe, k) == raced' = IF safe THEN raced ELSE raced \cup {k}

Set(n, kind, k, v) ==
    /\ writes < MaxWrites
    /\ CheckKey(Lands(n))
    /\ data' = [data EXCEPT ![Lands(n)][kind][k] = v]
    /\ latest' = [latest EXCEPT ![kind][k] = v]
    /\ Races(SetIsSafe(n, kind, k), k)
    /\ writes' = writes + 1
    /\ UNCHANGED <<owner, migrating, importing, migrate, failures>>

Del(n, k) ==
    /\ writes < MaxWrites
    /\ CheckKey(Lands(n))
    /\ data' = [data EXCEPT ![Lands(n)] = [kind \in Kinds |-> [@[kind] EXCEPT ![k] = None]]]
    /\ latest' = [kind \in Kinds |-> [latest[kind] EXCEPT ![k] = None]]
    /\ Races(DelIsSafe(n, k), k)
    /\ writes' = writes + 1
    /\ UNCHANGED <<owner, migrating, importing, migrate, failures>>

(***************************************************************************)
(* The operator                                                            *)
(***************************************************************************)
SetSlotImporting ==
    /\ owner[Target] = Source
    /\ importing' = TRUE
    /\ UNCHANGED <<data, owner, migrating, migrate, writes, failures, latest, raced>>

SetSlotMigrating ==
    /\ owner[Source] = Source
    /\ migrating' = TRUE
    /\ UNCHANGED <<data, owner, importing, migrate, writes, failures, latest, raced>>

\* GETKEYSINSLOT lists strings.
Listed == {k \in Keys : data[Source]["kv"][k] # None}

\* SETSLOT NODE, at the source and at the target.  The list that was empty may be old:
\* a key that has come since stays behind.
SetSlotNode(n) ==
    /\ (migrating /\ importing) \/ owner[Source] = Target \/ owner[Target] = Target
    /\ owner[n] = Source
    /\ migrate = Idle
    /\ Listed \subseteq raced
    /\ owner' = [owner EXCEPT ![n] = Target]
    /\ IF n = Source THEN migrating' = FALSE /\ UNCHANGED importing
                     ELSE importing' = FALSE /\ UNCHANGED migrating
    /\ UNCHANGED <<data, migrate, writes, failures, latest, raced>>

MigrateKey(k) ==
    /\ migrating
    /\ migrate = Idle
    /\ k \in Listed
    /\ migrate' = [pc |-> "kv", key |-> k, value |-> data[Source]["kv"][k]]
    /\ UNCHANGED <<data, owner, migrating, importing, writes, failures, latest, raced>>

OnError(kind) == "idle"

OnAnswer(kind) == IF kind = "kv" THEN "get" ELSE "del"

\* SendSetToNode and SendVectorToNode: done and answered, refused, or an error before
\* or after it is done.
Send(kind, done, ok) ==
    /\ migrate.pc = kind
    /\ done => CheckKey(Target)
    /\ ok => done
    /\ ~ok => failures < MaxFailures \/ ~CheckKey(Target)
    /\ failures' = IF ok \/ failures = MaxFailures THEN failures ELSE failures + 1
    /\ data' = IF done THEN [data EXCEPT ![Target][kind][migrate.key] = migrate.value] ELSE data
    /\ migrate' = LET pc == IF ok THEN OnAnswer(kind) ELSE OnError(kind)
                  IN  IF pc = "idle" THEN Idle ELSE [migrate EXCEPT !.pc = pc]
    /\ UNCHANGED <<owner, migrating, importing, writes, latest, raced>>

GetVec ==
    LET v == data[Source]["vec"][migrate.key] IN
    /\ migrate.pc = "get"
    /\ migrate' = [migrate EXCEPT !.pc = IF v = None THEN "del" ELSE "vec", !.value = v]
    /\ UNCHANGED <<data, owner, migrating, importing, writes, failures, latest, raced>>

\* MigrateDelFunc
MigrateDel ==
    /\ migrate.pc = "del"
    /\ data' = [data EXCEPT ![Source] = [kind \in Kinds |-> [@[kind] EXCEPT ![migrate.key] = None]]]
    /\ migrate' = Idle
    /\ UNCHANGED <<owner, migrating, importing, writes, failures, latest, raced>>

Init ==
    /\ data = [n \in Nodes |-> Empty] /\ latest = Empty
    /\ owner = [n \in Nodes |-> Source]
    /\ migrating = FALSE /\ importing = FALSE
    /\ migrate = Idle
    /\ writes = 0 /\ failures = 0 /\ raced = {}

Next ==
    \/ \E n \in Nodes, kind \in Kinds, k \in Keys, v \in Values : Set(n, kind, k, v)
    \/ \E n \in Nodes, k \in Keys : Del(n, k)
    \/ SetSlotImporting \/ SetSlotMigrating
    \/ \E n \in Nodes : SetSlotNode(n)
    \/ \E k \in Keys : MigrateKey(k)
    \/ \E kind \in Kinds, done, ok \in BOOLEAN : Send(kind, done, ok)
    \/ GetVec \/ MigrateDel

Spec == Init /\ [][Next]_vars

(***************************************************************************)
(* Properties                                                              *)
(***************************************************************************)
\* Whatever fails, and wherever the slot is on its way, a client that follows the
\* redirections reads the string that was written last, of every key but those that were
\* written while they were under way.
ReadsLatest == \A k \in Keys \ raced : Get(owner[Source], "kv", k) = latest["kv"][k]

\* No vector is lost: it is where the slot will be served, or the source has it yet.
VectorsSafe ==
    \A k \in Keys \ raced : LET v == latest["vec"][k] IN
        v # None => IF migrating \/ owner[Source] = Source
                    THEN v \in {data[Source]["vec"][k], data[Target]["vec"][k]}
                    ELSE v = data[Target]["vec"][k]
=============================================================================
