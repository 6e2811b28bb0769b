-------------------------------- MODULE ZSet --------------------------------
(***************************************************************************)
(* The registry of sorted sets (internal/store/zset/zset.go), one name of  *)
(* it: the name's entry is looked up first and locked then, and an entry   *)
(* that has been emptied is dead.  Memory is accounted for outside the     *)
(* lock.  The tree of an entry holds the items of its map: see BPTree.     *)
(***************************************************************************)
EXTENDS Integers, Sequences, FiniteSets

CONSTANTS
    Threads,
    Members,
    Scores,        \* positive numbers
    MaxCalls       \* bound: calls in all

None == 0
NoEntry == 0
setOverhead == 10  \* in units of memberOverhead

VARIABLES
    set,       \* sets[name]: an entry or NoEntry
    entries,   \* [scores, dead] of each entry that was made
    pc,        \* of each thread: "idle", "get", "lock" or "account"
    call,      \* its call: [op, member, score]
    at,        \* the entry that it has looked up
    delta,     \* what it will account for
    mem,       \* memory accounted for
    calls,     \* calls made
    abstract,  \* history: the set, if every call took effect under its lock
    possible,  \* history: scores that the member of a call had while it lasted
    answers    \* history: calls whose answer was none of these

vars == <<set, entries, pc, call, at, delta, mem, calls, abstract, possible, answers>>

Empty == [m \in Members |-> None]
Card(scores) == Cardinality({m \in Members : scores[m] # None})
Goto(t, where) == pc' = [pc EXCEPT ![t] = where]

\* The abstract set becomes s, which every call under way may see.
Becomes(s) ==
    /\ abstract' = s
    /\ possible' = [t \in Threads |->
                      IF pc[t] = "idle" THEN {} ELSE possible[t] \cup {s[call[t].member]}]

\* A call found its member with the score s.
Answer(t, s) == answers' = IF s \in possible[t] THEN answers ELSE answers \cup {t}

Begin(t, c) ==
    /\ pc[t] = "idle"
    /\ calls < MaxCalls
    /\ calls' = calls + 1
    /\ call' = [call EXCEPT ![t] = c]
    /\ possible' = [possible EXCEPT ![t] = {abstract[c.member]}]
    /\ Goto(t, "get")
    /\ UNCHANGED <<set, entries, at, delta, mem, abstract, answers>>

\* getOrCreate: LoadOrStore, and who has stored the entry accounts for it.
GetOrCreate(t) ==
    /\ pc[t] = "get" /\ call[t].op = "ZADD"
    /\ IF set # NoEntry
       THEN at' = [at EXCEPT ![t] = set] /\ UNCHANGED <<set, entries, mem>>
       ELSE /\ entries' = Append(entries, [scores |-> Empty, dead |-> FALSE])
            /\ set' = Len(entries) + 1
            /\ at' = [at EXCEPT ![t] = set']
            /\ mem' = mem + setOverhead
    /\ Goto(t, "lock")
    /\ UNCHANGED <<call, delta, calls, abstract, possible, answers>>

Get(t) ==
    /\ pc[t] = "get" /\ call[t].op # "ZADD"
    /\ IF set = NoEntry THEN Answer(t, None) /\ Goto(t, "idle") /\ UNCHANGED at
       ELSE at' = [at EXCEPT ![t] = set] /\ Goto(t, "lock") /\ UNCHANGED answers
    /\ UNCHANGED <<set, entries, call, delta, mem, calls, abstract, possible>>

\* Mutant: an entry that was emptied meanwhile is used.
IsDeadNever(e) == FALSE

IsDead(e) == entries[e].dead

\* ZAdd under the entry's lock; a dead entry sends it back.
ZAdd(t) ==
    /\ pc[t] = "lock" /\ call[t].op = "ZADD"
    /\ LET e == at[t]
           m == call[t].member
           old == entries[e].scores[m]
       IN  IF IsDead(e)
           THEN Goto(t, "get") /\ UNCHANGED <<entries, delta, abstract, possible>>
           ELSE /\ entries' = [entries EXCEPT ![e] = [scores |-> [@.scores EXCEPT ![m] = call[t].score], dead |-> FALSE]]
                /\ delta' = [delta EXCEPT ![t] = IF old = None THEN 1 ELSE 0]
                /\ Goto(t, "account")
                /\ Becomes([abstract EXCEPT ![m] = call[t].score])
    /\ UNCHANGED <<set, call, at, mem, calls, answers>>

\* CompareAndDelete.
Unlinked(e) == IF set = e THEN NoEntry ELSE set

\* ZRem under the entry's lock; who takes the last member kills the entry.
ZRem(t) ==
    /\ pc[t] = "lock" /\ call[t].op = "ZREM"
    /\ LET e == at[t]
           m == call[t].member
           left == [entries[e].scores EXCEPT ![m] = None]
       IN  /\ Answer(t, entries[e].scores[m])
           /\ IF entries[e].scores[m] = None
              THEN Goto(t, "idle") /\ UNCHANGED <<set, entries, delta, abstract, possible>>
              ELSE /\ entries' = [entries EXCEPT ![e] = [scores |-> left, dead |-> left = Empty]]
                   /\ set' = IF left = Empty THEN Unlinked(e) ELSE set
                   /\ delta' = [delta EXCEPT ![t] = -1 - (IF left = Empty THEN setOverhead ELSE 0)]
                   /\ Goto(t, "account")
                   /\ Becomes([abstract EXCEPT ![m] = None])
    /\ UNCHANGED <<call, at, mem, calls>>

ZScore(t) ==
    /\ pc[t] = "lock" /\ call[t].op = "ZSCORE"
    /\ Answer(t, entries[at[t]].scores[call[t].member])
    /\ Goto(t, "idle")
    /\ UNCHANGED <<set, entries, call, at, delta, mem, calls, abstract, possible>>

account(t) ==
    /\ pc[t] = "account"
    /\ mem' = mem + delta[t]
    /\ Goto(t, "idle")
    /\ UNCHANGED <<set, entries, call, at, delta, calls, abstract, possible, answers>>

Calls == [op : {"ZADD"}, member : Members, score : Scores]
         \cup [op : {"ZREM", "ZSCORE"}, member : Members, score : {None}]

Init ==
    /\ set = NoEntry /\ entries = <<>>
    /\ pc = [t \in Threads |-> "idle"] /\ at = [t \in Threads |-> NoEntry]
    /\ call = [t \in Threads |-> [op |-> "ZSCORE", member |-> CHOOSE m \in Members : TRUE, score |-> None]]
    /\ delta = [t \in Threads |-> 0]
    /\ mem = 0 /\ calls = 0
    /\ abstract = Empty /\ possible = [t \in Threads |-> {}] /\ answers = {}

Next ==
    \E t \in Threads :
        \/ \E c \in Calls : Begin(t, c)
        \/ GetOrCreate(t) \/ Get(t) \/ ZAdd(t) \/ ZRem(t) \/ ZScore(t) \/ account(t)

Spec == Init /\ [][Next]_vars

(***************************************************************************)
(* Properties                                                              *)
(***************************************************************************)
\* No ZADD is lost to an entry that has left the registry (zset.go:45-48): what the
\* name leads to is what the calls have made of it, in the order of their locks, and an
\* answer is what the member was at some moment of the call.
NothingLost ==
    /\ (IF set = NoEntry THEN Empty ELSE entries[set].scores) = abstract
    /\ answers = {}

\* When nobody is at it, the memory accounted for is that of the members, and of the set
\* if there is one: maxmemory neither leaks nor is given back twice.
MemoryExact ==
    (\A t \in Threads : pc[t] = "idle") =>
        mem = (IF set = NoEntry THEN 0 ELSE setOverhead + Card(entries[set].scores))

SetsLinear == NothingLost /\ MemoryExact
=============================================================================
