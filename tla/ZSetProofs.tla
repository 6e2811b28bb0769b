----------------------------- MODULE ZSetProofs -----------------------------
(***************************************************************************)
(* What ZSet promises, for any number of threads, members, scores and      *)
(* calls.  An entry is alive exactly while the name leads to it, and a     *)
(* dead one is empty: that is why a call which looked its entry up before  *)
(* the entry died gives a true answer, or starts again.  What is not yet   *)
(* accounted for is counted by the number of threads that still have to.   *)
(***************************************************************************)
EXTENDS ZSet, FiniteSetTheorems, TLAPS

\* A process has finitely many goroutines, a set finitely many members, and a score is
\* never the one that stands for "not there".
FiniteSystem == IsFiniteSet(Threads) /\ IsFiniteSet(Members) /\ None \notin Scores

Values == Scores \cup {None}
Entry == [scores : [Members -> Values], dead : BOOLEAN]
Deltas == {0, 1, -1, -1 - setOverhead}

TypeInv ==
    /\ entries \in Seq(Entry) /\ set \in 0..Len(entries)
    /\ pc \in [Threads -> {"idle", "get", "lock", "account"}]
    /\ DOMAIN call = Threads
    /\ \A t \in Threads : pc[t] # "idle" => call[t] \in Calls
    /\ at \in [Threads -> Nat] /\ \A t \in Threads : pc[t] = "lock" => at[t] \in DOMAIN entries
    /\ delta \in [Threads -> Deltas]
    /\ mem \in Int
    /\ DOMAIN possible = Threads

\* What the name leads to.
Current == IF set = NoEntry THEN Empty ELSE entries[set].scores

OneIsAlive ==
    /\ \A e \in DOMAIN entries : ~IsDead(e) <=> e = set
    /\ \A e \in DOMAIN entries : IsDead(e) => entries[e].scores = Empty

Linear ==
    /\ Current = abstract
    /\ answers = {}
    /\ \A t \in Threads : pc[t] \in {"get", "lock"} => abstract[call[t].member] \in possible[t]
    /\ \A t \in Threads : pc[t] = "lock" /\ IsDead(at[t]) => None \in possible[t]

Due(d) == {t \in Threads : pc[t] = "account" /\ delta[t] = d}

\* What is accounted for and what is still due is the memory of what is there.
Weight == IF set = NoEntry THEN 0 ELSE setOverhead + Card(entries[set].scores)

Balanced ==
    mem + Cardinality(Due(1)) - Cardinality(Due(-1)) - (1 + setOverhead) * Cardinality(Due(-1 - setOverhead))
        = Weight

IInv == TypeInv /\ OneIsAlive /\ Linear /\ Balanced

(***************************************************************************)
(* Counting                                                                *)
(***************************************************************************)
LEMMA DueFinite ==
    ASSUME FiniteSystem, NEW d
    PROVE  IsFiniteSet(Due(d)) /\ Cardinality(Due(d)) \in Nat
<1>1. Due(d) \in SUBSET Threads
  BY DEF Due
<1>2. QED
  BY <1>1, FS_Subset, FS_CardinalityType DEF FiniteSystem

\* A call has taken effect and is still to be accounted for.
LEMMA DueGrows ==
    ASSUME FiniteSystem, TypeInv, NEW t \in Threads, NEW new \in Deltas, pc[t] # "account",
           pc' = [pc EXCEPT ![t] = "account"], delta' = [delta EXCEPT ![t] = new], NEW d \in Deltas
    PROVE  Cardinality(Due(d)') = Cardinality(Due(d)) + (IF d = new THEN 1 ELSE 0)
<1>1. Due(d)' = IF d = new THEN Due(d) \cup {t} ELSE Due(d)
  BY DEF Due, TypeInv
<1>2. t \notin Due(d)
  BY DEF Due
<1>3. IsFiniteSet(Due(d)) /\ Cardinality(Due(d)) \in Nat
  BY DueFinite
<1>4. CASE d = new
  <2>1. Cardinality(Due(d) \cup {t}) = Cardinality(Due(d)) + 1
    BY <1>2, <1>3, FS_AddElement
  <2> QED
    BY <1>1, <1>4, <2>1
<1>5. CASE d # new
  BY <1>1, <1>3, <1>5
<1> QED
  BY <1>4, <1>5

LEMMA DueShrinks ==
    ASSUME FiniteSystem, TypeInv, NEW t \in Threads, pc[t] = "account",
           pc' = [pc EXCEPT ![t] = "idle"], delta' = delta, NEW d \in Deltas
    PROVE  Cardinality(Due(d)') = Cardinality(Due(d)) - (IF d = delta[t] THEN 1 ELSE 0)
<1>1. Due(d)' = IF d = delta[t] THEN Due(d) \ {t} ELSE Due(d)
  BY DEF Due, TypeInv
<1>2. d = delta[t] => t \in Due(d)
  BY DEF Due
<1>3. IsFiniteSet(Due(d)) /\ Cardinality(Due(d)) \in Nat
  BY DueFinite
<1>4. CASE d = delta[t]
  <2>1. Cardinality(Due(d) \ {t}) = Cardinality(Due(d)) - 1
    BY <1>2, <1>3, <1>4, FS_RemoveElement
  <2> QED
    BY <1>1, <1>4, <2>1
<1>5. CASE d # delta[t]
  BY <1>1, <1>3, <1>5
<1> QED
  BY <1>4, <1>5

\* A step of a thread that has nothing to account for, before it and after it.
LEMMA DueStays ==
    ASSUME TypeInv, NEW t \in Threads, NEW where \in {"idle", "get", "lock"}, pc[t] # "account",
           pc' = [pc EXCEPT ![t] = where], delta' = delta, NEW d
    PROVE  Due(d)' = Due(d)
  BY DEF Due, TypeInv

LEMMA CardEmpty == Card(Empty) = 0
<1>1. {m \in Members : Empty[m] # None} = {}
  BY DEF Empty
<1>2. QED
  BY <1>1, FS_EmptySet DEF Card

LEMMA CardSet ==
    ASSUME FiniteSystem, NEW f \in [Members -> Values], NEW m \in Members, NEW v \in Values
    PROVE  /\ Card(f) \in Nat
           /\ Card([f EXCEPT ![m] = v]) =
                Card(f) + (IF f[m] = None /\ v # None THEN 1 ELSE 0) - (IF f[m] # None /\ v = None THEN 1 ELSE 0)
<1> DEFINE S == {n \in Members : f[n] # None}
           T == {n \in Members : [f EXCEPT ![m] = v][n] # None}
<1>1. IsFiniteSet(S) /\ Cardinality(S) \in Nat
  <2>1. S \in SUBSET Members
    OBVIOUS
  <2>2. QED
    BY <2>1, FS_Subset, FS_CardinalityType DEF FiniteSystem
<1>2. T = IF v = None THEN S \ {m} ELSE S \cup {m}
  OBVIOUS
<1>3. m \in S <=> f[m] # None
  OBVIOUS
<1>4. /\ Cardinality(S \cup {m}) = IF m \in S THEN Cardinality(S) ELSE Cardinality(S) + 1
      /\ Cardinality(S \ {m}) = IF m \in S THEN Cardinality(S) - 1 ELSE Cardinality(S)
  BY <1>1, FS_AddElement, FS_RemoveElement
<1>5. Card(f) = Cardinality(S) /\ Card([f EXCEPT ![m] = v]) = Cardinality(T)
  BY DEF Card
<1> HIDE DEF S, T
<1>6. QED
  BY <1>1, <1>2, <1>3, <1>4, <1>5

LEMMA EntryTyped ==
    ASSUME TypeInv, NEW e \in DOMAIN entries
    PROVE  entries[e] \in Entry /\ entries[e].scores \in [Members -> Values] /\ e \in 1..Len(entries)
<1>1. entries \in Seq(Entry) /\ e \in 1..Len(entries)
  BY DEF TypeInv
<1>2. entries[e] \in Entry
  BY <1>1
<1>3. QED
  BY <1>1, <1>2 DEF Entry

\* What an entry that is alive holds is the abstract set.
LEMMA AliveIsCurrent ==
    ASSUME TypeInv, OneIsAlive, Linear, NEW e \in DOMAIN entries, ~IsDead(e)
    PROVE  e = set /\ set # NoEntry /\ Current = entries[e].scores /\ abstract = entries[e].scores
<1>1. e \in 1..Len(entries) /\ e = set
  BY EntryTyped DEF OneIsAlive
<1>2. e # NoEntry
  BY <1>1 DEF NoEntry
<1>3. QED
  BY <1>1, <1>2 DEF Current, Linear

(***************************************************************************)
(* The calls                                                               *)
(***************************************************************************)
LEMMA BeginStep ==
    ASSUME FiniteSystem, IInv, NEW t \in Threads, NEW c \in Calls, Begin(t, c)
    PROVE  IInv'
<1>t. TypeInv
  BY DEF IInv
<1>0. /\ pc[t] = "idle" /\ call' = [call EXCEPT ![t] = c] /\ pc' = [pc EXCEPT ![t] = "get"]
      /\ possible' = [possible EXCEPT ![t] = {abstract[c.member]}]
      /\ UNCHANGED <<set, entries, at, delta, mem, abstract, answers>>
  BY DEF Begin, Goto
<1>1. TypeInv'
  BY <1>0, <1>t DEF TypeInv
<1>2. OneIsAlive'
  BY <1>0 DEF IInv, OneIsAlive, IsDead
<1>3. Linear'
  BY <1>0, <1>t DEF IInv, TypeInv, Linear, Current, IsDead
<1>4. Balanced'
  <2>1. \A d : Due(d)' = Due(d)
    BY <1>0, <1>t, DueStays
  <2>2. QED
    BY <1>0, <2>1 DEF IInv, Balanced, Weight
<1>5. QED
  BY <1>1, <1>2, <1>3, <1>4 DEF IInv

\* Looking an entry up, when there is one.
LEMMA LookUp ==
    ASSUME IInv, NEW t \in Threads, pc[t] = "get", set # NoEntry,
           at' = [at EXCEPT ![t] = set], pc' = [pc EXCEPT ![t] = "lock"],
           UNCHANGED <<set, entries, call, delta, mem, abstract, possible, answers>>
    PROVE  IInv'
<1>t. TypeInv
  BY DEF IInv
<1>0. set \in DOMAIN entries /\ set \in Nat /\ ~IsDead(set)
  BY <1>t DEF TypeInv, NoEntry, IInv, OneIsAlive
<1>1. TypeInv'
  BY <1>0, <1>t DEF TypeInv
<1>2. OneIsAlive'
  BY DEF IInv, OneIsAlive, IsDead
<1>3. Linear'
  BY <1>0, <1>t DEF IInv, TypeInv, Linear, Current, IsDead
<1>4. Balanced'
  <2>1. \A d : Due(d)' = Due(d)
    BY <1>t, DueStays
  <2>2. QED
    BY <2>1 DEF IInv, Balanced, Weight
<1>5. QED
  BY <1>1, <1>2, <1>3, <1>4 DEF IInv

LEMMA GetOrCreateStep ==
    ASSUME FiniteSystem, IInv, NEW t \in Threads, GetOrCreate(t)
    PROVE  IInv'
<1>t. TypeInv
  BY DEF IInv
<1>1. CASE set # NoEntry
  BY <1>1, LookUp DEF GetOrCreate, Goto
<1>2. CASE set = NoEntry
  <2> DEFINE new == [scores |-> Empty, dead |-> FALSE]
             n == Len(entries) + 1
  <2>0. /\ pc[t] = "get" /\ entries' = Append(entries, new) /\ set' = n
        /\ at' = [at EXCEPT ![t] = n] /\ mem' = mem + setOverhead /\ pc' = [pc EXCEPT ![t] = "lock"]
        /\ UNCHANGED <<call, delta, abstract, possible, answers>>
    BY <1>2 DEF GetOrCreate, Goto
  <2>1. new \in Entry
    BY DEF Entry, Empty, Values
  <2>2. /\ entries \in Seq(Entry) /\ entries' \in Seq(Entry) /\ Len(entries) \in Nat
        /\ DOMAIN entries = 1..Len(entries) /\ DOMAIN entries' = 1..n
        /\ \A e \in DOMAIN entries : entries'[e] = entries[e]
        /\ entries'[n] = new
    BY <2>0, <2>1, <1>t DEF TypeInv
  <2>3. Len(entries') = n
    BY <2>0, <2>2
  <2>4. TypeInv'
    BY <2>0, <2>2, <2>3, <1>t DEF TypeInv, setOverhead
  <2>5. OneIsAlive'
    <3>1. \A e \in DOMAIN entries : IsDead(e) /\ entries[e].scores = Empty
      BY <1>2, <2>2 DEF IInv, OneIsAlive, NoEntry
    <3>2. \A e \in DOMAIN entries : entries'[e].dead
      BY <3>1, <2>2 DEF IsDead
    <3>3. \A e \in DOMAIN entries' : ~entries'[e].dead <=> e = n
      BY <3>2, <2>2
    <3>4. \A e \in DOMAIN entries' : entries'[e].dead => entries'[e].scores = Empty
      BY <3>1, <2>2
    <3>5. QED
      BY <2>0, <3>3, <3>4 DEF OneIsAlive, IsDead
  <2>6. Linear'
    <3>1. Current = Empty /\ Current' = Empty
      BY <1>2, <2>0, <2>2 DEF Current, NoEntry
    <3>2. \A u \in Threads : pc'[u] = "lock" /\ u # t => pc[u] = "lock" /\ at'[u] = at[u] /\ at[u] \in DOMAIN entries
      BY <2>0, <1>t DEF TypeInv
    <3>3. at'[t] = n /\ ~entries'[n].dead
      BY <2>0, <2>2, <1>t DEF TypeInv
    <3>4. \A u \in Threads : pc'[u] \in {"get", "lock"} => pc[u] \in {"get", "lock"}
      BY <2>0, <1>t DEF TypeInv
    <3>5. \A u \in Threads : pc'[u] = "lock" /\ entries'[at'[u]].dead => None \in possible[u]
      BY <3>2, <3>3, <2>2 DEF IInv, Linear, IsDead
    <3>6. QED
      BY <2>0, <3>1, <3>4, <3>5 DEF IInv, Linear, IsDead
  <2>7. Balanced'
    <3>1. Weight = 0 /\ Weight' = setOverhead
      BY <1>2, <2>0, <2>2, CardEmpty DEF Weight, NoEntry, setOverhead
    <3>2. \A d : Due(d)' = Due(d)
      BY <2>0, <1>t, DueStays
    <3>3. mem \in Int /\ Cardinality(Due(1)) \in Nat /\ Cardinality(Due(-1)) \in Nat
          /\ Cardinality(Due(-1 - setOverhead)) \in Nat /\ setOverhead \in Nat
      BY <1>t, DueFinite DEF TypeInv, setOverhead
    <3>4. QED
      BY <2>0, <3>1, <3>2, <3>3 DEF IInv, Balanced
  <2>8. QED
    BY <2>4, <2>5, <2>6, <2>7 DEF IInv
<1>3. QED
  BY <1>1, <1>2

\* A call that finds nothing to change and answers what was true while it lasted, or
\* starts again.
LEMMA NoEffect ==
    ASSUME IInv, NEW t \in Threads, pc[t] \in {"get", "lock"}, NEW where \in {"idle", "get"},
           pc' = [pc EXCEPT ![t] = where],
           UNCHANGED <<set, entries, call, at, delta, mem, abstract, possible, answers>>
    PROVE  IInv'
<1>t. TypeInv
  BY DEF IInv
<1>1. TypeInv'
  BY <1>t DEF TypeInv
<1>2. OneIsAlive'
  BY DEF IInv, OneIsAlive, IsDead
<1>3. Linear'
  BY <1>t DEF IInv, TypeInv, Linear, Current, IsDead
<1>4. Balanced'
  <2>1. \A d : Due(d)' = Due(d)
    BY <1>t, DueStays
  <2>2. QED
    BY <2>1 DEF IInv, Balanced, Weight
<1>5. QED
  BY <1>1, <1>2, <1>3, <1>4 DEF IInv

LEMMA GetStep ==
    ASSUME IInv, NEW t \in Threads, Get(t)
    PROVE  IInv'
<1>t. TypeInv
  BY DEF IInv
<1>1. CASE set # NoEntry
  BY <1>1, LookUp DEF Get, Goto
<1>2. CASE set = NoEntry
  <2>1. pc[t] = "get" /\ call[t] \in Calls
    BY <1>t DEF Get, TypeInv
  <2>2. call[t].member \in Members
    BY <2>1 DEF Calls
  <2>3. abstract = Empty /\ abstract[call[t].member] \in possible[t]
    BY <1>2, <2>1 DEF IInv, Linear, Current
  <2>4. None \in possible[t]
    BY <2>2, <2>3 DEF Empty
  <2>5. answers' = answers /\ pc' = [pc EXCEPT ![t] = "idle"] /\ UNCHANGED <<set, entries, call, at, delta, mem, abstract, possible>>
    BY <1>2, <2>4 DEF Get, Answer, Goto
  <2>6. QED
    BY <2>1, <2>5, NoEffect
<1>3. QED
  BY <1>1, <1>2

\* What a call finds in the entry that it has locked was true while it lasted: in a dead
\* entry there is nothing, and the call saw it die.
LEMMA FoundIsPossible ==
    ASSUME IInv, NEW t \in Threads, pc[t] = "lock"
    PROVE  /\ at[t] \in DOMAIN entries /\ call[t] \in Calls /\ call[t].member \in Members
           /\ entries[at[t]].scores[call[t].member] \in possible[t]
           /\ entries[at[t]].scores[call[t].member] # None => ~IsDead(at[t])
<1>1. at[t] \in DOMAIN entries /\ call[t] \in Calls
  BY DEF IInv, TypeInv
<1>2. call[t].member \in Members
  BY <1>1 DEF Calls
<1>3. CASE IsDead(at[t])
  <2>1. entries[at[t]].scores = Empty /\ None \in possible[t]
    BY <1>1, <1>3 DEF IInv, OneIsAlive, Linear
  <2>2. QED
    BY <1>1, <1>2, <2>1 DEF Empty
<1>4. CASE ~IsDead(at[t])
  <2>1. abstract = entries[at[t]].scores
    BY <1>1, <1>4, AliveIsCurrent DEF IInv
  <2>2. abstract[call[t].member] \in possible[t]
    BY DEF IInv, Linear
  <2>3. QED
    BY <1>1, <1>2, <1>4, <2>1, <2>2
<1>5. QED
  BY <1>3, <1>4

LEMMA ZScoreStep ==
    ASSUME IInv, NEW t \in Threads, ZScore(t)
    PROVE  IInv'
<1>1. pc[t] = "lock"
  BY DEF ZScore
<1>2. answers' = answers
  BY <1>1, FoundIsPossible DEF ZScore, Answer
<1>3. QED
  BY <1>1, <1>2, NoEffect DEF ZScore, Goto

(***************************************************************************)
(* The calls that change something                                         *)
(***************************************************************************)
\* A call that takes effect does so on the entry that is alive, which has become left.
TakesEffect(t, m, v, kills) ==
    LET e == at[t]
        left == [entries[e].scores EXCEPT ![m] = v]
        old == entries[e].scores[m]
    IN  /\ entries' = [entries EXCEPT ![e] = [scores |-> left, dead |-> kills]]
        /\ set' = IF kills THEN Unlinked(e) ELSE set
        /\ kills => left = Empty
        /\ delta' = [delta EXCEPT ![t] = (IF old = None THEN 1 ELSE 0) - (IF v = None THEN 1 ELSE 0)
                                         - (IF kills THEN setOverhead ELSE 0)]
        /\ v = None => old # None
        /\ kills => v = None
        /\ pc' = [pc EXCEPT ![t] = "account"]
        /\ Becomes([abstract EXCEPT ![m] = v])
        /\ UNCHANGED <<call, at, mem, answers>>

LEMMA EffectStep ==
    ASSUME FiniteSystem, IInv, NEW t \in Threads, pc[t] = "lock", ~IsDead(at[t]),
           NEW m \in Members, NEW v \in Values, NEW kills \in BOOLEAN, TakesEffect(t, m, v, kills)
    PROVE  IInv'
<1> DEFINE e == at[t]
           f == entries[e].scores
           left == [f EXCEPT ![m] = v]
           new == [scores |-> left, dead |-> kills]
<1>t. TypeInv
  BY DEF IInv
<1>e. e \in DOMAIN entries /\ e = set /\ set # NoEntry /\ Current = f /\ abstract = f
      /\ f \in [Members -> Values] /\ e \in 1..Len(entries) /\ Len(entries) \in Nat
  BY AliveIsCurrent, EntryTyped DEF IInv, TypeInv
<1>d. delta'[t] \in Deltas /\ delta'[t] = (IF f[m] = None THEN 1 ELSE 0) - (IF v = None THEN 1 ELSE 0)
                                          - (IF kills THEN setOverhead ELSE 0)
      /\ delta' = [delta EXCEPT ![t] = delta'[t]]
  <2>1. delta' = [delta EXCEPT ![t] = (IF f[m] = None THEN 1 ELSE 0) - (IF v = None THEN 1 ELSE 0)
                                          - (IF kills THEN setOverhead ELSE 0)]
    BY DEF TakesEffect
  <2>2. (v = None => f[m] # None) /\ (kills => v = None)
    BY DEF TakesEffect
  <2>3. delta \in [Threads -> Deltas]
    BY <1>t DEF TypeInv
  <2>4. QED
    BY <2>1, <2>2, <2>3 DEF Deltas, setOverhead
<1>0. /\ entries' = [entries EXCEPT ![e] = new]
      /\ set' = IF kills THEN NoEntry ELSE set
      /\ kills => left = Empty /\ v = None
      /\ v = None => f[m] # None
      /\ pc' = [pc EXCEPT ![t] = "account"]
      /\ abstract' = left
      /\ possible' = [u \in Threads |-> IF pc[u] = "idle" THEN {} ELSE possible[u] \cup {left[call[u].member]}]
      /\ UNCHANGED <<call, at, mem, answers>>
  BY <1>e DEF TakesEffect, Becomes, Unlinked
<1>n. left \in [Members -> Values] /\ new \in Entry
  BY <1>e DEF Entry
<1>r. /\ entries' \in Seq(Entry) /\ Len(entries') = Len(entries)
      /\ DOMAIN entries = 1..Len(entries) /\ DOMAIN entries' = DOMAIN entries
      /\ entries'[e] = new /\ \A i \in DOMAIN entries \ {e} : entries'[i] = entries[i]
  BY <1>0, <1>e, <1>n, <1>t DEF TypeInv
<1> HIDE DEF e, f, left, new
<1>1. TypeInv'
  BY <1>0, <1>d, <1>e, <1>r, <1>t DEF TypeInv, NoEntry
<1>2. OneIsAlive'
  <2>1. \A i \in DOMAIN entries : IsDead(i) <=> i # e
    BY <1>e DEF IInv, OneIsAlive
  <2>2. \A i \in DOMAIN entries \ {e} : entries'[i].dead /\ entries'[i].scores = Empty
    BY <1>r, <2>1 DEF IInv, OneIsAlive, IsDead
  <2>3. entries'[e].dead = kills /\ entries'[e].scores = left
    BY <1>r DEF new
  <2>4. set' = IF kills THEN NoEntry ELSE e
    BY <1>0, <1>e
  <2>5. NoEntry \notin DOMAIN entries
    BY <1>r DEF NoEntry
  <2>6. QED
    BY <1>0, <1>r, <2>2, <2>3, <2>4, <2>5 DEF OneIsAlive, IsDead
<1>3. Linear'
  <2>1. Current' = abstract'
    BY <1>0, <1>e, <1>r DEF Current, new
  <2>2. \A u \in Threads : pc'[u] \in {"get", "lock"} =>
            pc[u] = pc'[u] /\ left[call[u].member] \in possible'[u] /\ possible[u] \subseteq possible'[u]
    BY <1>0, <1>t DEF TypeInv
  <2>3. ASSUME NEW u \in Threads, pc'[u] = "lock", entries'[at[u]].dead
        PROVE  None \in possible'[u]
    <3>1. pc[u] = "lock" /\ at[u] \in DOMAIN entries /\ call[u] \in Calls
      BY <2>2, <2>3, <1>t DEF TypeInv
    <3>2. call[u].member \in Members
      BY <3>1 DEF Calls
    <3>3. CASE at[u] = e
      BY <1>0, <1>r, <2>2, <2>3, <3>2, <3>3 DEF new, Empty
    <3>4. CASE at[u] # e
      BY <1>r, <2>2, <2>3, <3>1, <3>4 DEF IInv, Linear, IsDead
    <3>5. QED
      BY <3>3, <3>4
  <2>4. QED
    BY <1>0, <2>1, <2>2, <2>3 DEF IInv, Linear, IsDead
<1>4. Balanced'
  <2>1. \A d \in Deltas : /\ Cardinality(Due(d)') = Cardinality(Due(d)) + (IF d = delta'[t] THEN 1 ELSE 0)
                          /\ Cardinality(Due(d)) \in Nat
    BY <1>0, <1>d, <1>t, DueGrows, DueFinite
  <2>2. /\ Card(f) \in Nat
        /\ Card(left) = Card(f) + (IF f[m] = None /\ v # None THEN 1 ELSE 0) - (IF f[m] # None /\ v = None THEN 1 ELSE 0)
    BY <1>e, CardSet DEF left
  <2>3. Weight = setOverhead + Card(f)
    BY <1>e DEF Weight, f
  <2>4. Weight' = IF kills THEN 0 ELSE setOverhead + Card(left)
    BY <1>0, <1>e, <1>r DEF Weight, new
  <2>5. kills => Card(left) = 0
    BY <1>0, CardEmpty
  <2>6. Weight' = Weight + delta'[t]
    BY <1>0, <1>d, <2>2, <2>3, <2>4, <2>5 DEF setOverhead
  <2>7. mem' = mem /\ mem \in Int /\ delta'[t] \in Deltas /\ Weight \in Int
    BY <1>0, <1>d, <1>t, <2>2, <2>3 DEF TypeInv, setOverhead
  <2>8. QED
    BY <2>1, <2>6, <2>7 DEF IInv, Balanced, Deltas, setOverhead
<1>5. QED
  BY <1>1, <1>2, <1>3, <1>4 DEF IInv

LEMMA ZAddStep ==
    ASSUME FiniteSystem, IInv, NEW t \in Threads, ZAdd(t)
    PROVE  IInv'
<1>0. pc[t] = "lock" /\ call[t].op = "ZADD"
  BY DEF ZAdd
<1>1. CASE IsDead(at[t])
  BY <1>0, <1>1, NoEffect DEF ZAdd, Goto
<1>2. CASE ~IsDead(at[t])
  <2>1. call[t] \in Calls /\ at[t] \in DOMAIN entries
    BY <1>0, FoundIsPossible
  <2>2. call[t].member \in Members /\ call[t].score \in Scores
    BY <1>0, <2>1 DEF Calls
  <2>3. call[t].score # None /\ call[t].score \in Values
    BY <2>2 DEF FiniteSystem, Values
  <2>4. TakesEffect(t, call[t].member, call[t].score, FALSE)
    BY <1>0, <1>2, <2>3 DEF ZAdd, TakesEffect, Goto
  <2>5. QED
    BY <1>0, <1>2, <2>2, <2>3, <2>4, EffectStep
<1>3. QED
  BY <1>1, <1>2

LEMMA ZRemStep ==
    ASSUME FiniteSystem, IInv, NEW t \in Threads, ZRem(t)
    PROVE  IInv'
<1> DEFINE m == call[t].member
           old == entries[at[t]].scores[m]
<1>0. pc[t] = "lock" /\ m \in Members /\ old \in possible[t] /\ (old # None => ~IsDead(at[t]))
  BY FoundIsPossible DEF ZRem
<1>a. answers' = answers
  BY <1>0 DEF ZRem, Answer
<1>1. CASE old = None
  BY <1>0, <1>1, <1>a, NoEffect DEF ZRem, Goto
<1>2. CASE old # None
  <2> DEFINE left == [entries[at[t]].scores EXCEPT ![m] = None]
             kills == left = Empty
  <2>1. kills \in BOOLEAN /\ None \in Values
    BY DEF Values
  <2>2. TakesEffect(t, m, None, kills)
    <3>1. /\ entries' = [entries EXCEPT ![at[t]] = [scores |-> left, dead |-> kills]]
          /\ set' = IF kills THEN Unlinked(at[t]) ELSE set
          /\ delta' = [delta EXCEPT ![t] = -1 - (IF kills THEN setOverhead ELSE 0)]
          /\ pc' = [pc EXCEPT ![t] = "account"]
          /\ Becomes([abstract EXCEPT ![m] = None])
          /\ UNCHANGED <<call, at, mem>>
      BY <1>2, Zenon DEF ZRem, Goto
    <3>2. (IF old = None THEN 1 ELSE 0) - (IF None = None THEN 1 ELSE 0) = -1
      BY <1>2
    <3>3. delta' = [delta EXCEPT ![t] = (IF old = None THEN 1 ELSE 0) - (IF None = None THEN 1 ELSE 0)
                                          - (IF kills THEN setOverhead ELSE 0)]
      BY <3>1, <3>2
    <3>4. kills => left = Empty
      OBVIOUS
    <3> HIDE DEF kills, left
    <3>5. /\ entries' = [entries EXCEPT ![at[t]] = [scores |-> [entries[at[t]].scores EXCEPT ![m] = None],
                                                    dead |-> kills]]
          /\ kills => [entries[at[t]].scores EXCEPT ![m] = None] = Empty
      BY <3>1, <3>4 DEF left
    <3> QED
      BY <1>2, <1>a, <3>1, <3>3, <3>5 DEF TakesEffect
  <2> HIDE DEF kills
  <2>3. QED
    BY <1>0, <1>2, <2>1, <2>2, EffectStep
<1>3. QED
  BY <1>1, <1>2

LEMMA AccountStep ==
    ASSUME FiniteSystem, IInv, NEW t \in Threads, account(t)
    PROVE  IInv'
<1>t. TypeInv
  BY DEF IInv
<1>0. /\ pc[t] = "account" /\ mem' = mem + delta[t] /\ pc' = [pc EXCEPT ![t] = "idle"]
      /\ UNCHANGED <<set, entries, call, at, delta, abstract, possible, answers>>
  BY DEF account, Goto
<1>1. TypeInv'
  BY <1>0, <1>t DEF TypeInv, Deltas, setOverhead
<1>2. OneIsAlive'
  BY <1>0 DEF IInv, OneIsAlive, IsDead
<1>3. Linear'
  BY <1>0, <1>t DEF IInv, TypeInv, Linear, Current, IsDead
<1>4. Balanced'
  <2>1. \A d \in Deltas : /\ Cardinality(Due(d)') = Cardinality(Due(d)) - (IF d = delta[t] THEN 1 ELSE 0)
                          /\ Cardinality(Due(d)) \in Nat
    BY <1>0, <1>t, DueShrinks, DueFinite
  <2>2. Weight' = Weight
    BY <1>0 DEF Weight
  <2>3. delta[t] \in Deltas /\ mem \in Int
    BY <1>t DEF TypeInv
  <2>4. QED
    BY <1>0, <2>1, <2>2, <2>3 DEF IInv, Balanced, Deltas, setOverhead
<1>5. QED
  BY <1>1, <1>2, <1>3, <1>4 DEF IInv

(***************************************************************************)
(* The theorem                                                             *)
(***************************************************************************)
LEMMA InitIInv == FiniteSystem /\ Init => IInv
<1> SUFFICES ASSUME FiniteSystem, Init PROVE IInv
  OBVIOUS
<1>1. TypeInv
  BY DEF Init, TypeInv, Deltas, NoEntry
<1>2. OneIsAlive
  BY DEF Init, OneIsAlive
<1>3. Linear
  BY DEF Init, Linear, Current
<1>4. Balanced
  <2>1. \A d : Due(d) = {}
    BY DEF Init, Due
  <2>2. Cardinality(Due(1)) = 0 /\ Cardinality(Due(-1)) = 0 /\ Cardinality(Due(-1 - setOverhead)) = 0
    BY <2>1, FS_EmptySet
  <2>3. mem = 0 /\ Weight = 0 /\ setOverhead \in Nat
    BY DEF Init, Weight, setOverhead
  <2>4. QED
    BY <2>2, <2>3 DEF Balanced
<1>5. QED
  BY <1>1, <1>2, <1>3, <1>4 DEF IInv

LEMMA NextIInv == FiniteSystem /\ IInv /\ [Next]_vars => IInv'
<1> SUFFICES ASSUME FiniteSystem, IInv, [Next]_vars PROVE IInv'
  OBVIOUS
<1>1. ASSUME NEW t \in Threads, NEW c \in Calls, Begin(t, c) PROVE IInv'
  BY <1>1, BeginStep
<1>2. ASSUME NEW t \in Threads, GetOrCreate(t) PROVE IInv'
  BY <1>2, GetOrCreateStep
<1>3. ASSUME NEW t \in Threads, Get(t) PROVE IInv'
  BY <1>3, GetStep
<1>4. ASSUME NEW t \in Threads, ZAdd(t) PROVE IInv'
  BY <1>4, ZAddStep
<1>5. ASSUME NEW t \in Threads, ZRem(t) PROVE IInv'
  BY <1>5, ZRemStep
<1>6. ASSUME NEW t \in Threads, ZScore(t) PROVE IInv'
  BY <1>6, ZScoreStep
<1>7. ASSUME NEW t \in Threads, account(t) PROVE IInv'
  BY <1>7, AccountStep
<1>8. CASE UNCHANGED vars
  BY <1>8 DEF vars, IInv, TypeInv, OneIsAlive, Linear, Balanced, Current, Weight, IsDead, Due
<1>9. QED
  BY <1>1, <1>2, <1>3, <1>4, <1>5, <1>6, <1>7, <1>8 DEF Next

LEMMA InvariantHolds ==
    ASSUME FiniteSystem
    PROVE  Spec => []IInv
<1>1. Init => IInv
  BY InitIInv
<1>2. IInv /\ [Next]_vars => IInv'
  BY NextIInv
<1>3. QED
  BY <1>1, <1>2, PTL DEF Spec

LEMMA IInvImplies == FiniteSystem /\ IInv => SetsLinear
<1> SUFFICES ASSUME FiniteSystem, IInv PROVE SetsLinear
  OBVIOUS
<1>1. NothingLost
  BY DEF IInv, Linear, Current, NothingLost
<1>2. MemoryExact
  <2> SUFFICES ASSUME \A t \in Threads : pc[t] = "idle" PROVE mem = Weight
    BY DEF MemoryExact, Weight
  <2>1. \A d : Due(d) = {}
    BY DEF Due
  <2>2. mem \in Int
    BY DEF IInv, TypeInv
  <2>3. QED
    BY <2>1, <2>2, FS_EmptySet DEF IInv, Balanced, setOverhead
<1>3. QED
  BY <1>1, <1>2 DEF SetsLinear

\* The registry of sorted sets is linear and its memory exact: no ZADD goes to an entry
\* that has left the registry, every answer was true at some moment of its call, and
\* what is accounted for is what is there, for any number of threads (zset.go).
THEOREM SetsAreLinear ==
    ASSUME FiniteSystem
    PROVE  Spec => []SetsLinear
<1>1. IInv => SetsLinear
  BY IInvImplies
<1>2. QED
  BY <1>1, InvariantHolds, PTL
=============================================================================
