-------------------------------- MODULE Resp --------------------------------
(***************************************************************************)
(* The read side of a connection (internal/server/connbuf.go and the loop  *)
(* of Server.serve): bytes come in pieces of any size, are kept in a       *)
(* buffer that is compacted, grown up to a limit and shrunk, and are       *)
(* parsed into commands whose arguments are slices of the buffer.          *)
(*                                                                         *)
(* The unit is an atom: a line, or the payload of a bulk string.  A piece  *)
(* of an atom is as good as none, so atoms are never cut.                  *)
(***************************************************************************)
EXTENDS Integers, Sequences, FiniteSets, FiniteSetsExt, SequencesExt

CONSTANTS
    Frames,        \* what a client may send: [atoms, legal, means]
    MaxFrames,     \* bound: frames that it sends
    MaxArgs,       \* maxArgs
    MaxBulk,       \* maxBulkSize
    InitialBuf,    \* initialReadBuf, in atoms
    ShrinkBuf,     \* shrinkReadBuf, in atoms
    MaxBuf         \* maxRbufSize, in atoms

\* Lines "*n" and "$n"; n is NaN if it is not a number.
NaN == 10000
Array(n) == [t |-> "*", n |-> n]
Bulk(n) == [t |-> "$", n |-> n]
Data(x) == [t |-> "data", n |-> x]
\* An inline command of n words, and a line feed alone.
Text(n) == [t |-> "text", n |-> n]
LineFeed == [t |-> "lf", n |-> 0]
Zero == [t |-> "zero", n |-> 0]

VARIABLES
    frames,   \* what the client sends in all
    arrived,  \* atoms of it that have arrived at the socket
    taken,    \* atoms that have been read from the socket
    rbuf, rpos, rend, protoErr,
    pc,       \* serve: "read", "parse", "drain" or "closed"
    handled   \* commands that the handler was called with

vars == <<frames, arrived, taken, rbuf, rpos, rend, protoErr, pc, handled>>

Stream == FlattenSeq([i \in DOMAIN frames |-> frames[i].atoms])
Available == arrived - taken
Fresh(size) == [i \in 1..size |-> Zero]

(***************************************************************************)
(* The parser, on the atoms from rpos to rend                              *)
(***************************************************************************)
Wait == [kind |-> "wait", next |-> 0, args |-> <<>>]
Broken == [kind |-> "broken", next |-> 0, args |-> <<>>]
Panics == [kind |-> "panic", next |-> 0, args |-> <<>>]
Command(next, args) == [kind |-> "command", next |-> next, args |-> args]
At(b, p) == IF p <= Len(b) THEN b[p].t ELSE "none"
IsLine(b, p) == At(b, p) \in {"*", "$", "text"}

\* parseBulkString and the other kind of argument, at position p of b: a line without its
\* first byte.  An empty line has none, and its slice is out of bounds.
ParseArg(b, so) ==
    LET p == so.next IN
    CASE so.kind # "command" -> so
      [] ~IsLine(b, p) -> Wait
      [] b[p] = Text(0) -> Panics
      [] At(b, p) # "$" -> Command(p + 1, Append(so.args, b[p]))
      [] b[p].n = -1 -> Command(p + 1, Append(so.args, Data(0)))
      [] b[p].n = NaN \/ b[p].n < 0 \/ b[p].n > MaxBulk -> Broken
      [] At(b, p + 1) # "data" -> Wait
      [] OTHER -> Command(p + 2, Append(so.args, b[p + 1]))

\* parseArray: a length that is no number, or too large, can never be completed; an
\* empty or a null array is no command, as an incomplete one.
ParseArray(b) ==
    LET n == b[1].n IN
    CASE n = NaN \/ n > MaxArgs -> Broken
      [] n <= 0 -> Wait
      [] OTHER -> FoldLeft(LAMBDA so, i : ParseArg(b, so), Command(2, <<>>), [i \in 1..n |-> i])

Words(line) == Min({IF line.t = "text" THEN line.n ELSE 1, MaxArgs})

\* Mutant: an empty line is as nothing.
ParseInlineNil(b) ==
    IF Words(b[1]) = 0 THEN Wait ELSE Command(2, [i \in 1..Words(b[1]) |-> b[1]])

\* parseInline: an empty line is a command without arguments, and what is beyond maxArgs
\* is left out.
ParseInline(b) == Command(2, [i \in 1..Words(b[1]) |-> b[1]])

ParseCommand(b) ==
    CASE b = <<>> -> Wait
      [] ~IsLine(b, 1) -> Wait
      [] b[1].t = "*" -> ParseArray(b)
      [] OTHER -> ParseInline(b)

(***************************************************************************)
(* The buffer                                                              *)
(***************************************************************************)
\* Mutant: what is not parsed yet stays where it is, and is counted from 0.
CompactNoCopy ==
    [buf |-> IF rpos = rend THEN Fresh(InitialBuf) ELSE rbuf, end |-> rend - rpos]

\* compact: what is not parsed moves to the front; an empty large buffer is given back.
Compacted ==
    IF rpos > 0 /\ rpos = rend
    THEN [buf |-> IF Len(rbuf) > ShrinkBuf THEN Fresh(InitialBuf) ELSE rbuf, end |-> 0]
    ELSE [buf |-> SubSeq(rbuf, rpos + 1, rend) \o SubSeq(rbuf, rend - rpos + 1, Len(rbuf)),
          end |-> rend - rpos]

\* ensureSpace: a full buffer is doubled, up to MaxBuf.
HasSpace(b, end) == end < Len(b) \/ Len(b) < MaxBuf
Grown(b, end) == IF end < Len(b) THEN b ELSE b \o Fresh(Min({2 * Len(b), MaxBuf}) - Len(b))

\* One read of what is there and fits; without space the connection is given up.
ReadInto(b, end, then, nothing) ==
    /\ rpos' = 0
    /\ IF ~HasSpace(b, end)
       THEN protoErr' = TRUE /\ pc' = "closed" /\ rbuf' = b /\ rend' = end /\ UNCHANGED taken
       ELSE LET g == Grown(b, end)
                k == Min({Len(g) - end, Available})
            IN  /\ rbuf' = [i \in 1..Len(g) |-> IF i \in (end + 1)..(end + k)
                                                THEN Stream[taken + i - end] ELSE g[i]]
                /\ rend' = end + k
                /\ taken' = taken + k
                /\ pc' = IF k = 0 THEN nothing ELSE then
                /\ UNCHANGED protoErr
    /\ UNCHANGED <<frames, arrived, handled>>

(***************************************************************************)
(* serve                                                                   *)
(***************************************************************************)
\* ReadFromConn waits for data; the limit needs none.
ReadFromConn ==
    /\ pc = "read"
    /\ Available > 0 \/ ~HasSpace(Compacted.buf, Compacted.end)
    /\ ReadInto(Compacted.buf, Compacted.end, "parse", "read")

\* ParseCommand and the handler, one command at a time.  A panic closes the connection
\* as an error does, without a word to the client.
Parse ==
    /\ pc = "parse"
    /\ LET b == SubSeq(rbuf, rpos + 1, rend)
           r == ParseCommand(b)
       IN  CASE r.kind = "command" ->
                  /\ rpos' = rpos + r.next - 1
                  /\ handled' = Append(handled, r.args)
                  /\ UNCHANGED <<protoErr, pc>>
             [] r.kind = "broken" ->
                  /\ protoErr' = TRUE /\ pc' = "closed"
                  /\ UNCHANGED <<rpos, handled>>
             [] r.kind = "panic" -> pc' = "closed" /\ UNCHANGED <<rpos, protoErr, handled>>
             [] OTHER -> pc' = "drain" /\ UNCHANGED <<rpos, protoErr, handled>>
    /\ UNCHANGED <<frames, arrived, taken, rbuf, rend>>

\* TryRead: what has come in the meantime, without waiting; then Flush.
TryRead ==
    /\ pc = "drain"
    /\ ReadInto(Compacted.buf, Compacted.end, "parse", "read")

Arrive(n) ==
    /\ arrived + n <= Len(Stream)
    /\ arrived' = arrived + n
    /\ UNCHANGED <<frames, taken, rbuf, rpos, rend, protoErr, pc, handled>>

Init ==
    /\ frames \in SeqOf(Frames, MaxFrames)
    /\ arrived = 0 /\ taken = 0
    /\ rbuf = Fresh(InitialBuf) /\ rpos = 0 /\ rend = 0 /\ protoErr = FALSE
    /\ pc = "read"
    /\ handled = <<>>

Next ==
    \/ \E n \in 1..Len(Stream) : Arrive(n)
    \/ ReadFromConn \/ Parse \/ TryRead

Spec == Init /\ [][Next]_vars

(***************************************************************************)
(* Properties                                                              *)
(***************************************************************************)
\* What the frames mean, one by one: a command, or an error, which ends it.
Good == {i \in DOMAIN frames : \A j \in 1..i : frames[j].legal}
Meant == [i \in 1..Cardinality(Good) |-> frames[i].means]

\* However the bytes are cut, the handler gets the commands that were sent, in order,
\* and none of them made of the pieces of two.
CutsInvisible == IsPrefix(handled, Meant)

\* A connection that waits for bytes has answered everything it was sent; one that was
\* sent an error has been closed.
NoWedge ==
    pc = "read" /\ arrived = Len(Stream) /\ Available = 0 =>
        handled = Meant /\ Cardinality(Good) = Len(frames)

\* A command that fits into the limit does not close the connection.
OnlyErrorsClose == pc = "closed" => Cardinality(Good) < Len(frames)
=============================================================================
