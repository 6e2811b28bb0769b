-------------------------------- MODULE MCNet --------------------------------
(***************************************************************************)
(* What a connection receives and is sent: the parser, Resp, and the hub,  *)
(* PubSub.  They share no state, so that a run over both needs no product  *)
(* of them: the first state chooses the part that runs, and the other      *)
(* stands still.                                                           *)
(***************************************************************************)
EXTENDS PubSub

VARIABLES
    part,
    frames, arrived, taken, rbuf, rpos, rend, protoErr, read, handled

respVars == <<frames, arrived, taken, rbuf, rpos, rend, protoErr, read, handled>>

(***************************************************************************)
(* What a client may send: lines, arrays, and a few that are errors.       *)
(***************************************************************************)
R == INSTANCE Resp WITH
    Frames <- {}, MaxFrames <- 3, MaxArgs <- 2, MaxBulk <- 8, InitialBuf <- 2, ShrinkBuf <- 4, MaxBuf <- 6,
    pc <- read

Legal(atoms, means) == [atoms |-> atoms, legal |-> TRUE, means |-> means]
Error(atoms) == [atoms |-> atoms, legal |-> FALSE, means |-> <<>>]

Line(n) == Legal(<<R!Text(n)>>, [i \in 1..R!Words(R!Text(n)) |-> R!Text(n)])
Pair(u, v) == Legal(<<R!Array(2), R!Bulk(1), R!Data(u), R!Bulk(1), R!Data(v)>>, <<R!Data(u), R!Data(v)>>)
NullBulk == Legal(<<R!Array(1), R!Bulk(-1)>>, <<R!Data(0)>>)
Mixed == Legal(<<R!Array(2), R!Text(1), R!Bulk(1), R!Data(3)>>, <<R!Text(1), R!Data(3)>>)
BadCount == Error(<<R!Array(R!NaN), R!Bulk(1)>>)
ManyArgs == Error(<<R!Array(3)>>)
BadBulk == Error(<<R!Array(1), R!Bulk(-2)>>)
EmptyArg == Error(<<R!Array(2), R!Bulk(1), R!Data(1), R!Text(0)>>)
LongBulk == Error(<<R!Array(2), R!Bulk(1), R!Data(1), R!Bulk(9), R!Data(2)>>)

Sendable ==
    {Line(0), Line(3), Pair(1, 2), NullBulk, Mixed, BadCount, ManyArgs, BadBulk, EmptyArg, LongBulk}
Wire == INSTANCE Resp WITH
    Frames <- Sendable, MaxFrames <- 3, MaxArgs <- 2, MaxBulk <- 8, InitialBuf <- 2, ShrinkBuf <- 4, MaxBuf <- 6,
    pc <- read

\* A part that does not run.
RespOff ==
    /\ frames = 0 /\ arrived = 0 /\ taken = 0 /\ rbuf = 0 /\ rpos = 0 /\ rend = 0 /\ protoErr = 0
    /\ read = 0 /\ handled = 0

NetInit ==
    /\ Init
    /\ \/ part = "hub" /\ RespOff
       \/ part = "resp" /\ Wire!Init

NetNext ==
    /\ UNCHANGED part
    /\ \/ part = "hub" /\ Next /\ UNCHANGED respVars
       \/ part = "resp" /\ Wire!Next /\ UNCHANGED vars

NetSpec == NetInit /\ [][NetNext]_<<part, vars, respVars>>

(***************************************************************************)
(* Properties                                                              *)
(***************************************************************************)
\* However the bytes are cut into reads, the handler gets the commands that were sent.
RespCutsInvisible == part = "resp" => Wire!CutsInvisible

\* A connection that waits for bytes has answered everything it was sent, and one that
\* sent no error is open.
RespNoWedge == part = "resp" => Wire!NoWedge /\ Wire!OnlyErrorsClose
=============================================================================
