------------------------------- MODULE StreamIO -------------------------------
(***************************************************************************)
(* The stream table of StreamManager composed with the data path of the    *)
(* same file (src/p2p/main.go, lines 213-255): goroutines that send on a  *)
(* peer's registered Stream with writeToStream, and, on the remote peer,   *)
(* handleStream and the receiveStream read loop of every stream opened.    *)
(*                                                                         *)
(* writeToStream calls Write and Flush on the stream's *bufio.Writer, and  *)
(* every copy of the Stream value read from the map shares that writer.   *)
(* OpenStream wraps the stream in bufio.NewWriter twice, but NewWriter    *)
(* returns a *bufio.Writer of enough size unchanged: there is one buffer. *)
(* Frames are taken to fit in it (a frame longer than the free space is   *)
(* written around the buffer, a path not modelled).                       *)
(* bufio.Writer has no lock, so its steps are modelled as bufio performs  *)
(* them: Write copies into buf[b.n:] and then adds to b.n; Flush writes    *)
(* buf[0:b.n] to the network and then sets b.n to 0, or on an error keeps  *)
(* the error in b.err, which every later Write and Flush returns.          *)
(*                                                                         *)
(* A frame is identified by the send that wrote it (the sender and its    *)
(* call number), so that a frame lost or written twice can be told apart. *)
(* Buffer bytes that no Write has filled are zero bytes (Zero), which hold *)
(* no '\n': ReadBytes reads through them into the next frame.              *)
(***************************************************************************)
EXTENDS Naturals, FiniteSets, SequencesExt

CONSTANTS
    Peer,       \* as in StreamManager
    Task,
    NoStream,
    MaxStreams,
    Sender,     \* goroutines that send through the table
    MaxSends,   \* bound on writeToStream calls per sender
    Zero        \* buffer bytes no Write has filled

ASSUME SendAssumption == MaxSends \in Nat /\ Zero \notin Sender \X Nat

VARIABLES
    streams,    \* the table, as in StreamManager
    open,
    made,
    task,
    writing,
    crash,
    snd,        \* snd[u]: the send goroutine u is making and where it is
    sent,       \* sent[u]: number of sends u has started
    wbuf,       \* wbuf[s]: the bufio.Writer of stream s (buf, n, err)
    flushed,    \* flushed[s]: the frames put on the network for s, in order
    rcv,        \* rcv[s]: how many of them the remote reader has consumed
    rd,         \* rd[s]: the remote read loop: "none", "reading", "done"
    acked       \* history: the frames whose writeToStream returned nil

SM == INSTANCE StreamManager

vars == <<streams, open, made, task, writing, crash>>
io == <<snd, sent, wbuf, flushed, rcv, rd, acked>>
allvars == <<vars, io>>

(* bufio.NewWriter's buffer, large enough for every frame of a behaviour. *)
BufCap == Cardinality(Sender) * MaxSends

(* The frame of u's current send. *)
FrameOf(u) == <<u, sent[u]>>

(* Send goroutine u moves to program point to and changes no other field. *)
Goto(u, to) == snd' = [snd EXCEPT ![u].pc = to]

(* writeToStream of u returns: nil or an error. *)
Return(u, ok) ==
    /\ snd' = [snd EXCEPT ![u].pc = "idle"]
    /\ acked' = IF ok THEN acked \cup {FrameOf(u)} ELSE acked

Init ==
    /\ SM!Init
    /\ snd = [u \in Sender |-> [pc |-> "idle", peer |-> CHOOSE p \in Peer : TRUE,
                                s |-> NoStream]]
    /\ sent = [u \in Sender |-> 0]
    /\ wbuf = [s \in SM!StreamId |-> [buf |-> [i \in 1..BufCap |-> Zero],
                                   n |-> 0, err |-> FALSE]]
    /\ flushed = [s \in SM!StreamId |-> <<>>]
    /\ rcv = [s \in SM!StreamId |-> 0]
    /\ rd = [s \in SM!StreamId |-> "none"]
    /\ acked = {}

-----------------------------------------------------------------------------
(* A step of the table: OpenStream or CloseStream. *)
Table ==
    /\ SM!Next
    /\ UNCHANGED io

(* handleStream on the remote peer: the stream is accepted and its read   *)
(* loop, receiveStream, starts.                                           *)
handleStream(s) ==
    /\ s <= made
    /\ rd[s] = "none"
    /\ rd' = [rd EXCEPT ![s] = "reading"]
    /\ UNCHANGED <<vars, snd, sent, wbuf, flushed, rcv, acked>>

(* Goroutine u calls writeToStream on p's entry of the table. *)
Send(u, p) ==
    /\ SM!Up
    /\ snd[u].pc = "idle"
    /\ sent[u] < MaxSends
    /\ snd' = [snd EXCEPT ![u] = [pc |-> "get", peer |-> p, s |-> NoStream]]
    /\ sent' = [sent EXCEPT ![u] = @ + 1]
    /\ UNCHANGED <<vars, wbuf, flushed, rcv, rd, acked>>

(* p2p.streams[peer]: a map read, which the runtime may catch overlapping *)
(* a write; a missing key reads as the zero Stream, whose nil writer      *)
(* panics in Write.                                                       *)
SendGet(u) ==
    /\ SM!Up
    /\ snd[u].pc = "get"
    /\ \/ /\ SM!MapThrow(u)
          /\ UNCHANGED io
       \/ /\ streams[snd[u].peer] = NoStream
          /\ crash' = "nil"
          /\ UNCHANGED <<streams, open, made, task, writing, io>>
       \/ /\ streams[snd[u].peer] # NoStream
          /\ snd' = [snd EXCEPT ![u].pc = "copy",
                                ![u].s = streams[snd[u].peer]]
          /\ UNCHANGED <<vars, sent, wbuf, flushed, rcv, rd, acked>>

(* Write: with b.err set it returns it, and Flush returns it again;       *)
(* otherwise copy(b.buf[b.n:], p).                                        *)
Copy(u) ==
    LET s == snd[u].s
        w == wbuf[s] IN
    /\ SM!Up
    /\ snd[u].pc = "copy"
    /\ \/ /\ w.err
          /\ Return(u, FALSE)
          /\ UNCHANGED wbuf
       \/ /\ ~w.err
          /\ wbuf' = [wbuf EXCEPT ![s].buf[w.n + 1] = FrameOf(u)]
          /\ Goto(u, "add")
          /\ UNCHANGED acked
    /\ UNCHANGED <<vars, sent, flushed, rcv, rd>>

(* Write: b.n += n, on the b.n of now. *)
Add(u) ==
    LET s == snd[u].s IN
    /\ SM!Up
    /\ snd[u].pc = "add"
    /\ wbuf' = [wbuf EXCEPT ![s].n = @ + 1]
    /\ Goto(u, "flush")
    /\ UNCHANGED <<vars, sent, flushed, rcv, rd, acked>>

(* Flush: b.err is returned; an empty buffer returns nil; otherwise       *)
(* b.wr.Write(b.buf[0:b.n]) puts those bytes on an open stream, and       *)
(* fails on a closed one, keeping the error in b.err.                     *)
Flush(u) ==
    LET s == snd[u].s
        w == wbuf[s] IN
    /\ SM!Up
    /\ snd[u].pc = "flush"
    /\ \/ /\ w.err
          /\ Return(u, FALSE)
          /\ UNCHANGED <<wbuf, flushed>>
       \/ /\ ~w.err /\ w.n = 0
          /\ Return(u, TRUE)
          /\ UNCHANGED <<wbuf, flushed>>
       \/ /\ ~w.err /\ w.n > 0 /\ s \in open
          /\ flushed' = [flushed EXCEPT ![s] = @ \o SubSeq(w.buf, 1, w.n)]
          /\ Goto(u, "reset")
          /\ UNCHANGED <<wbuf, acked>>
       \/ /\ ~w.err /\ w.n > 0 /\ s \notin open
          /\ wbuf' = [wbuf EXCEPT ![s].err = TRUE]
          /\ Return(u, FALSE)
          /\ UNCHANGED flushed
    /\ UNCHANGED <<vars, sent, rcv, rd>>

(* Flush: b.n = 0, and writeToStream returns nil. *)
Reset(u) ==
    LET s == snd[u].s IN
    /\ SM!Up
    /\ snd[u].pc = "reset"
    /\ wbuf' = [wbuf EXCEPT ![s].n = 0]
    /\ Return(u, TRUE)
    /\ UNCHANGED <<vars, sent, flushed, rcv, rd>>

(* The position of the '\n' that ends the next line of s, or 0: ReadBytes *)
(* reads through zero bytes into the frame after them.                    *)
NextLine(s) ==
    SelectInSubSeq(flushed[s], rcv[s] + 1, Len(flushed[s]),
                   LAMBDA f : f # Zero)

(* receiveStream: ReadBytes('\n') returns the next line, which is handed  *)
(* to receiver.Receive; a nil receiver or an error from Receive ends the *)
(* loop.  The check for an empty line cannot fire, since a line ReadBytes *)
(* returns without an error ends with '\n'.                               *)
ReadFrame(s) ==
    /\ rd[s] = "reading"
    /\ NextLine(s) # 0
    /\ rcv' = [rcv EXCEPT ![s] = NextLine(s)]
    /\ \/ UNCHANGED rd
       \/ rd' = [rd EXCEPT ![s] = "done"]
    /\ UNCHANGED <<vars, snd, sent, wbuf, flushed, acked>>

(* Mutant: the read loop logs a read error and reads again instead of    *)
(* returning.                                                             *)
ReadEOFRetry(s) ==
    /\ rd[s] = "reading"
    /\ NextLine(s) = 0
    /\ s \notin open \/ ~SM!Up
    /\ rcv' = [rcv EXCEPT ![s] = Len(flushed[s])]
    /\ UNCHANGED <<vars, rd, snd, sent, wbuf, flushed, acked>>

(* receiveStream: with no whole line left, ReadBytes returns an error     *)
(* once the writer has closed the stream or its process is gone, and the  *)
(* loop returns it.                                                       *)
ReadEOF(s) ==
    /\ rd[s] = "reading"
    /\ NextLine(s) = 0
    /\ s \notin open \/ ~SM!Up
    /\ rcv' = [rcv EXCEPT ![s] = Len(flushed[s])]
    /\ rd' = [rd EXCEPT ![s] = "done"]
    /\ UNCHANGED <<vars, snd, sent, wbuf, flushed, acked>>

(* The steps of send goroutine u. *)
Sending(u) ==
    \/ SendGet(u)
    \/ Copy(u)
    \/ Add(u)
    \/ Flush(u)
    \/ Reset(u)

(* The steps of the remote read loop of stream s. *)
Reading(s) == ReadFrame(s) \/ ReadEOF(s)

Next ==
    \/ Table
    \/ \E u \in Sender :
         \/ \E p \in Peer : Send(u, p)
         \/ Sending(u)
    \/ \E s \in SM!StreamId :
         \/ handleStream(s)
         \/ Reading(s)

(* libp2p hands every accepted stream to its handler, and the Go          *)
(* scheduler runs every runnable read loop.  Table calls and sends come   *)
(* from the application and are never forced.                             *)
Fairness ==
    \A s \in SM!StreamId : WF_allvars(handleStream(s)) /\ WF_allvars(Reading(s))

Spec == Init /\ [][Next]_allvars /\ Fairness

-----------------------------------------------------------------------------
(* A stream is closed for its reader: its writer closed it, or the        *)
(* writer's process is gone with its connections.                         *)
Closed(s) == s <= made /\ (s \notin open \/ ~SM!Up)

(* Closing a stream unblocks its read loop (spec 5, cancellation): the    *)
(* remote receiveStream of every stream CloseStream closes returns,       *)
(* whatever frames are still on the way and whatever state concurrent    *)
(* sends leave the writer in.                                             *)
ClosedStreamReadEnds ==
    \A s \in SM!StreamId : Closed(s) ~> rd[s] = "done"

(* A send that returns no error has put its frame, whole, on the stream   *)
(* (spec 4.3 and 4.5: a broadcast reaches every reachable member, and a   *)
(* failed send is reported): every frame whose writeToStream returned nil *)
(* was flushed, and the network carries no bytes no Write filled.         *)
FramesIntact ==
    /\ \A f \in acked : \E s \in SM!StreamId : Contains(flushed[s], f)
    /\ \A s \in SM!StreamId : ~Contains(flushed[s], Zero)
=============================================================================
