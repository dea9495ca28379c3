---------------------------- MODULE StreamManager ----------------------------
(***************************************************************************)
(* The outbound stream table of one node (src/p2p/main.go, lines 213-277: *)
(* type Stream, P2p.OpenStream and P2p.CloseStream).                       *)
(*                                                                         *)
(* p2p.streams is a Go map from a peer identity string to a Stream.  The   *)
(* channel layer calls OpenStream(peer) and CloseStream(peer) from many    *)
(* goroutines at once; the map has no lock.  Each call is a task here,    *)
(* and a task takes one step per map access or network call, so that the  *)
(* calls of different tasks interleave the way goroutines do.             *)
(*                                                                         *)
(* A Go map written by one goroutine while another reads or writes it is  *)
(* a data race; the runtime notices the overlap on a best-effort basis   *)
(* and then throws "concurrent map writes", ending the process.  A write  *)
(* is therefore two steps (the runtime's hashWriting flag is set, then    *)
(* cleared with the entry changed), and a map access that overlaps one    *)
(* either throws or goes ahead.                                           *)
(*                                                                         *)
(* A stream is a number (the n-th successful host.NewStream); a peer is a *)
(* model value.                                                           *)
(***************************************************************************)
EXTENDS Naturals, FiniteSets

CONSTANTS
    Peer,       \* remote peer identities
    Task,       \* goroutines that call OpenStream or CloseStream
    NoStream,   \* the zero Stream a missing key reads as
    MaxStreams  \* bound on successful host.NewStream calls

ASSUME PeerAssumption == Peer # {} /\ NoStream \notin Nat
ASSUME MaxStreamsAssumption == MaxStreams \in Nat

VARIABLES
    streams,    \* p2p.streams: streams[p] is the entry for p, or NoStream
    open,       \* the streams whose underlying conduit is open
    made,       \* number of successful host.NewStream calls
    task,       \* task[t]: the call goroutine t is making and where it is
    writing,    \* the tasks inside a map write (hashWriting set)
    crash       \* "none" while the process runs, else what ended it

vars == <<streams, open, made, task, writing, crash>>

StreamId == 1..MaxStreams

Op == {"open", "close"}

(* Program points of a call: "idle" before it, "new" about to call        *)
(* host.NewStream, "put" writing the entry, "get" reading the entry and   *)
(* closing it, "del" deleting the entry.                                  *)
Pc == {"idle", "new", "put", "get", "del"}

TaskState == [op : Op \cup {"none"}, peer : Peer, pc : Pc,
              s : StreamId \cup {NoStream}]

Up == crash = "none"

Idle(t) == task[t].pc = "idle"

(* The tasks other than t that are in the middle of a map write. *)
Overlaps(t) == writing \ {t} # {}

(* The runtime's overlap check on a map access by t fires. *)
MapThrow(t) ==
    /\ Overlaps(t)
    /\ crash' = "map"
    /\ UNCHANGED <<streams, open, made, task, writing>>

Init ==
    /\ streams = [p \in Peer |-> NoStream]
    /\ open = {}
    /\ made = 0
    /\ task = [t \in Task |-> [op |-> "none", peer |-> CHOOSE p \in Peer : TRUE,
                               pc |-> "idle", s |-> NoStream]]
    /\ writing = {}
    /\ crash = "none"

-----------------------------------------------------------------------------
(* Goroutine t calls OpenStream(p) or CloseStream(p). *)
Call(t, op, p) ==
    /\ Up
    /\ Idle(t)
    /\ task' = [task EXCEPT ![t] = [op |-> op, peer |-> p, s |-> NoStream,
                                    pc |-> IF op = "open" THEN "new" ELSE "get"]]
    /\ UNCHANGED <<streams, open, made, writing, crash>>

(* Mutant: OpenStream hands out the stream it opened last, once there is *)
(* one, instead of a new one.                                             *)
NewStreamReuseLast(t) ==
    /\ Up
    /\ task[t].pc = "new"
    /\ \/ /\ made = 0
          /\ made' = made + 1
          /\ open' = open \cup {made + 1}
          /\ task' = [task EXCEPT ![t].pc = "put", ![t].s = made + 1]
       \/ /\ made > 0
          /\ task' = [task EXCEPT ![t].pc = "put", ![t].s = made]
          /\ UNCHANGED <<open, made>>
    /\ UNCHANGED <<streams, writing, crash>>

(* Mutant: the entry is written whether or not NewStream failed. *)
NewStreamPutOnError(t) ==
    /\ Up
    /\ task[t].pc = "new"
    /\ made < MaxStreams
    /\ made' = made + 1
    /\ task' = [task EXCEPT ![t].pc = "put", ![t].s = made + 1]
    /\ \/ open' = open \cup {made + 1}
       \/ UNCHANGED open
    /\ UNCHANGED <<streams, writing, crash>>

(* OpenStream: host.NewStream(ctx, peerID, networkID).  On an error the   *)
(* call logs it and returns; otherwise the stream is open and the entry  *)
(* is written next.                                                       *)
NewStream(t) ==
    /\ Up
    /\ task[t].pc = "new"
    /\ \/ /\ made < MaxStreams
          /\ made' = made + 1
          /\ open' = open \cup {made + 1}
          /\ task' = [task EXCEPT ![t].pc = "put", ![t].s = made + 1]
       \/ /\ task' = [task EXCEPT ![t].pc = "idle"]
          /\ UNCHANGED <<open, made>>
    /\ UNCHANGED <<streams, writing, crash>>

(* OpenStream: p2p.streams[peer] = Stream{...}.  The write begins (or the *)
(* runtime throws on an overlap) and then ends with the entry replaced;  *)
(* a stream already under that key is dropped without being closed.       *)
Put(t) ==
    /\ Up
    /\ task[t].pc = "put"
    /\ \/ MapThrow(t)
       \/ /\ t \notin writing
          /\ writing' = writing \cup {t}
          /\ UNCHANGED <<streams, open, made, task, crash>>
       \/ /\ t \in writing
          /\ streams' = [streams EXCEPT ![task[t].peer] = task[t].s]
          /\ writing' = writing \ {t}
          /\ task' = [task EXCEPT ![t].pc = "idle"]
          /\ UNCHANGED <<open, made, crash>>

(* CloseStream: p2p.streams[peer].stream.Close().  A missing key reads as *)
(* the zero Stream, whose nil stream interface panics on the call.        *)
Get(t) ==
    /\ Up
    /\ task[t].pc = "get"
    /\ \/ MapThrow(t)
       \/ /\ streams[task[t].peer] = NoStream
          /\ crash' = "nil"
          /\ UNCHANGED <<streams, open, made, task, writing>>
       \/ /\ streams[task[t].peer] # NoStream
          /\ open' = open \ {streams[task[t].peer]}
          /\ task' = [task EXCEPT ![t].pc = "del",
                                  ![t].s = streams[task[t].peer]]
          /\ UNCHANGED <<streams, made, writing, crash>>

(* CloseStream: delete(p2p.streams, peer), a map write in two steps like  *)
(* Put; it removes whatever entry the key holds by then.                  *)
Del(t) ==
    /\ Up
    /\ task[t].pc = "del"
    /\ \/ MapThrow(t)
       \/ /\ t \notin writing
          /\ writing' = writing \cup {t}
          /\ UNCHANGED <<streams, open, made, task, crash>>
       \/ /\ t \in writing
          /\ streams' = [streams EXCEPT ![task[t].peer] = NoStream]
          /\ writing' = writing \ {t}
          /\ task' = [task EXCEPT ![t].pc = "idle"]
          /\ UNCHANGED <<open, made, crash>>

Next ==
    \E t \in Task :
        \/ \E op \in Op, p \in Peer : Call(t, op, p)
        \/ NewStream(t)
        \/ Put(t)
        \/ Get(t)
        \/ Del(t)

Spec == Init /\ [][Next]_vars

-----------------------------------------------------------------------------
TypeOK ==
    /\ streams \in [Peer -> StreamId \cup {NoStream}]
    /\ open \subseteq StreamId
    /\ made \in 0..MaxStreams
    /\ task \in [Task -> TaskState]
    /\ writing \subseteq Task
    /\ crash \in {"none", "nil", "map"}

(* A closing task t is between its Close and its delete of p's entry. *)
Closing(t, p, s) == task[t].pc = "del" /\ task[t].peer = p /\ task[t].s = s

(* The table never hands out a dead stream: the entry of a peer is an     *)
(* open stream, except between CloseStream's Close and its delete --      *)
(* whatever order concurrent OpenStream and CloseStream calls on the same *)
(* peer take their steps in.                                              *)
TableHoldsOpen ==
    \A p \in Peer :
        streams[p] # NoStream =>
            \/ streams[p] \in open
            \/ \E t \in Task : Closing(t, p, streams[p])

(* At most one stream per peer is held, and a second OpenStream replaces  *)
(* the first rather than leaking it (spec 4.3): every open stream is in   *)
(* the table, or is about to be put there.                                *)
NoLeakedStream ==
    \A s \in open :
        \/ \E p \in Peer : streams[p] = s
        \/ \E t \in Task : task[t].pc = "put" /\ task[t].s = s

(* close(peer) is idempotent (spec 4.3): CloseStream of a peer with no    *)
(* stream is not an error, so it never takes the process down.            *)
CloseIdempotent == crash # "nil"

(* The registry the table stands for: p's entry, except that an entry a   *)
(* CloseStream has already closed counts as removed.                      *)
RegMap ==
    [p \in Peer |-> IF \E t \in Task : Closing(t, p, streams[p])
                    THEN NoStream ELSE streams[p]]

Registry == INSTANCE StreamRegistry WITH reg <- RegMap

(* Linearizability of the table: however the map accesses, NewStream and  *)
(* Close calls of concurrent OpenStream and CloseStream goroutines        *)
(* interleave, each step is one atomic registry operation (open a stream, *)
(* register an open unregistered stream, close and remove an entry,      *)
(* remove an entry) or changes nothing the registry shows.                *)
ImplementsRegistry == Registry!Spec
=============================================================================
