--------------------------- MODULE StreamRegistry ---------------------------
(***************************************************************************)
(* What the outbound stream table of src/p2p/main.go promises, with every  *)
(* operation atomic: a registry from peer to stream, and the set of open   *)
(* streams.  It is the abstract specification that StreamManager, where    *)
(* OpenStream and CloseStream take several steps each on an unlocked map,  *)
(* is shown to implement.                                                  *)
(*                                                                         *)
(* The registry allows what the code does and no more: an entry may be     *)
(* replaced while its stream stays open (OpenStream over an existing       *)
(* entry), and an entry may be removed without its stream being closed    *)
(* (a CloseStream's delete that removes an entry a concurrent OpenStream   *)
(* put after the Close).  What it rules out is an entry holding a stream   *)
(* that is not open, or the same stream under two peers.                   *)
(***************************************************************************)
EXTENDS Naturals

CONSTANTS Peer, NoStream, MaxStreams

VARIABLES
    reg,    \* reg[p]: the stream registered for p, or NoStream
    open,   \* the open streams
    made    \* the number of streams opened so far

Init ==
    /\ reg = [p \in Peer |-> NoStream]
    /\ open = {}
    /\ made = 0

(* A new stream is opened; it is not registered yet. *)
OpenNew ==
    /\ made < MaxStreams
    /\ made' = made + 1
    /\ open' = open \cup {made + 1}
    /\ UNCHANGED reg

(* An open stream registered under no peer becomes p's entry, replacing   *)
(* whatever p had.                                                        *)
Register(p, s) ==
    /\ s \in open
    /\ \A q \in Peer : reg[q] # s
    /\ reg' = [reg EXCEPT ![p] = s]
    /\ UNCHANGED <<open, made>>

(* p's stream is closed and its entry removed. *)
Close(p) ==
    /\ reg[p] # NoStream
    /\ open' = open \ {reg[p]}
    /\ reg' = [reg EXCEPT ![p] = NoStream]
    /\ UNCHANGED made

(* p's entry is removed and its stream left open. *)
Drop(p) ==
    /\ reg[p] # NoStream
    /\ reg' = [reg EXCEPT ![p] = NoStream]
    /\ UNCHANGED <<open, made>>

Next ==
    \/ OpenNew
    \/ \E p \in Peer :
         \/ \E s \in 1..MaxStreams : Register(p, s)
         \/ Close(p)
         \/ Drop(p)

Spec == Init /\ [][Next]_<<reg, open, made>>
=============================================================================
