# TLA+ models of sprawl

This directory holds TLA+ specifications of the sprawl node (Go, `src/`):
- TLC configurations that model-check them on small instances;
- TLAPS proofs of their main safety properties for all values of the constants.

`PROJECT.json` lists the components, runs, mutants, source map, findings, hazards and theorems in machine-readable form.

## The system and its parts

A sprawl node has two parts. The **order service** (`src/service/order.go`) holds the gRPC handlers Create, Delete, Lock and Unlock. They write orders to a LevelDB storage collaborator. The **p2p layer** (`src/p2p/main.go`) does the networking:
- `Run` builds a libp2p host and a Kademlia DHT and installs `handleStream`.
- It bootstraps the DHT and connects to the configured bootstrap peers, one goroutine each, behind a `sync.WaitGroup`.
- It advertises a rendezvous string and issues one `FindPeers` query.
- `listenPeers` ranges over the resulting `peerChan`, opens a stream to each peer and reads it.
- `Run` then blocks in `select {}`.

`SendToPeers`, called by the application from another goroutine, ranges over the same `peerChan` and writes its input to a new stream per peer. Every stream is read by `readData`, which panics on a read error. The second half of `main.go` (lines 201-277) is the newer stream layer:
- `OpenStream` and `CloseStream` maintain the unlocked map `p2p.streams` from peer to `Stream`.
- `writeToStream` writes a frame through the stream's `*bufio.Writer` and flushes it. Every copy of the `Stream` value shares that writer.
- `handleStream` accepts an inbound stream and starts the read loop `receiveStream`, which hands each `'\n'`-terminated line to the receiver.

`writeToStream` has no caller in the repository. The `send(peer, bytes)` that looks a peer's stream up in the table and calls it is modelled from spec §4.3. The order service does not yet call the p2p layer: propagation is a TODO in `Create` and `Delete`.

Not modelled:
- `src/interfaces/P2p.go`: an interface with no behaviour.
- `src/unnamed/part_000`: configuration read once at start-up. Its failure is the "setup" fault of `Start`.
- The test files. What `TestOrderCreation` and `TestOrderGetAll` assert is stated as properties.
- Frames longer than the free space of the 4096-byte bufio buffer. `Write` then sends them around the buffer, a path the model leaves out: frames are small.
- Lock and Unlock (order.go 96-114) are TODO stubs that acknowledge and change nothing. They are actions of `OrderService`, but the divergence from spec §4.5 is plain in the code and no run is spent on it.

## Modules

| Module | Models | State | Actions |
|---|---|---|---|
| `OrderService` | order.go 15-114 | `store` (LevelDB, a function from id to order), `clock`, `up`, history variables `live`, `lockAcked`, `creates`, `deletes` | `Tick`, `Create(req)`, `Delete(id)`, `Lock(id)`, `Unlock(id)`, `Restart` |
| `P2pNet` | main.go 28-200 | per node: `pc` (step of Run), `crash`, `dialing` (connect goroutines), `chan` (peerChan contents), `found`, `snd` (SendToPeers goroutine), `sent`; global: `conns`, `ads` (DHT provider records), `streams`, `faults` | `Start`, `Bootstrap`, `Connect`, `Advertise`, `Publish`, `FindPeers`, `ListenPeer`, `ListenEnd`, `SendToPeers`, `SendPeer`, `SendDone`, `ReadLine`, `ReadError`, `Kill`, `Reset` |
| `StreamManager` | main.go 213-277 | `streams` (the map), `open` (open conduits), `made`, `task` (each calling goroutine's program point), `writing` (goroutines inside a map write), `crash` | `Call`, `NewStream`, `Put`, `Get`, `Del` (with `MapThrow`) |
| `StreamRegistry` | spec §4.3 (open, close) | `reg` (peer to stream), `open`, `made` | `OpenNew`, `Register`, `Close`, `Drop`, each atomic |
| `StreamIO` | main.go 213-277 | the `StreamManager` state (through `INSTANCE`), plus: `snd` and `sent` (send goroutines), `wbuf` (each stream's bufio.Writer: `buf`, `n`, `err`), `flushed` (frames on the wire), `rcv` and `rd` (remote read loops), and the history `acked` | `Table` (a StreamManager step), `Send`, `SendGet`, `Copy`, `Add`, `Flush`, `Reset`, `handleStream`, `ReadFrame`, `ReadEOF` |
| `OrderServiceProofs`, `StreamManagerProofs`, `P2pNetProofs` | theorems | | |
| `MC_*` | TLC instances | model values and symmetry sets | |

### How the models abstract the code

- **Order service.** Each handler is one atomic step, because its only shared effect is one storage call.
  - An order id is the pair (request, timestamp) that the HMAC is computed over. The keyed hash is treated as collision-free, so two Creates collide exactly when request and timestamp are equal.
  - A storage error is a panic that ends the process, because gRPC does not recover it. LevelDB keeps its data across the `Restart`.
  - `MaxTime` bounds the clock and `MaxOps` bounds Creates and Deletes.
- **P2p network.**
  - Peer identities and inputs are model values. `Lines ⊆ Msg` are the inputs ending in `'\n'`, which is all that `ReadBytes('\n')` tells apart.
  - A stream is named by `<<src, dst, call>>`: call 0 is listenPeers, and c is the c-th SendToPeers call.
  - The DHT query returns every peer advertised by the time it runs, or nothing without a live DHT peer. Which peers have advertised by then is left to the interleaving of `Publish`.
  - Faults are bounded by `MaxFaults`: a setup panic, a write or flush panic, a kill, or a connection reset. A read error is a consequence of a fault, not a fault of its own.
  - The WaitGroup is the set `dialing`: `Advertise` is enabled once it is empty.
- **Stream table.** Each OpenStream or CloseStream call is a goroutine that takes one step per map access or network call.
  - A Go map write is two steps: the runtime's `hashWriting` flag is set, then cleared with the entry changed.
  - A map access that overlaps another goroutine's write either throws "concurrent map writes" or goes ahead. This is the data race, modelled as a nondeterministic choice.
  - A missing key reads as the zero `Stream`, and `Close` on its nil interface panics.
- **Registry.** `StreamRegistry` is what the table promises, with each operation atomic:
  - open a new stream;
  - register an open stream that no peer holds;
  - close a peer's stream and remove its entry;
  - remove an entry and leave its stream open.

  `StreamManager` instantiates it with the refinement mapping `RegMap`. That mapping is the table, except that an entry a CloseStream has already closed counts as removed.
- **Stream I/O.** `bufio.Writer` has no lock, so `StreamIO` takes its steps as bufio does:
  - `Write` copies into `buf[n:]` (`Copy`), then adds to `n` (`Add`).
  - `Flush` puts `buf[0:n]` on the wire (`Flush`), then sets `n` to 0 (`Reset`).
  - A failed write leaves a sticky `err` that every later Write and Flush returns.

  Other modelling choices:
  - `bufio.NewWriter(bufio.NewWriter(s))` is one writer, since NewWriter returns a large enough `*bufio.Writer` unchanged.
  - A frame is `<<sender, call number>>`. Unfilled buffer bytes are `Zero`, with no `'\n'`, so `ReadBytes` reads through them into the next frame (`NextLine`, via `SelectInSubSeq`).
  - The read loop ends on a read error once the stream is closed or the writer's process is gone. A Receive error or a nil receiver may also end it after any line.

## Runs

| Run | Config | Expect | Checks | Shows |
|---|---|---|---|---|
| order_safety | `OrderService.cfg` | pass | TypeOK, CreateThenGet | GetOrder returns what Create returned. This holds across same-tick Creates, Deletes, panics and restarts. |
| order_distinct | `OrderService_distinct.cfg` | violation | CreatesAreDistinct | Same request in the same tick gives one id, so N Creates store fewer than N orders. |
| p2p_liveness | `P2pNet_live.cfg` | pass | StartupCompletes, LineDelivered | Setup never hangs. Every written line is read unless its stream breaks. |
| p2p_discovery | `P2pNet_discover.cfg` | violation | PeersDiscovered | findPeers makes one DHT query right after advertise has only started publishing. Two nodes that both query first never find each other, although spec §4.2 describes discovery as a continuous sequence. |
| p2p_broadcast | `P2pNet_broadcast.cfg` | violation | BroadcastOffersFound | listenPeers steals peers from SendToPeers. |
| p2p_send_blocks | `P2pNet_sendblocks.cfg` | violation | SendReturns | SendToPeers before findPeers blocks forever on a nil channel. |
| p2p_read_panic | `P2pNet_crash.cfg` | violation | CrashContained | A dying peer or a reset makes the reader panic. |
| streams_safety | `StreamManager.cfg` | pass | TableHoldsOpen, ImplementsRegistry | The table never holds a dead stream, except during a CloseStream. Every step is one atomic StreamRegistry operation, or a stutter of it. |
| streams_leak | `StreamManager_leak.cfg` | violation | NoLeakedStream | OpenStream overwrites an entry without closing it. |
| streams_close | `StreamManager_close.cfg` | violation | CloseIdempotent | CloseStream of an absent peer panics. |
| streams_read_ends | `StreamIO.cfg` | pass | ClosedStreamReadEnds | The remote read loop of every closed stream returns, whatever concurrent sends left on the wire. |
| streams_send_race | `StreamIO_race.cfg` | violation | FramesIntact | Two sends to one peer share an unlocked bufio.Writer: one frame is lost and zero bytes are sent, yet both return nil. |

Each property of a passing run has a mutant in `PROJECT.json`. A mutant is a plausible bug in the modelled code, and TLC finds the property violated when the mutant replaces the real definition:
- Put under the request instead of the id.
- Id without the timestamp.
- `writeData` without `Flush`.
- A connect goroutine that skips `wg.Done()` on error.
- OpenStream storing the entry when NewStream failed.
- OpenStream handing out the stream it opened last.
- A read loop that retries on a read error instead of returning.

### Bounds

- **Order service:** two requests, clock 0..2, three Creates and three Deletes. This is enough for two same-tick Creates of one request, a Create in a later tick, a Delete between them, and a panic and restart.
- **p2p, 2 nodes with one fault:** enough for every failure path and for a cascade of crashes through a stream. The discovery run has no faults: its counterexample needs none.
- **p2p, 3 nodes** (`MC_Node3` and `MC_Boot3` in `MC_P2pNet`): a seed and two joining nodes that discover each other through it. This instance is not a listed run: every question the project asks of the p2p layer already has its answer on 2 nodes.
- **Stream table:** two peers, two goroutines and three NewStreams. That is enough for a Put landing between a CloseStream's Close and delete, and for two writes overlapping.
- **Stream I/O:** one peer, one OpenStream/CloseStream goroutine, two send goroutines with one send each, and two NewStreams (130,885 states, about 20 s). That is enough for a stream to be replaced or closed between a send's Write and Flush, and for two Writes to interleave. The second peer and the second table goroutine are left to `streams_safety`: with them the state space grows past the run's time limit.
- **Symmetry:** used only by the `StreamManager` runs, over the peers and the goroutines. `StreamIO` checks liveness, where symmetry is unsound.

### Fairness

`P2pNet` and `StreamIO` have liveness properties. `P2pNet`'s `Spec` assumes weak fairness of:
- each node's Run goroutine;
- each bootstrap connect goroutine;
- the advertising goroutine;
- a running SendToPeers;
- the stream readers.

These are goroutines that, once runnable, the Go scheduler eventually runs. Calls of SendToPeers, kills and resets come from the environment and are never forced.

`StreamIO` assumes weak fairness of `handleStream` and of each stream's read loop. libp2p calls the handler for every accepted stream, and the `go stream.receiveStream(...)` goroutine is then scheduled. Table calls and sends are the application's and are never forced. `CHECK_DEADLOCK FALSE` is set there too: a process that has died takes no more steps. The runs set `CHECK_DEADLOCK FALSE` because a node ends in `select {}` and a crashed process takes no step: the system really does stop.

## Proofs

TLAPS checks the following theorems for every value of the constants, under the `ASSUME`s of the modules (naturals for the bounds, a non-empty peer set, and `NoStream` not a number).

- `OrderServiceProofs!TypeCorrect` and `CreateThenGetHolds` (`Spec => []TypeOK`, `Spec => []CreateThenGet`).
  - CreateThenGet is not inductive on its own. A Create whose id equals a live order's id overwrites that order.
  - The strengthening `LiveWellFormed` says every live order is `NewOrder` of its own request and timestamp. With it, two live orders with the same id are equal (lemma `SameIdSameOrder`), so the overwrite writes the same value.
  - The proof has one case per action, and one step per conjunct the action can disturb.
- `StreamManagerProofs!TypeCorrect` and `TableHoldsOpenHolds`.
  - The inductive invariant adds three facts:
    - Every stream number anywhere is at most `made`.
    - No stream is the entry of two peers.
    - The stream an OpenStream is about to put is open, in no entry and held by no other goroutine.
  - Freshness is why a concurrent CloseStream cannot close a stream before it reaches the table. Injectivity is why closing one peer's entry leaves every other entry open.
  - The lemma `TableFrame` covers the steps that leave the table alone.
- `StreamManagerProofs!ImplementsRegistryHolds` (`Spec => ImplementsRegistry`): the table refines `StreamRegistry` under `RegMap`.
  - The initial state maps to the registry's.
  - Each step maps to a registry step or a stutter:
    - `Call`, the map-write begin steps and `MapThrow` leave `RegMap` alone;
    - a successful `NewStream` is `OpenNew`;
    - a finished `Put` is `Register`;
    - `Get` is `Close`, or a stutter when another CloseStream has already closed that entry;
    - `Del` is `Drop`, or a stutter when the entry it removes is one it closed itself.
  - Two invariants carry the argument:
    - The table invariant above. Freshness makes the stream a `Put` registers held by no peer.
    - `ClosedInv`: the stream of every goroutine about to delete is already closed. This is why a `Get` of an entry another CloseStream is closing does not close anything the registry still shows.

- `P2pNetProofs!TypeCorrect` (`Spec => []TypeOK`), for any number of nodes, any bootstrap configuration and any bounds on sends and faults.
  - TypeOK is inductive on its own. The proof has one lemma per action.
  - The lemmas `AddStreamDef` and `AddStreamType` cover the growing function of streams. `TypeIntro`, `FailType` and `StepType` assemble the next state's type from each variable's type.
  - No run checks P2pNet's TypeOK: the model's stream keys have no counterpart in the Go code, so no bug of the code could break it.

These stay with TLC:
- the liveness of `P2pNet` and `StreamIO` (fairness and `ENABLED` are outside the prover's reach);
- all of `StreamIO`: it reads the wire through `SelectInSubSeq` and `Contains` of SequencesExt, which reaches the RECURSIVE operators of Folds, and a module that reaches a RECURSIVE declaration loses the prover's SMT backend;
- everything the violation runs show.
