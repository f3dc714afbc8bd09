# node_crunch in TLA+

[node_crunch](../src/README.md) distributes a computation: a *server* splits a job into chunks, *nodes* connect to it over TCP, ask for a
chunk, compute it and send the result back. Nodes send heartbeats; the chunk of a node that misses its heartbeat goes to another node. When
all chunks are done the server saves the result and ends, and the nodes end because nobody answers any more.

This directory holds a model of that program, the model checker's configurations, and proofs.

## 1. Inventory

| Component | Source | State | Operations | Module |
|---|---|---|---|---|
| Server framework | `src/nc_server.rs` | `job_done`, `node_list`, `new_server`, the user's server, the communicator, each behind its own mutex (or atomic); the listener; a pool of threads | `start`, accept loop, heartbeat thread, `handle_node` with one branch per message | `NCServer`; `ServerLocks` (mutexes, pool, statistics); `ServerRestart` (killed and started again) |
| Node framework | `src/nc_node.rs` | server address (shared by two threads), node id, two retry counters | `start`, main loop, heartbeat thread, migration | `NCNode`; `Heartbeat` (how long it sleeps) |
| Node list | `src/nc_node_info.rs` | a vector of (id, time stamp, message queue) | register, heartbeat, check, messages, remove, migrate | `NCNodeList`; `Heartbeat` (the stamps); `Mailboxes` (the queues) |
| Chunk list | `src/array2d.rs` (`ChunkList`, `Chunk`) | status and owner of every chunk | next free, processing, finished, timeout, stats | `ChunkList` |
| Image | `src/array2d.rs` (`Array2D`, `Array2DChunk`) | the pixels | tiling, get and set a chunk | `Array2D`; which chunks have a result: `image` in `NCServer` |
| Job server | `examples/*/src/server.rs` | chunk list, image | `prepare_data_for_node`, `process_data_from_node`, `heartbeat_timeout`, `finish_job` | `NCServer` (the three examples share this logic), `Array2D` |
| Communicator | `src/nc_communicator.rs` | key, nonce | send, receive, send and receive; framing, compression, encryption | `NCConnection` (streams), `Communicator` (bytes) |
| Node computation | `examples/*/src/node.rs` | none | one chunk in, one result or an error out | `NCNode` (`SendHasData`, `WorkFails`), `Array2D` (`ComputeRow`, `RenderTile`); not the numerics |
| Configuration, errors | `src/nc_config.rs`, `src/nc_error.rs` | none | | constants of the modules, `config` in `Communicator` |
| Scenes, command line | `examples/` | none | | not modelled |

**Interaction.** Every request is a TCP connection of its own. `Register` and `NeedsData` wait for a reply; `HeartBeat`, `HasData` and
`NodeMigrated` are written and forgotten. The server's heartbeat thread, an operator and the nodes all speak to the server through the same
port. A request becomes a job of the thread pool, and a handler takes and releases several mutexes one after the other, so that handlers
interleave between them.

**What is hard.**

* Two requests of one node overtake each other, because they travel on different connections and run in different threads.
* `CheckHeartbeat` computes the list of timed out nodes under one mutex and uses it under another. Nodes crash, come back late, or have their
  chunk taken away while their result is on its way; the result of a node that was given up and that of its successor race.
* The end of the job travels: a handler sees the last chunk finished, later sets `job_done`, the accept loop looks at the flag only after it
  has accepted one more connection, then saves while handlers go on.
* Nobody tells a node that the job is over.
* Messages are lost with their connection, and of the two loops of a node one may give up before the other.
* A guard in the scrutinee of an `if let` lives as long as the branch, so that some handlers hold one mutex, or two, while they wait for
  another; the communicator's is held during a blocking read.
* A node's heartbeat and the server's check run by clocks that nobody synchronises.
* A server that is started again meets nodes that still think they are registered.

**What makes each component correct.**

* Chunk list and job server: a result is stored once; what is saved is complete; no chunk is forgotten; two living nodes do not compute the
  same chunk; the job ends although nodes crash, or the server does and comes back.
* Server framework: it is stopped only for a reason; a handler that panics must not disable the others; handlers never wait in a circle;
  a request that was sent is served; it ends.
* Node framework: the retry counters never underflow; a node ends once its server is gone; a node that moves takes both threads along.
* Node list: heartbeats reach the right entry; who lives is not given up and who is silent is, in time; messages of a node arrive in order,
  none twice, and are forgotten only at the limit of the queue.
* Array2D: the chunks tile the image, whatever the sizes; the assembled image is the one a single machine computes.
* Communicator: what is received is what was sent, or an error.

`PROJECT.json` lists under "hazards" each place where this can go wrong, with the properties that watch it.

## 2. Modules

```
 NCMessages              the two message enums
   |-- ChunkList         array2d.rs: the book-keeping list           (operators)
   |-- NCNodeList        nc_node_info.rs                             (operators)
   |     |-- ServerLocks nc_server.rs: mutexes, pool, statistics
   |     |-- Mailboxes   custom messages from end to end
   |-- NCConnection      connections: listener, streams, faults      (listening, conn)
         |-- NCServer    extends ChunkList, NCNodeList: nc_server.rs + the examples' job server
         |-- NCNode      nc_node.rs
               \-- NodeCrunch         servers, nodes and the environment; the properties
                     \-- ServerRestart   the same, with servers that are killed and started again
 Heartbeat               heartbeats with the clock
 Communicator            nc_communicator.rs: layers, frames, configurations
 Array2D                 array2d.rs: the image, its chunks, and nodes that compute them

 JobSpec                 what a server promises about its job; NodeCrunch refines it
 MailboxSpec             what a server promises about custom messages; Mailboxes refines it
 MC*                     constants, requests and initial states for TLC

 NodeInvariants          the inductive invariants of NodeCrunch: types, ids, moves, chunks, who works on what
 NodeListLemmas          what the operations of the node list return
 NodeCrunchProofs        the theorems that follow from them; uses NodeListLemmas
 JobProofs               the job's invariant, its theorems, the refinement, restarts, exclusive work
 HeartbeatProofs         stamps and clocks
 ServerLocksProofs       waiting and statistics; uses NodeListLemmas
 MailboxProofs           order and fate of messages, the refinement; uses NodeListLemmas
 CommunicatorProofs      what the layers of the communicator let through
 Array2DProofs           the chunks tile the image, the pixels they leave in it
```

### Servers and nodes (`NCServer`, `NCNode`, `NodeCrunch`)

**State.** A server's variables are the fields of `NCServerProcess` and of the example's `MandelServer`; `main_loop` and `server_heartbeat` are
the program counters of its two long-lived threads, `listening` says whether the `TcpListener` exists. A handler's program counter is the `step`
of its stream in `conn`. A node's variables are the fields of `NodeProcess` and `NodeHeartbeat` plus the program counters of its two threads.
`departed` and `stopped` are history variables: the ids that moved away, and whether a `ShutDown` has been handled.

**Actions.** One action is what a thread does while it holds one mutex (or, where no other thread can tell, up to the next one). `NeedsData` is
the longest handler: new server? (`HandleNeedsData`, `HandleLeavingNode`, `HandleUnknownNode`), custom message? (`SendCustomMessage`,
`NoCustomMessage`), work (`PrepareUnfinished`, `PrepareWaiting`, `PrepareFinished`), flag (`HandleFinished`). `CheckHeartbeat` takes two steps
(`HandleCheckHeartbeat`, `HeartbeatTimeout`). The others take one. The mutex guard in the scrutinee of an `if let` lives as long as the
branch, which is why `HandleLeavingNode` is one action and why `HandleUnknownNode` poisons both mutexes.

**Abstractions.**

* A chunk of data, or a result, is the index of the chunk; `image` records which node's result a chunk holds.
* A time stamp is one bit, `stale`: older than the limit the check uses. `HeartbeatExpires` sets it once the node's heartbeat thread is no longer
  running (time passes); `HeartbeatLate` sets it for a node that is alive, as an event of the environment. A `HeartBeat` clears it.
  `Heartbeat` replaces the bit by a clock and shows when a living node can be late at all.
* The server's heartbeat thread leaves its loop at the first error (`ServerHeartbeatExits`), be it that the server has closed its listener or that one
  connection failed while it listens: the event `refuse` covers the thread as well as the nodes (`CheckRefused`).
* `NodeID::random()` returns any id that is not in the list, as `register_new_node` makes sure of, and, as 64 random bits do but no code
  does, none that has moved away from a list or was in use before a restart.
* A request is there as soon as the connection is made, so that a handler never stalls half-read; then neither the communicator's mutex nor the
  size of the pool has an effect. `ServerLocks` takes the opposite view.
* A stream that the client does not read from is not *open*: the client is gone and never learns what became of it.

**The environment** is part of `NodeCrunch`: a node crashes, a heartbeat is late, a request or a reply is lost with its stream, a node or
the server's heartbeat thread cannot connect, a computation returns an error, an operator sends `ShutDown`, `NewServer` or a `CustomMessage`. `Events` says which of these a run
admits.

**`ServerRestart`** adds `Kill`, at any point before the image is saved and one more kind of event, and `Restart`. A server keeps everything in
memory, so its next life starts with what `NCServerProcess::new` makes; its nodes notice at most a few failed connections and go on with their
old ids. Answers that were already written can still be read, all other streams break. `asked` is a history variable: what this life of the
server has given to whom.

### Mutexes, pool and statistics (`ServerLocks`)

A connection is `quiet` until its peer has written the request (`sent`), has closed it (`gone`) or has stopped without closing (`hung`). A
handler locks (`holder`), reads, and goes from step to step; a step that needs a mutex is in `Wanted`. `Return` drops all guards, `GotoWith`
keeps one: `NewServerFound` holds `new_server` while it waits for `node_list`, and then, like `GetMessage`, for the communicator. Handlers wait in
`jobs` for one of `pool_size + 1` threads, of which the heartbeat loop occupies one for good. The user's server has a mutex too; nothing is
waited for under it, so it is left out. `GetStatistics` reads the list twice, under two separate locks.

### The clock (`Heartbeat`)

Time runs in ticks. Threads that sleep wake up at most `Slack` late, messages take effect after at most `Delay`, expressed as deadlines `Tick` does not
pass; the server's check thread goes on (it gives up at the first failed connection, see section 3). `age` is the elapsed time of a node's stamp, `heartbeat_invalid` counts whole seconds as `as_secs()` does. The check is sent every two heartbeats
and not synchronised with the nodes. `lost` remembers whose heartbeat was lost with its stream.

### Custom messages (`Mailboxes`, `MailboxSpec`)

The queues of one server's node list, with everything that moves a message: the operator's request, a node's `NeedsData`, streams that break while an old
handler goes on and takes messages for nobody, nodes that leave (`swap_remove`), come back (`migrate_node`) or ask
twice (`remove_node` panics). A message is the number of its post, so that order and loss can be told. `MailboxSpec` has one box per node and no
list, no handlers, no faults; the box of a node is the queue of the first entry with its id.

### Bytes (`Communicator`)

Data is described by what was done to a request: serialised, perhaps encrypted with a key and a nonce, perhaps compressed. Every process has a
configuration of its own, and decoding what was encoded differently has the outcomes the libraries leave open: a block without a checksum may decompress to
anything, authenticated encryption fails, four bytes of anything are some variant of an enum. A stream may end anywhere in length or data. The server's
communicator is shared behind a mutex, which a panic poisons. The replies use the same functions with the roles swapped and are left out.

### The image (`Array2D`)

It stands on its own: it is about pixels, `NCServer` about who may deliver which chunk. `array2d_chunk` is the server's `Array2DChunk` with the linear
vector of `Array2D`, `tile` the arrays the nodes fill, `rows` the rows they have not computed. The value of a pixel is its position in the whole image,
the only thing the computation depends on. `mandel2` computes rows in parallel (`ComputeRow`), the ray tracer renders a part of the scene and copies it
(`RenderTile`); the serial loop of `mandel1` is one of the orders of `ComputeRow`. `SetChunkMismatch` is a client of the library that hands in
an array of the wrong size, which the examples never do.

## 3. Properties and runs

| Run | Instance | Properties | What it shows |
|---|---|---|---|
| `crash` | 1 server, 2 nodes, 2 chunks, 3 streams, 1 crash | `NoStrandedChunk`, `ExclusiveWork` | Wherever a node dies (request in the backlog, in a handler, chunk assigned and not received, result under way), its chunk is under way or will be freed; and no other node gets the chunk of a node that lives. |
| `move` | 2 servers, 1 node, 3 streams, 2 events (crash, late, `NewServer`, `CustomMessage`) | `NoStrandedChunk`, `NeverPoisoned` | A node that moves while its requests overtake each other, while the old server times it out, while messages come for it, or that dies on the way. |
| `faults` | 1 server, 2 nodes, 1 chunk, 2 streams, 2 events of every kind but crash (late heartbeat, lost stream, refused connection, failing computation, `ShutDown`, `NewServer` to the server itself) | `TypeOK`, `SavedImageComplete`, `WriteOnce`, `JobImplemented` | Both nodes get the same chunk and deliver it in any order, also after it was freed again: the first expected result stays, what is saved is complete, and the job behaves like `JobSpec`: results never change and are reported once, complete or cancelled. |
| `restart` | 1 server, 2 registered nodes, 1 chunk, 2 streams, one crash of a node or one kill of the server | `RestartTypeOK`, `SavedImageComplete`, `OnlyAskedFor`, `AllEnds` | Results, requests and heartbeats of the server's first life reach the second: only what the second has asked for gets into its image. One surviving node is enough to finish; then the server exits, and so do the nodes. |
| `locks` | 2 peers, one may hang, 2 handler threads | `NoCircularWait`, `StatisticsInOrder`, `ServedUnlessBlocked` | With all handlers that hold a mutex while they wait for another, nobody waits in a circle, nor for himself; a request that was sent is served or its connection closed, also at the end of the job, unless a peer has stopped in the middle of its own; statistics list no fewer nodes than they count. |
| `beat` | 2 nodes, heartbeat of 1 s, 4 ticks a second, slack and delay 1 | `NoFalseTimeout`, `DetectedInTime` | Who lives and is heard is never given up; who falls silent is, at whatever phase of the check, by the moment the documentation allows. |
| `messages` | 2 ids, 2 streams, 2 posts, queues of 1 | `TypeOK`, `MailboxImplemented` | Queues, handlers and streams implement a mailbox per node; no queue grows beyond its limit. |
| `queue` | 1 id, 3 streams of which 2 abandoned, 5 posts, queues of 3 | `MessagesInOrder`, `NothingForgotten` | Messages arrive in order, none twice; one that does not was lost with a stream or pushed out by as many newer ones as the queue holds. |
| `frames` | 2 peers and a server with any configuration, 2 keys | `TypeOK`, `AgreeingUnderstood`, `OnlyWholeRequests` | Whoever is configured like the server is understood, whatever others send; half a request is an error. |
| `image` | every size up to 5 x 3 with at most 6 chunks | `Tiling`, `ImageAssembled`, `PixelsKept` | The chunks cover the image without overlap, also when their size does not divide it; computed and set in any order they make up the sequential image. |

**Bounds.** Two nodes are enough for every race about one chunk: the handlers of a node only touch its own entry and chunk, and a race has an old
and a new owner. Two chunks make a node return for more while another still works (`crash`). Three streams let a request of each of two nodes
and a heartbeat check (or: two requests of a node that overtake each other, and one of the server) be under way at once; where two are allowed it
keeps a run with more kinds of faults small. A node has at most one `HeartBeat` and a server one `CheckHeartbeat` under way. One or two events
suffice to make each fault meet each step; `move` has one for the request of the operator and one for a fault, `faults` two so that a chunk is
taken away from both nodes in turn, or a fault meets a job that was shut down. `restart` has one, since a third life differs from the second in
nothing but the ids that are in use. `RetryCounter` is 0, or 1 where a node has to try again, `QueueLimit` 1 or 3 instead of 10.

Two handlers make a circle of two mutexes, and a third mutex is there for them to find free or taken (`locks`); longer circles, more peers and
every size of the pool are covered by the proof of `NoCircularWait`. `MaxHung` is 1, since one peer that hangs in its read already holds the only
mutex a read can hold. `NodeIDs` is the number of nodes that may come to that server. `MaxAge` (`beat`) lies beyond `LongestSilence`,
21 ticks, where the two ages are still told apart; four ticks make a second, so that a slack and a delay of one are just less than the second the
proof allows. `MaxPosts` is two more than the queue holds in `queue`, so that the oldest is pushed out twice; `MaxAbandoned` bounds the old requests
whose node has asked again. `NonceRange` is 2, so that nonces wrap around. `image` has chunks that divide the image and chunks that leave a rest,
in each direction, up to three columns or rows of them; there the end of all steps is the complete image, not a deadlock. In `ServerLocks` nobody
has to connect and peers may hang, so that a state without a next step is legal and deadlock is not checked; what must not get stuck is stated by
the properties. Symmetry (nodes, ids, peers, keys, streams) is used only in runs all of whose properties, refinements included, are safety.

**Fairness.**

* `NodeCrunch`, and `ServerRestart` with it: threads of the operating system are scheduled, and loops that sleep wake up. Weak fairness for the
  main loop, and for time; strong fairness for what competes for a stream slot (the slots of `Conns` are a bound of the model, sockets are not scarce in
  the program) and for a stream in the backlog (it is a queue, nobody is overtaken for ever). Nothing is assumed about crashes, faults,
  operators, kills and restarts. The heartbeat check is fair because its thread is; that a dead node's entry gets too old is `HeartbeatExpires`.
  `restart` and `lost_result` start when all nodes have registered, since registration shares nothing with what follows.
* `ServerLocks`: weak fairness for the main loop, the pool, and a peer that runs (it sends what it has connected for, or closes); strong fairness
  for a connection that is accepted or whose handler has to compete for a mutex.
* `Heartbeat`: none is needed. Its properties are safety, since a deadline is a moment `Tick` does not pass.

**Runs that end in a violation**, where the repository says something else than the code does:

* `lost_result`: one connection that breaks while it carries a chunk or a result costs the job its end: the node lives, so its chunk stays assigned.
  `array2d.rs:256` speaks of nodes that "lost the network connection" as a case that is dealt with.
* `move_lost`: if the reply that moves a node gets lost, the node asks the old server again, and `remove_node()` unwraps the position of an entry that
  is not there any more. The panic poisons two mutexes, and no other node can be moved, or be served at all.

**What else the models show**, without a run of its own:

* `finish_job()` is called *before* the pool is joined, while handlers still run (`FinishJob`, then `JoinThreads`); the comment at `nc_server.rs:83` says
  after. `SavedImageComplete` shows why this is harmless to a job that is not cut short.
* When the main loop of a node has used up its retries, the node waits for its heartbeat thread, which goes on as long as the server lives;
  `nc_node.rs:156` says it exits. Since it beats on, its chunk is not given away either. `AllEnds` holds because the run admits nothing that
  makes a main loop fail while the server listens.
* A peer that connects and then stops, without closing, keeps the communicator's mutex; nobody is served any more, the heartbeat check included.
  This is the exception `Blocked` in `ServedUnlessBlocked`.
* The restarted server gives work to nodes that are not on its list, but times out only those that are. If such a node crashes, its chunk stays
  assigned for ever, which is why `restart` has a crash or a kill, and not both.
* A living node's chunk may be given to another when the server ends too early for it. After a `ShutDown` the listener is gone while handlers still run; the
  nodes' heartbeats are refused, a heartbeat check that was accepted before frees their chunks, and a `NeedsData` that was accepted before
  gets one of them. After a `NewServer`, a node whose old server ends before it has read where to go loses its heartbeat thread, which is not
  started again: it works for the new server unheard, is given up and its chunk is computed twice. Either way the first result counts (`WriteOnce`).
  `ExclusiveWork` is therefore stated for servers that are not told to stop and nodes that stay.
* A node is given up when its stamp is as old as one heartbeat and a second; `nc_node_info.rs:95` and `nc_server.rs:80` say two heartbeats. One lost
  heartbeat can therefore be enough to give up a node that lives. `NoFalseTimeout` and `DetectedInTime` hold for either limit (the bound `LongestSilence` is
  made from the documented one); that the code gives a silent node up one heartbeat sooner is the theorem `CodeSilenceDetected`.
* One connection that fails while the server listens ends its heartbeat checks for good (`CheckRefused`); `nc_server.rs:128` knows the end of the main loop
  as the only reason. From then on nobody is given up, and a chunk whose node crashes stays assigned. No run that asks whether chunks are freed
  admits a refused connection, and `NoStrandedChunkHolds` and `ExclusiveWorkHolds` exclude it (`NothingFails`, `Steady`).
* `decrypt_data()` splits off twelve bytes without looking whether there are so many; the shortest requests of a peer that does not encrypt make
  the handler panic, where `nc_communicator.rs:121` promises an error (`OnlyWholeRequests` rules it out only if all are configured alike).
* `len()` is said to count all nodes that have registered since the start (`nc_node_info.rs:136`); those that were sent away are not counted.
* The comment at `nc_server.rs:54` says `NCJobStatus::Finished` is sent to nodes, it is not (and the comment at `nc_server.rs:356` says so); a retry
  counter of *n* allows *n + 1* failures, since `dec_and_check` tells that it is zero only when asked once more; the documented and the actual
  default of `heartbeat` in `nc_config.rs` differ; a failed decryption is reported as an error of encryption.

## 4. Proofs

The proofs hold for any number of servers, nodes, chunks, streams, ids, peers and events.

* `TypeCorrect`: `Spec => []TypeOK`. `TypeOK` is not inductive: the type of `node_id` after a reply depends on what the reply says, of a chunk's owner on
  the request a handler is at. `TypeInv` adds what the handlers and nodes rely on: a handler past its first step serves `NeedsData`
  (`WellFormed`), a stream that is answered carries a reply, a node that waits has an open stream which is its own (`NodeOK`, `OwnStreams`), and a node
  that needs an id has one. Every step of a server makes `StreamsProgress`: streams stay well formed, and an open one is not taken away from its client.
* `IdsAreUnique`: `Spec => []IdInv(home)`, where all nodes start at the server `home` and operators send only what is an operator's to send (`OneHome`).
  No two nodes have the same id, and an id that is on its way in a reply is nobody's yet (`OwnIds`, `GrantsOK`); a request carries the id of a
  node, and a node asks on one stream at a time, on which it waits until it dies (`RequestsOwned`, `AskOnce`, `Waits`). Any event may occur. With two homes
  the theorem is false: each server draws ids without asking the other.
* `NeverPoisonedHolds`: `Spec => []NeverPoisoned`, if in addition no operator sends nodes on from a server that nodes are sent to (`MoveOnce`) and no message
  is lost. `MoveInv` says that every order to move can be traced to an operator, so that a node is at home or has been sent from there (`OrdersOK`,
  `Places`), and that a node is listed at home as long as it does not know that it has to leave (`Listed`, `IdsListed`). The run `move_lost` shows
  that the third condition is needed. A server that sends on the nodes it is sent may be asked before it
  has handled their `NodeMigrated`, which is why the second is.
* `NoStrandedChunkHolds`: `Spec => []NoStrandedChunk`, under the same conditions and if no connection is refused and no computation fails (`NothingFails`):
  in these cases the node lives and drops the chunk, and nobody notices, or the server's check has ended. Nodes may crash at any time, be late and be moved. `StrandInv` adds who knows
  whom: wherever a node asks for work its id is listed, or the `NodeMigrated` that announces it is in the backlog (`KnownAway`), and a chunk that is
  not under way belongs to a node that has died, is known to the server, and has no request left that would strike it off the list (`Lost`). The
  streams carry the argument: each step of a server only advances them (`Serves`), and a node loses none that brings news or work.
* `JobCorrect`: the invariant `JobInv` of the job. A chunk is finished exactly if the image has its result (`ListMatchesImage`); a handler that
  is about to set the flag (`ShutDownJustified`), and the flag itself (`DoneJustified`), are justified, which stays so because finished chunks stay finished;
  the accept loop saves only on the flag, and once (`SavedLast`). `StepsOfTheJob` first shows that all but ten actions leave the job alone; the ten
  are treated one by one.
* `SavedImageIsComplete`, `WritesOnce`: `Spec => []SavedImageComplete`, `Spec => WriteOnce`, from `JobInv`.
* `ImplementsJob`: `Spec => JobImplemented`. `AcceptResult` is `Deliver`, `HandleShutDown` is `Cancel`, `FinishJob` is `Report`, all else stutters.
* `ExclusiveWorkHolds`: `Spec => []ExclusiveWork`, if all nodes start at one server, operators send custom messages only, no heartbeat is late, and no
  connection is refused while the server listens (`Steady`); nodes may crash, streams break and computations fail at any time. It follows from
  `WorkIsAssigned`: `Spec => []WorkInv(home)`. As long as the server listens every living node's heartbeat thread runs, so no node that lives, or is
  about to learn its id, is stale or on the list a heartbeat check is at (`SuspectInv`). What a node computes, or is being offered, is assigned to it, and
  stays so until its result has been read, which is under way once only (`HoldInv`): a second copy could be counted after the chunk was
  given to the node again. The server closes its listener, after which heartbeats fail, only when all results are there (`StayInv`, from `JobInv`),
  so that nothing is left to be freed. `Brings` says which requests, replies and lists of suspects a step may bring to a stream; most steps bring none that
  matter (`SuspectKept`, `HoldKept`). Section 3 tells what happens when an operator ends the job early or moves the nodes.
* `StampsBounded` (`HeartbeatProofs`): the inductive invariant of the clock. A sleeping thread has slept no longer than its period and the slack, a message
  is no older than the delay, and the stamp of a node that is heard is no older than what its thread has slept and its youngest message took; the last
  check and what is under way say who must have been found. `NeverGivenUp` follows if late threads and slow messages together stay below the second
  `as_secs()` cuts off (`Slack + 2 * Delay < Second`, the theorem's hypothesis), for every heartbeat period; `CodeSilenceDetected` and
  `SilenceDetected` (after `LongestSilence`, which is a heartbeat more) need no such hypothesis.
* `NobodyWaitsInACircle` (`ServerLocksProofs`): each step may hold certain mutexes and no others, and it wants one that comes later
  in the order `new_server`, `node_list`, `nc_communicator`; a handler that reads holds only the last. So in every set of handlers one waits for nobody in
  it. `StatisticsAreInOrder`: while no new server is set entries are only added, so the second reading is no shorter than the first
  (`NodeListLemmas` says what each operation does to the length, the ids and the type of the list).
* `ImageTiled` (`Array2DProofs`): `Spec => []Tiling` for images and chunks of every size. One axis cut every *c* pixels is tiled by its pieces
  (`AxisInside`, `AxisCovered`, `AxisDisjoint`, from what integer division does); chunk ids are pairs of pieces (`IdToPair`,
  `PairToId`); no step changes the sizes (`SizesKept`).
* `ImageIsAssembled`, `PixelsAreKept`: `Spec => []ImageAssembled`, `Spec => PixelsKept`. `ImageInv` says what every array holds at any time: a tile the
  values of the rows its node has done (`TileInv`), the image exactly the pixels of the accepted chunks (`PixelInv`). An accepted tile changes no pixel of
  another chunk, because the chunks are disjoint, and the image is complete once all are accepted, because they cover it: `Tiling`.
* `RestartCorrect` (`JobProofs`): `RestartSpec => []RestartInv`, the job's invariant with servers that are killed and started again at any time.
  `Kill` clears the list of nodes, the list of chunks and the image while nodes and requests of the first life live on, so the invariant ties the lists
  to what the server has given out in this life (`asked`): a chunk that is being processed has been given to its owner (`ProcessingIsAsked`), and so has
  one whose result is in the image (`OnlyAskedFor`), since results are taken from the owner only. A server that was killed had saved nothing
  (`KilledUnsaved`), which is why it may start again. From it `RestartTypeCorrect`, `RestartedImageIsComplete` and `OnlyAskedResultsCount`.
* `MessagesAreInOrder`, `NothingIsForgotten` (`MailboxProofs`): what a node has got is older than what is in a stream for it, and that is older than what waits
  in its queue, which is in order itself (`OrderInv`); every message addressed to a node that is listed is in one of these places, was lost with a stream, or
  is older than as many newer ones as a queue holds (`Explained`). It rests on `ListInv` (ids are listed once, those that are here and move to no one)
  and `StreamInv` (a node has at most one open stream, and who is told to leave is listed no more).
* `ImplementsMailbox`: `Spec => MailboxImplemented`. `box`, `asking` and `carried` map a list of entries with queues, streams and nodes to one box
  for each node; `MailboxStep` finds the box's step for each step of the server.
* `AgreeingAreUnderstood`, `RequestsAreWhole` (`CommunicatorProofs`): `RoundTrip` says that decoding undoes encoding for two processes that are configured
  alike. `Encoded` carries it from where a request is written to where it is read, `ConnInv` adds how a handler that is done got there, and a server
  all of whose peers are configured like it is never poisoned.

Assumptions, all named: `NCMessagesAssumption` (`None` is no value of the program), `NCConnectionAssumption` (nor a stream or the slot of one), `QueueLimitAssumption`,
`NCNodeAssumption` (every node has a server, the retry counter is a natural number), `NodeCrunchAssumption` (operators send messages of the protocol),
`HeartbeatAssumption` (periods and bounds are natural numbers), `ServerLocksAssumption` (requests are messages of the protocol,
there is a thread for handlers), `MailboxesAssumption` (messages are numbers, and `None` is neither a stream nor a queue), `CommunicatorAssumption` (the
markers for no value, a failure and a panic are no data), `Array2DAssumption` (the asserts of `Array2DChunk::new`). TLC
evaluates them in every run of the module.

`IdInv`, `MoveInv` and `StrandInv` were checked with TLC on the instances of `crash` and `move` before they were proved; both instances satisfy all
hypotheses of the three theorems. `WorkInv` was checked on the instance of `crash`, which satisfies `Steady`, with breaking streams, failing
computations and custom messages added.

Only model-checked: `AllEnds` and `ServedUnlessBlocked`, liveness under fairness, which the prover cannot handle. All safety and action properties and all
refinements of the passing runs are proved.

## 5. Plan

Every component that keeps state or takes part in the protocol has a module, and every safety property, action property and refinement a passing run
checks is a theorem. What can still be made stronger is a hypothesis: `ExclusiveWork` for nodes that move, as long as the old server listens
until all of them have left.

**Not modelled**, and no plan to: compression, encryption and serialisation as functions on bytes, the numerics of the examples and their scenes,
the command line, the formatting of errors and logs. An old result that arrives after a restart is accepted if its sender has been given
the same chunk again; the model, like the program, cannot tell it from the new one, and since a chunk's result depends only on the chunk this does no harm.
A node that is given the id of a node from before the restart, one in 2^64, is not covered.
