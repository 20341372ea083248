# Specifications of the Dataplicity agent

The Dataplicity agent (`dataplicity/`, Python) runs on a device. It keeps one
websocket to the M2M server, over which remote users are given *channels*: a
terminal, a forwarded TCP port, a file, the output of a command, an echo. It
reports the device to an API server with JSON-RPC calls, and it lets the server
list, fetch and store files of one "remote directory".

This directory models the agent in TLA+, checks the models on small instances
with TLC, and proves some of the results for every instance with TLAPS. All
paths below are relative to `src/dataplicity/` unless they begin with `src/`.

1. [The system](#1-the-system)
2. [Modules](#2-modules)
3. [Runs](#3-runs)
4. [Fairness](#4-fairness)
5. [Proofs](#5-proofs)
6. [Where the code and what it promises
   disagree](#6-where-the-code-and-what-it-promises-disagree)
7. [What is not modelled](#7-what-is-not-modelled)
8. [Plan](#8-plan)

## 1. The system

### Threads

| thread | started by | does |
|---|---|---|
| main | `client.py`, `Client.run_forever` | polls: disk space, tags, meta data |
| WS | `m2mmanager.py`, `M2MManager.init` | handles websocket events one at a time, and runs every callback of a channel |
| one per service | `Connection.connect`, `Terminal.launch`, `FileService`, `CommandService` | copies data to a channel, closes it, gives its slot back |
| one per scan | `DirectoryScanner.perform_scan` | walks the remote directory, writes `scan.json` |
| one per closed terminal | `RemoteProcess.close`, `PidWaitThread` | waits for the shell, kills it |
| clock | `ClockCheckThread` | kills the agent when the clock jumps |

Most of what is difficult follows from this table. Channels, buffers, sockets
and descriptors are shared by the WS thread and the thread of a service, mostly
without a lock; the link may drop at any moment, and what is sent while it is
down is lost without an error (`m2m/wsclient.py:307`).

### Components

| component | state | operations | what makes it correct |
|---|---|---|---|
| `limiter.py` | counter, lock | `increment`, `decrement`, `with limiter():` | the counter is the number of live services, over failed starts and early ends; no slot leaks |
| `m2m/wsclient.py` `WSClient` | channel table, identity, pending callbacks | an `on_*`/`handle_*` per packet, `send`, `close_channel` | data reaches the service of its own session and no other; a lost link ends every session |
| `m2m/wsclient.py` `Channel` | `_closed`, callbacks, deque | `on_data`, `on_close`, `write`, `send_control`, `close` | callbacks in order, the close callback once |
| `m2mmanager.py` | terminals, `notified_identity` | `on_instruction`, `set_identity`, `Terminal.launch` | starts what it is told to; knows what the API server knows |
| `portforward.py` | connections, sockets, read buffers, one close event | `on_channel_data`, `on_channel_close`, `_run` | bytes in order both ways, none lost about the connect; ends with its channel |
| `m2m/remoteprocess.py`, `m2m/proxy.py` | pid, `master_fd`, `_closed` | `on_data`, `on_close`, `spawn`, `_copy`, waiter | the shell's own pty; the shell ends with its channel |
| `m2m/fileservice.py` | position in a file | `run_service` | a close without an error means the whole file |
| `m2m/commandservice.py` | process, two pipes | `run_service` | "complete" means all of stdout; the shell is killed with its channel |
| `m2m/echoservice.py` | none | `on_data` | data comes back as it was |
| `client.py`, `device_meta.py`, `jsonrpc.py` | `_sent_meta`, `_tag_list`, poll time, cached meta data | `poll`, `sync`, `set_m2m_identity`, batches | it believes the server holds only what it holds; the server ends up with all of it |
| `directory_scanner.py`, `remote_directory.py` | lock, `scan.json`, snapshots, temporary files | scan; open, read, close; write | a listing is of one version when it is reported; an upload is one snapshot, of one version unless its source is written while it is copied; a stored download is whole |
| `client.py`, `app.py`, `subcommands/run.py`: the process | what of the Client is built, the clock thread | `_init`, `run_forever`, `main` | no instruction is lost once the Client is complete; an interrupted agent ends |
| `clockcheck.py` | `running` | `run`, `on_fail` | an agent whose clock changed is started again |
| `scan_directory.py` | stack, listing, visited inodes | one walk | it ends, whatever the links; nothing twice, nothing missing within the depth limit but what has the inode number of something listed |
| `m2m/bencode.py`, `m2m/packets.py`, `m2m/packetbase.py`, `m2m/dispatcher.py` | none | encode, decode, dispatch | what is sent is what is handled; nothing else reaches a handler |
| `rpi.py`, `iptool.py`, `disk_tools.py`, `tags.py` | none | read the system | |
| `app.py`, `subcommand.py`, `constants.py` | none after start-up | parse arguments, set up | |

### Interactions

* The WS thread calls `Channel.on_data` and `Channel.on_close`, these call the
  callbacks of the service. A service's thread calls `Channel.write`,
  `send_control` and `close`, which look at `_closed` and then send: the WS
  thread may run between the look and the sending.
* `request_close` of the agent is answered by `notify_close`, and only that, or
  a disconnect, closes the channel object.
* A service starts inside `with limiter():`, in the WS thread, and its own
  thread decrements in a `finally`.
* The WS thread calls `Client.sync` and `Client.set_m2m_identity`, over the same
  remote object and lock as the main thread.
* `scan.json` is written by the thread of a scan and copied by the WS thread.
* `M2MManager.init` starts the WS thread in the middle of `Client._init`: what
  instructions need of the Client may not be there yet.
* The process ends when the main thread and all service and scan threads have:
  they are no daemons. The WS thread and the clock thread are.

`PROJECT.json` lists the hazards one by one, at their lines, with the
properties that cover them.

## 2. Modules

Each module begins with a comment on what a step of it is, and what is external
to it. A variable or action that stands for something in the code has its name;
`PROJECT.json` maps every definition to its lines. Actions under the heading
"plausible bugs" are not part of `Next`: each is a wrong version of one
definition, that some property must reject.

| module | models | state and steps |
|---|---|---|
| `Limiter` | `limiter.py` and the protocol of all of its callers | `value`, `owner` of the `RLock`; a step is one critical section, or one step of a caller between two of them. Leaving the `with` is its own step, so a started thread may already want the lock |
| `SlotPool` | abstract: a pool of `Limit` slots | each task asks, holds, is denied or gives back, in one step each |
| `Session` | abstract: what the channels promise users and services | a service is called with the data of its own user, each once, in order, until its session ends |
| `WSClient` | channel table and channels over several connections | `channels`, `chan` (objects in the order they were made), callbacks in `service`; one action per event of the WS thread, and the check and the send of a service's thread apart. *Sessions*, unknown to the agent, tell the users of one port apart, which the server may use again as soon as it is free, on the same connection too. `strays` records what of one session was taken for another |
| `Pipe` | abstract: what a forwarded connection promises its two ends | chunks in order, end of file after all of them; or it breaks |
| `PortForward` | `Connection`, and the manager's shared close event | `socket`, `read_buffer`; one step per critical section of `Connection._lock`, the assignment to `socket` on its own; poll, recv, the look at the channel, the send and the handling of an error are a step each |
| `Terminal` | `RemoteProcess`, `Interceptor`, `PidWaitThread`, `Terminal.launch` | `pid`, `master_fd`, `_closed` (`hung`), set and cleared one at a time; a fork, the set-up after it, a read and a start of a thread may fail; a kernel with a descriptor table that gives out the lowest free number. `fed` counts whose shell got what was typed where |
| `FileService` | `FileService` | the thread's place, and for each use of the channel a check and a send |
| `Transfer` | abstract: what the remote user of a file or of a command may count on | chunks in order, then complete, failed or cut short |
| `CommandService` | `CommandService` | pipes that fill and block the command; a shell and a child that close them and end in any order; the poll result taken once and used for stdout, then stderr |
| `ClientSync` | `Client`'s polls and sync, the identity, JSON-RPC batches | a call is two steps: the server handles the batch, in part perhaps, and the thread takes the answer, or finds it lost |
| `RemoteDirectory` | scans, uploads, restarts | `scan_json` written chunk by chunk under the lock, `snapshot` of each upload copied chunk by chunk without it (`copying`); the server's view in `size` and `data`. `since` and `mixed` record what the source was at the open and whether it changed |
| `Store` | abstract: what the remote directory promises a server that stores files in it | a file, at once or piece by piece, under a name no download has; "stored" only when it is whole; or a failure |
| `Download` | `on_write_remote_file`, `copy_download`, restarts | `temp`, `dest`; a chunk a step, then choosing a name, then a rename, one step, or a copy, a chunk a step |
| `DirectoryWalk` | `scan_directory.py` | the stack of open directories, the listing and the visited inodes; a step is an entry, in any order, or the end of a directory. `fs.shared` says which directories have one inode number, being on different mounts |
| `WalkTrees` | the file systems `DirectoryWalk` is checked on | |
| `Agent` | start-up (`Client._init`, `M2MManager.init`), `run_forever`, `ClockCheckThread`, the end of the process, and what `on_instruction` needs for each instruction | `main` and `built`, `clock`, `running` and `elapsed`; `inbox` and `status` of instructions; restarts by the supervisor |
| `Bencode` | `m2m/bencode.py` | operators: a byte is a symbol, a value a pair of its type and contents |
| `Packets` | `m2m/packets.py`, `m2m/packetbase.py`, `m2m/dispatcher.py` and the way through `WSClient` | operators: the table of types and attributes, creation, encoding, dispatch |
| `Wire` | a packet on its way, in either direction | sent, then received |
| `WirePackets` | the packets `Wire` is checked on: every call of `send` in the agent, every type from the server | |
| `FileSize` | the size of the file of `FileService` | |
| `Limiter_proofs`, `WSClient_proofs`, `PortForward_proofs`, `Terminal_proofs`, `ClientSync_proofs`, `Download_proofs` | | theorems of one module each |
| `MCAgent_proofs`, `MCRemoteDirectory_proofs` | | theorems of the modules that a run puts side by side: file service, command service and agent; remote directory and walk |
| `MC...` | | constants and symmetry of the runs |

Data is abstract throughout: a chunk is its number, a file is the sequence of
its chunks, a version of the remote directory is a number. What stays is the
control: the order of checks, assignments, sends and errors. Composition is at
the channel. `WSClient` models it once with any service on it, and each service
module has the part of the channel it uses: `_closed`, the check, the send, and
the arrival of a close at any later time. The `slot` of a service, its `at` of
"decrement" and "ended", are the `running`, `finishing` and `none` of `Limiter`.

Five modules are abstract specifications, each implemented by others: `SlotPool`
by `Limiter`, `Session` by `WSClient`, `Pipe` by `PortForward`, `Transfer` by
`FileService` and by `CommandService`, `Store` by `Download`. The property
`Implements...` of the concrete module is the abstract specification, its
variables taken for expressions of the concrete ones: those of `SlotPool` are
the owners of slots; of `Session` the calls each service has had, `over`
being the sessions with a service whose channel object is closed; of `Pipe` what
each end has sent and has, a connection being broken once a `sendall` failed or
its local server reset it, and whether a chunk that was checked is on its way to
the user (`coming`); of `Transfer` what is written, what the user has, and
the end it was told of; of `Store` the remote directory, the name a copy is
growing under, and the answers to `write-file`. The buffers, locks and temporary
files between them are not there: they must not show.

### Correspondence worth knowing

* `Limiter.Decrement` has the branch that raises `LimiterError` (`underflow`);
  that it is never taken is proved.
* `WSClient.OnDisconnected` closes the channels and leaves them in the table,
  as `hard_close_channels` does. The repository does not say whether the server
  numbers channels afresh on a new connection, and the model lets it: `Afresh(k)`
  says of a session that its port was in use on an earlier connection. The
  property that depends on it, `ToldOfEnd`, names it.
* The service of a session is an "echo" (a data callback, no thread), a "thread"
  (a terminal or a port forward: callbacks for data and for close, and a thread),
  a "task" (a file or a command: a thread that looks at the channel, and no
  callback, `m2m/fileservice.py:35`, `m2m/commandservice.py:31`), or was "refused"
  by the limiter (`OnRefused`); a terminal has set its callbacks before it is.
* `WSClient.WriteChecks` and `WriteSends`, `CloseChecks` and `CloseSends`: a
  thread looks at `_closed` (`m2m/wsclient.py:71`, `:154`) and then sends, on
  the connection there is then, to the number alone. The server takes such a
  packet for the session that has the number.
* `PortForward.Poll` looks at the channel after `poll()` returns and before the
  events, in the order of the code; `RecvNothing` is both an exception of
  `recv` and no data, since both `break` out of the loop over events only. `Write`
  is the look of `Channel.write`, `Send` what follows, `Leave` and `Ask` the same
  of `Channel.close`.
  `close_event` is one variable for all connections, as in `PortForwardManager`.
* `Terminal.OnData` writes to whatever terminal has the descriptor at the time;
  without one it raises, and to the pty of a shell that has ended it may raise
  or not. Closing the descriptor and forgetting it are two steps
  (`m2m/proxy.py:100`). `CloseFd` frees the number the terminal has, whosoever
  it may be. After `ForkFails`, or `SetPid` that goes to "decrement" (`_init_fd`
  raised), the thread ends and nothing closes the channel (`m2m/proxy.py:64`,
  `:94`).
* `CommandService.eof_readable` is how the system's `poll` reports an end of
  file: Linux gives `POLLHUP` alone for a pipe, others give `POLLIN` as well.
  `mask.hup` is that nobody has stdout open any more, whether they ended or
  closed it, and on it `ReadStderr` does not read (`m2m/commandservice.py:104`).
  Of a poll result stdout is taken to come first: it is registered first.
  `Kill` is for the shell alone (`m2m/commandservice.py:125`, with `shell=True`).
* `ClientSync.OnDisconnected` forgets `identity` before `OnReady` looks at it.
* `ClientSync.DiskPoll` is one step: its answer is not looked at.
* `RemoteDirectory.ScanDirectory` sees one version of the tree in a step.
  `DirectoryWalk` is that step in detail, over a tree that stays as it is. A
  change the user makes is one step too.
* While `copying` the WS thread does nothing else: no other upload, no request.
* `DirectoryWalk.follows` is chosen once: the module's own `DirEntry`, for
  Pythons without `scandir`, takes the inode of what a link leads to, the
  standard library's that of the link itself. Without an inode a directory is
  walked but not named in its parent, as in the code. The code compares inode
  numbers without the device (`scan_directory.py:160`), and so does `Inode`.
* `Agent.Has` says what an instruction finds: `open-terminal` looks a terminal up
  by name and logs if it is missing; forwards go through `client.m2m` and
  `client.port_forward`, and an `AttributeError` is logged by
  `on_instruction_packet`. Both are `Drop`. `frozen` is the hang that
  `clockcheck.py` describes; that and the changes of the clock are external.
* `Packets.Send` is `Failed` where `send` raises, and `OnBinary` says
  "raised" where the exception of a handler or of `init_params` would end the
  event. A packet of an unknown type, or without a handler, is ignored.
* `RemoteDirectory.ReleaseFailed` does not report, and `PerformScan` starts no
  second scan while the lock is held, nor remembers to report for it.
* `Download.Put` is `seek` and `write` into `r+b`: a chunk sent again
  overwrites, and one past the end leaves a hole. `Rename` is `os.rename`;
  `BeginCopy`, `CopyChunk` and `EndCopy` are `shutil.move` where that cannot
  rename either (`remote_directory.py:407`): the file is seen while it grows.

## 3. Runs

Passing runs. In each, every property is also broken by the wrong version of a
definition that `PROJECT.json` lists for it.

| run | instance | states | shows |
|---|---|---|---|
| `agent` | *Limiter:* 2 launchers, 4 services, limit 2. *File:* 4 chunks. *Command:* a shell and a child, 2 chunks on each pipe, of which 2 fit, both ways of reporting an end of file. *Agent:* 2 instructions, of which at most one is not `read-file` | 350 thousand | the counter counts (`SlotAccounting`), slots come back (`SlotsReturned`), and it is a `SlotPool`; a file is a `Transfer`, and so is the output of a command (`OutputIsTransfer`); `ClosedKills` (the shell, with its channel), `NeverBlocked` (on stderr, a command that has stdout open); `AgentExits`, `ForwardChangeRestarts` |
| `channels` | *WSClient:* 2 ports, 2 sessions, 2 packets on the first and 1 on the second, 2 connections. *Wire:* 11 thousand packets | 5.0 million | the channels are `Session`s; `NoGhostChannel`, `ToldOfEnd`, `DataArrives`; `OneStray` (of a service, one packet at most reaches a session of a later connection); `PacketsAsSent` |
| `forward` | a connection with 2 chunks from the user and 1 from the server, and one that only connects and fails | 240 thousand | a connection is a `Pipe`; `NothingLost`, `ClosedEnds` |
| `terminal` | 2 terminals, a chunk typed on either, a chunk written by each shell | 905 thousand | `ReadsOwnPty`, `StrayOnlyInClose` (what is typed reaches another's shell in one window only), `HangupEnds`, `ExitEnds` |
| `sync` | 2 identities, 2 tag lists, 2 fields | 900 thousand | `SentMetaIsHeld`, `NotifiedIsHeld`, `IdentityConverges`, `MetaConverges` |
| `directory` | *RemoteDirectory:* 2 scans, 1 upload, files of 2 chunks, 2 versions, 1 restart. *DirectoryWalk:* 61 trees of 3 directories, 4 of them with mounts that share a number, depth 3, both kinds of inode | 420 thousand | `UploadIsSnapshot`, `ReportedListingIsWhole` (and is no older than what another scan saw), `ScanAnswered`; `ListingIsTree`, `WalkEnds` |
| `download` | 2 downloads of one name, 3 chunks, 3 names, renamed or copied | 880 thousand | the remote directory is a `Store`; `NoDownloadReplaced` |

A run of several modules (`agent`, `channels`, `directory`) puts them side by
side: a variable `part` says which of them a behaviour is of, the others do not
move. It is one check of each, not their product. `TypesOK` is the conjunction of
their type invariants.

Runs that end in a violation, each of something the repository says:

| run | property | see |
|---|---|---|
| `forward_eof` | `EofClosesChannel` | 6.1 |
| `forward_shared` | `OwnFailureOnly` | 6.2 |
| `command_hup` | `FinishedClosesAnywhere` | 6.3 |
| `walk_alias` | `OnlyLinksOmitted` | 6.4 |
| `clock` | `BackwardChangeRestarts` | 6.5 |

### Bounds, and why they are enough

* *Limiter.* Two launchers contend for the lock (the agent has one today, the
  proofs take any number), and more services than slots, so that launches are
  refused, names are used again and a thread ends before its launcher leaves.
* *Channels.* Two sessions on two ports over two connections give each of: one
  port for two sessions of one connection, and of two, with packets of the first
  still under way; two ports at once; a disconnect with packets under way in both
  directions; a close by the server, by a service and by both. Two packets are
  needed to see an order, or a gap; the second session needs one, to be seen by
  the first. A thread writes once and closes once, each being late at will.
  Ports are interchangeable and symmetry is used: no property of this run is of
  liveness, and none, `ImplementsSession` included, tells one port from
  another. The last connection stays up: a session after it would repeat one
  before it.
* *Port forwarding.* The two connections share nothing but the close event.
  One of them has two chunks, to see an order and a partial `sendall`; the other
  is reset at any moment.
* *Terminal.* Two terminals are what it takes to use a descriptor again while a
  stale number of it is left, and one chunk to be written to it.
* *File, command.* A first, a middle and a last chunk of a file to fail at. A
  command writes as many chunks as a pipe holds, so that it is full, and blocks
  who would write more. A third chunk multiplies the states, with nothing new to
  see; the proofs take pipes and outputs of any size. `command_hup` has one chunk.
* *Sync.* Two identities, for the one that changes while it is being sent; two
  fields, for a batch accepted in part; two lists, for tags that change back.
* *Scan.* Two scans to compete for the lock, and two chunks for a file that is
  cut off; one restart, in each state.
* *Walk.* Directories r, a and b, with b in a or beside it, give a chain as long
  as the depth limit. A link is tried at each place, to each directory, alone and
  with a second from b to a; a directory that cannot be read, a root that cannot,
  a root that is none, an inode that fails, a link to a file and one to nothing;
  a mount whose inode number is that of a directory above it, or beside it.
  Entries come in every order.
* *Agent.* One instruction of any kind, and one whose service stays as long as
  it likes: enough for an instruction before, while and after the Client is
  built, for a second run of the process, and for a service that keeps an
  interrupted one alive. The proofs take any number.
* *Wire.* Contents that are empty, look like structure or have a size of two
  digits; negative numbers and long ones; text with more bytes than characters;
  lists and dicts, nested. From the server each type with each attribute
  replaced by each value, one missing, one too many, and types unknown.
* *Download.* A first, a middle and a final chunk, to be sent and to be copied;
  a name for each download and one for the user, and too few when the user takes
  two.

Deadlock is checked where the system never stops (`agent`, `channels`,
`sync`); parts of those runs that may stop have a step of their own for it. The
others end when their bounded users, shells or servers have
nothing left to do, and their configurations say so.

## 4. Fairness

A specification states the fairness its liveness properties need, and no more.

* *Threads run,* and no call need fail. Weak fairness on the step of each started
  thread. It is justified by the scheduler and by the timeouts in the code: `poll`
  in `portforward.py` and `m2m/commandservice.py` and `connect` have one. The copy
  loop of a terminal has none, and its step `Copy` is enabled only when
  something happened on the pty. Where a failure would be the only way on, as
  there, it is left out of the fair step (`Terminal.Proceeds`): elsewhere the
  call that fails may as well succeed.
* *Locks.* `SF` for the main thread on `_sync_lock`, and for a scan on
  `DirectoryScanner._lock`: holders keep it for one call or one scan, and a
  thread that waits gets it in the end if it is free again and again. Slots of
  the limiter are stated without it: `SlotsReturned` assumes instead that
  launchers stop.
* *The waiter* of a terminal is a loop with a sleep: `WF` on each of its steps.
* *The agent.* The main thread, the clock thread and the WS thread run, and the
  supervisor starts an agent that ended. `Event.wait` returns after its timeout
  unless the clock changed meanwhile (`frozen`). `AgentExits` is for agents whose
  services end: it says so.
* *Outside.* A killed process dies (`WF` on `Dies` after SIGKILL). The WS thread
  hears of the end of a session in `CommandService` (the websocket's ping
  timeout, outside the repository). Poll events recur while connected (`SF` on
  `OnPoll`: lomond sends one every few seconds).
* *Nobody else must do anything.* Users need not type, leave or close, shells
  and commands need not write or exit, the local server need not send, tags
  need not settle, no instruction need come, no clock need change and nobody
  need interrupt. `healthy` in `ClientSync` is
  the state in which nothing fails any more; it is never obliged to come.

## 5. Proofs

`tlapm` checks the eight proof modules to the last leaf. Every safety invariant
and type invariant of the passing runs is proved for all values of the constants,
but for `PacketsAsSent` and `OneStray`, and so are the six refinements (of
`SlotPool`, `Session`, `Pipe`, `Store` and, by files and by commands, `Transfer`)
and the action properties `NoDownloadReplaced` and `StrayOnlyInClose`. Six
invariants are stated and proved without a run of their own: they are marked †
below. For five of them a refinement makes the run superfluous.
The assumptions are those of the modules:

* `Limit` is a positive natural number (`assert limit > 0`); the set of services
  is finite and disjoint from the launchers;
* the sizes of files, of outputs and of what is sent are natural numbers,
  positive ones for `RemoteDirectory` and `Download`; ports, terminals and meta
  data fields are finite sets;
* values that stand for nobody and nothing ("free", `NoOne`, `NoFile`, `User`) are
  none of the values they are told from;
* of a file system (`TreeAssumption`): names are unique in a directory, a file is
  not a directory, and `max_depth` is at least 1. The default, which no caller in
  the agent changes, is 10.

TLC evaluates all of them on the instances of the runs.

| theorem | states |
|---|---|
| `LimiterTypeOK` | the type invariant; with it that the counter never passes the limit |
| `LimiterAccounts` | `SlotAccounting`, for any number of launchers and services and any limit |
| `LimiterNeverUnderflows` | no caller takes the branch that raises `LimiterError` |
| `LimiterLock` | the lock is held exactly within `with limiter._lock` |
| `LimiterBoundsThreads` | no more than `Limit` service threads at once |
| `LimiterImplementsPool` | every behaviour is one of `SlotPool` |
| `ChannelTypeOK` | the type invariant of `WSClient` |
| `DataOfOwnSession` | † `RightService`: data reaches the service of its own session only; for any number of ports, sessions, packets and connections, and ports that are used again as soon as they are free |
| `ChannelsEndWithSession` | `NoGhostChannel`, likewise |
| `ServiceToldOfEnd` | `ToldOfEnd`, likewise: of terminals and port forwards, which have a close callback |
| `AllDataArrives` | `DataArrives`, likewise |
| `ChannelsImplementSession` | `ImplementsSession`: every behaviour of the channels is one of `Session`, likewise; with services of every kind and refused ones |
| `ForwardTypeOK` | the type invariant of `PortForward` |
| `ForwardLosesNothing` | `NothingLost`, for any number of connections and chunks |
| `ForwardEofAfterAll` | † `EofAfterAll`: a local server that sees end of file was given everything before; likewise |
| `ForwardImplementsPipe` | `ImplementsPipe`: every behaviour is, at the two ends of each connection, one of `Pipe`, with one chunk at most for a user who has closed its channel; likewise |
| `TerminalTypeOK` | the type invariant of `Terminal` |
| `TerminalReadsOwnPty` | `ReadsOwnPty`, for any number of terminals, also with forks and reads that fail |
| `TerminalStraysOnlyInClose` | `StrayOnlyInClose`, an action property: what is typed on a terminal reaches another's shell only between `os.close` and `self.master_fd = None`; likewise, for any number of keystrokes |
| `FileCloseMeansComplete` | † `CloseMeansComplete`: a channel closed without an error has carried the whole file; for a file of any size |
| `FileImplementsTransfer` | every behaviour is, for the remote user, a `Transfer` |
| `OutputImplementsTransfer` | `OutputIsTransfer`: so is every behaviour of a command, for what its shell and child write to stdout, in whatever order they close it and end |
| `CommandCompleteMeansAll` | † `CompleteMeansAll`: who is told "complete" has all of stdout, unless a poll or a read failed; for any output, pipes of any size and both ways to report an end of file |
| `ClientTypeOK` | the type invariant of `ClientSync` |
| `ClientLock` | `_sync_lock` is held exactly within `sync` |
| `ClientSentMetaIsHeld` | `SentMetaIsHeld`, for any identities, tags, fields and failures |
| `ClientNotifiedIsHeld` | `NotifiedIsHeld`, likewise |
| `AgentLosesOnlyEarly` | † `LostOnlyEarly`: an instruction sent once the Client is complete is not dropped; for any number of instructions, restarts and lost links |
| `PartsTypesOK` | `TypesOK` of the run `agent`: the types of limiter, services and agent |
| `DirectoryTypesOK` | `TypesOK` of the run `directory`: the types of remote directory and walk |
| `DirectoryReportsWholeListing` | `ReportedListingIsWhole`: what is reported is whole, and no older than what any scan saw; for any number of scans |
| `DirectoryUploadIsSnapshot` | `UploadIsSnapshot`: what is read of an upload is one copy, of which nothing is missing and no chunk is older than the open or than one before it, and of one version unless the source was written during the copy; for any number of uploads |
| `DirectoryListingIsTree` | `ListingIsTree`, for any file system, with inode numbers that mounts share, and any order of entries and depth limit |
| `DownloadTypeOK` | the type invariant of `Download`: with it that a temporary file has no hole and no more chunks than its download |
| `DownloadStoredIsWhole` | † `StoredIsWhole`: a download the server was told is stored is there, whole; for any number of downloads, chunks and names |
| `DownloadNeverReplaces` | `NoDownloadReplaced`, likewise |
| `DownloadImplementsStore` | `ImplementsStore`: every behaviour is, for the server and the user of the device, one of `Store`, whether files are renamed or copied into the directory |

The theorems of `MCAgent_proofs` are of `PartsSpec` and those of
`MCRemoteDirectory_proofs` of `DirectorySpec`, the specifications the runs check:
a step of such a composition is a step of one part, or leaves it as it is.

**Limiter.** `SlotAccounting` is not inductive. A failed start decrements "the
slot of the service this launcher is launching", and that this service is
counted, and is not the one another launcher is launching, is `LaunchCoherent`.
A launcher leaves a `with` by setting `owner` to nobody, so `LockHeldInSetup` is
needed to know that the lock was its own. The inductive invariant is the
conjunction of `TypeOK`, `SlotAccounting`, `NeverUnderflows`, `LockHeldInSetup`
and `LaunchCoherent`. Two lemmas say how the cardinality of the counted services
changes when one is added or taken away; each step that moves a service across
the count uses one of them, and for the others the set does not change.
`NeverUnderflows` follows in the same induction, a decrement being made for a
service that is counted, so that the count is not zero. For the refinement, each
step is shown to move one task of `SlotPool` or none; an increment below `Limit`
is an acquisition there because the count is the number of tasks that hold a
slot.

**Channels.** What the agent will do is decided by the events in `inbox` as much
as by the table, so the inductive invariant is mostly about the two queues. A
port may be used again while packets of its last session, or of several, are
still under way, so the sessions of a port follow one another in `inbox`, and of
each the opening comes first and the close last (`InOrder`); a lost connection
ends the queue (`LinkCoherent`). What the agent has or is still to hear of is
open at the server, or its end is under way (`SessionsEnd`); of two sessions of
a port the agent is to hear of the end of the first, then of the beginning of
the other (`OneAfterAnother`), and then it has an object for it
(`SessionsBegin`). An object in use is in the table under its own number
(`TableCoherent`), and one that is closed and still there is of an earlier
connection (`StaleIsOld`). The data of a session is numbered without a gap from
what its object has been given to what was sent (`DataInOrder`), and what an
echo has yet to give back likewise (`EchoComes`). `EndsTold` relates how often a
service was told of its end to whether its object is closed. With these, an
empty `inbox` leaves nothing under way, which is when `NoGhostChannel`,
`ToldOfEnd` and `DataArrives` speak. The lemmas about queues say what adding at
the end, taking from the front and cutting off do to each of those facts; every
event handler is one lemma. The refinement of `Session` is proved from this
invariant. A handler is a step of `Session` by what it does to the object of one
session: the packet at the head of `inbox` is the next one for that service by
`DataInOrder`; an opening starts the service late only where it finds a closed
object in the table, which `StaleIsOld` allows only if the server numbers
channels afresh; and a close, or a disconnect, ends at once exactly the sessions
whose objects it closes. The packets that a thread sends late change nothing of
this for the session that has the number then, but that it may be closed: the
server says so, and its end is like any other.

**Port forwarding.** `got \o read_buffer` is what the user typed, so
`NothingLost` needs lemmas about concatenation: a chunk moves from the end of
one sequence to the front of another, or the buffer to the socket as a whole. It
needs that there is a local server from the time `_connect` returned
(`SocketIsConnected`), since `socket` is set outside the lock, and `EofAfterAll`
needs that nothing is in the buffer once the write side is shut down
(`ShutIsFlushed`). For the refinement of `Pipe`, a flush only adds to what the
server has (`FlushExtends`), and does so before the write side is shut down.
That what a server then has is in order, and a beginning of what was typed
unless the connection broke, follows from the invariant of the next state
(`FrontInOrder`, `FrontOfAll`), and a connection stays broken because a failed
send and a reset are never forgotten. In the other direction a chunk the thread
has read may be in its hand (`InHand`), to be looked at or to be sent; from the
look on it is `coming`, and no other is looked at before it is sent, so that one
at most comes for a user who has closed its channel.

**Terminal.** `ReadsOwnPty` holds because the kernel gives a number to one
terminal at a time: the pty of a descriptor in use is one that is still owned
(`PtysOwned`), no terminal owns two (`OnePtyEach`), and from the first
assignment to `master_fd` to the close a terminal holds its own (`HoldsOwnPty`),
also one whose `_init_fd` raised, which never closes it. Before the assignment a
terminal has no number (`NoneYet`), and after `ForgetFd` none again. In the
window between `os.close` and that, it has the number of a descriptor that may
be another's: there, and by these invariants only there, `OnData` writes to
another shell, which is `StrayOnlyInClose`.

**File service.** `CloseMeansComplete` says what the user has once the agent has
closed the channel without a word of error. The inductive invariant relates
the thread's place, how its reading ended (`fate`), what was read, and what has
arrived: while the session is up, all that was read before the chunk in hand is
there; at "closing" the file ended, or an error was told, or the session is
over. The refinement uses it for the two steps where `Transfer` has a condition:
a chunk is the next one, and a close is of a complete transfer.

**Command service.** While the session is up the user has all that was read, but
for a chunk in hand (`ReadIsSent`); `more_data` is false only if nobody holds
stdout open any more and it was read to the end (`AllRead`), after which nobody
can write to it; and the loop reaches "complete" without trouble, and with the
session up, only so (`LeavesAtEnd`). To be a `Transfer` a command must also end
once: nothing is told before the loop is left (`NothingSaidYet`), no chunk is
read that was not written (`WasWritten`), and the command writes only once
spawned (`SpawnedFirst`). `StderrThere` is needed for the types: what a poll
said of stderr is read afterwards.

**Sync.** Between a call and its answer the two threads may both have sent
batches. `LockHeldInSync` makes the holder of `_sync_lock` alone in `sync`, and
`GoodAnswerIsHeld` says that an answer that is good and not yet looked at is one
of a server that holds what was sent.

**Remote directory.** A scan writes only between taking the lock and releasing
it, so the writer is alone (`WriterHoldsLock`), and what `scan.json` holds is
the chunks it has written, all of the version it saw (`Progress`). Trees only
get newer and a scan looks at one while it has the lock, so the writer saw the
newest version that any scan has seen (`NewestWrites`). A scan that fails, or is
killed, leaves a shorter file of one version (`ListingIsOneVersion`). A snapshot
is copied meanwhile, without the lock. What its source holds is never older than
what was copied of it (`NotNewer`, for `scan.json` by `NewestWrites`), and is
what was copied, unless the source was written since (`Copied`); so chunks of a
finished snapshot never go back in version, and are of one if it is not `mixed`
(`Snapshot`). Reads are of that snapshot only.

**The walk.** `ListingIsTree` speaks of the end; the inductive invariant says
the same of what was taken so far. An entry *pends* if it is left in a frame of
the stack. The stack is a branch of the tree, one listed directory of each depth
(`StackShape`), so no entry pends twice. The files named in a directory are
exactly the visible ones that do not pend (`FilesTaken`), the directories named
are among those that do not (`DirsTaken`), and a directory that does not pend
was visited, is too deep, or has an error in the log (`TakenAreSeen`). A path is
listed only after its entry was taken (`NotAhead`), so a push never clears a
listing. The visited inodes are those of the named directories
(`VisitedAreNamed`, `NamedAreVisited`), which is why none is named twice. The
seven steps that take an entry have one shape (`Effect`): they list, name and
visit at most one thing each. Lemma `EffectKeeps` proves the invariant once for
all of them, from the conditions (`Reasons`) under which they do so.

**Downloads.** The temporary file has the chunks the server knows of, and
perhaps the one whose answer was lost (`TempFollowsServer`), so that writing the
next, or the last again, makes it the file up to there (lemma `PutNext`). When
`copy_download` begins it is whole (`CopiesWhole`), and the name it moves to is
free or a file the user made since (`TargetIsFree`): so a move never destroys
what was stored before. A rename is one step of `Store`, and by `CopiesWhole` it
puts the whole file there. A copy is a step of `Store` for each chunk: what is
under the final name meanwhile is a beginning of the file (`CopyIsBeginning`),
it is as long as the temporary file when the server is told, and stays as it is
if the copy is cut off. The types add that a temporary file is a beginning of
the download even after a failure (`TempIsBeginning`), when it follows the
server no longer.

**Agent.** An instruction is dropped for want of a part of the Client, and `late`
are those sent when the last part was there. But parts go when the process does,
and an instruction sent before may be handled after: `LostOnlyEarly` needs that an
instruction on its way to a process was sent to that process. The inductive
invariant adds two facts to `TypeOK` and `LostOnlyEarly`. `BuiltInOrder` says what
has been built before the step the main thread is at, and that `port_forward` is
there only when the terminal and the `M2MManager` are; `LateFindsAll` says that
a late instruction was sent, and that while one is on its way all parts are there
(a process that ends takes its inbox with it).

**Model-checked only:** liveness under fairness (`SlotsReturned`, `ClosedEnds`,
`HangupEnds`, `ExitEnds`, `ClosedKills`, `NeverBlocked`, `IdentityConverges`,
`MetaConverges`, `ScanAnswered`, `WalkEnds`, `AgentExits`,
`ForwardChangeRestarts`) and anything about `ENABLED`, which are beyond the
prover; `PacketsAsSent`, because `Bencode` is written with recursive operators,
of which the prover knows nothing; and `OneStray`, whose proof is still to be
done.

## 6. Where the code and what it promises disagree

Five have a run whose counterexample is the behaviour:

1. **The end of a local connection does not close its channel**
   (`portforward.py:101`, run `forward_eof`). `break` after an empty `recv`
   leaves the loop over events, not the loop over polls; `poll` returns at once,
   for ever. The comment above it says "No data means the socket has been closed".
2. **A failure of one forwarded connection ends all of them**
   (`portforward.py:105`, run `forward_shared`). The close event that an error
   sets is the manager's. In the trace one connection is reset, and its thread
   sets the event; the other, whose local server is up and on which no send
   failed, finds it set, leaves its loop and asks for its channel to be closed.
   `portforward.py:342` says of connections "we shan't confuse these two".
3. **On Linux a finished command does not close its channel**
   (`m2m/commandservice.py:104`, run `command_hup`). At its end a pipe polls
   `POLLHUP` without `POLLIN`, the loop reads only on `POLLIN`, and goes on,
   until the remote user leaves, who is never told "complete". The module's
   first lines say the output is sent "until the command is finished, and the
   channel is closed".

4. **A link hides the directory it leads to** (`scan_directory.py:164`, run
   `walk_alias`). If a link to a directory above comes first, the walk goes on
   below the link, and marks the inodes of the directories it finds there. The
   same directory under its real path is then "a recursive link", and is
   omitted; what lies deeper than the limit under the longer path is missing
   altogether. `ListingIsTree` asks for each directory under some path, unless
   it is too deep under the path it was found by.
5. **A clock that is put back is not noticed** (`clockcheck.py:37`, run `clock`).
   The second measured is negative then, and never more than
   `MAX_CLOCK_DISCREPANCY`. The module's words do not say which way: it is there
   because "threading.Event objects block indefinitely when the clock changes".

The following were met while modelling. The models have the behaviour, and the
properties are stated so as to leave it out, or it is at the edge of what is
modelled; no run is about it.

* *Channels.* A channel closed by a disconnect stays in the table
  (`m2m/wsclient.py:256`). If the server numbers channels afresh, a later
  session is given a closed object: its data is ignored, its service is not told
  of its end. `ToldOfEnd` assumes it does not.
* *Channels.* What arrives before a service is attached goes to the deque, and
  `set_callbacks` does not hand it on (`m2m/wsclient.py:98`): `DataArrives`
  counts it as kept, and it is never delivered.
* *Channels.* The thread of a service looks at `_closed` and sends later
  (`m2m/wsclient.py:71`, `:154`), and what it sends names the channel's number
  only. If its session ended meanwhile, and the server gave the number to
  another, that user gets its data, or has the channel closed. Over a new
  connection this is one packet of each service at most (`OneStray`); on the
  same connection it can be as many as its thread sends before the WS thread
  handles the `notify_close`.
* *Channels.* A file and a command set no callbacks, and are not told of the end
  of their session: they look at the channel between two chunks. What is sent to
  them stays in the deque.
* *WSClient.* The identity is forgotten on each disconnect (`:336`), so
  `on_ready` never sends `request_identify`. `last_packet_time` is kept and
  nothing compares it (`:193`).
* *Port forwarding.* The five-second timeout of `connect` stays for `sendall`
  (`portforward.py:164`): a server that stalls loses the rest of a buffer, and
  later data is sent after the gap. `NothingLost` asks for order then, and for
  everything only if no send failed.
* *Start-up.* Instructions that come while the Client is being built are
  dropped, with a line in the log and no answer on the channel
  (`m2mmanager.py:107`). `LostOnlyEarly` is about the others.
* *Exit.* The process waits for every service thread (none is a daemon), and the
  WS thread goes on taking instructions meanwhile. Nothing calls
  `restart_agent`, either `on_client_close` or `Client.exit`. An unknown log level
  raises a `KeyError` where `app.py:126` expects an `IndexError`.
* *Scan.* A root that cannot be read gives an empty listing, not an error; a
  directory whose inode cannot be read is listed, but not named in its parent.
  Inode numbers are compared without the device (`scan_directory.py:160`): of two
  directories on different mounts with one number the second is taken for a
  recursive link and omitted. `ListingIsTree` allows it.
* *Bencode.* A string whose size has no colon after it is read for ever
  (`m2m/bencode.py:143`), in the WS thread; one that is cut short is taken as it
  is. A server that sends whole packets causes neither.
* *Terminal.* A channel that closes before the thread has set the pid sends no
  SIGHUP, and no later close will (`m2m/remoteprocess.py:133`): the shell and
  its slot stay. `HangupEnds` starts from a signal that was sent.
* *Terminal.* At a hang-up the loop makes one read (`m2m/proxy.py:151`): what
  the shell wrote beyond it is lost. Between `os.close` and
  `self.master_fd = None` (`m2m/proxy.py:100`) keystrokes may go to another
  terminal that got the number.
* *Terminal.* A shell that exits by itself does not close its channel; it is
  reaped when the remote user does. If the fork raises, or `_init_fd` after it
  (`m2m/proxy.py:64`, `:94`), the thread ends, gives its slot back, and the
  channel stays open; after `_init_fd` the descriptor does too.
* *Terminal.* Keystrokes that come before the thread has set `master_fd`, or
  after it was cleared, raise and close the terminal
  (`m2m/remoteprocess.py:103`); so may those to a shell that has just ended.
  They are lost.
* *Command.* If `Popen` raises, the error is sent and the channel stays open
  (`m2m/commandservice.py:60`).
* *Command.* The close of the channel kills the shell, not what it has started:
  with `shell=True`, `process.kill()` (`m2m/commandservice.py:125`) reaches the
  shell alone, and the children of a compound command go on. `ClosedKills` is
  about the shell.
* *Command.* A command that closes its stdout and goes on running makes each
  poll report `POLLHUP`; the `break` (`m2m/commandservice.py:104`) then skips
  stderr, which is never read again: once it is full the command is blocked
  until the remote user leaves. `NeverBlocked` is about a command, shell or
  child, that has stdout open. If stderr came before stdout in a poll result it
  would be read.
* *Client.* If a tag list is taken and the answer lost, and the tags then change
  back, the server keeps the wrong list (`client.py:157`). The network addresses
  are cached with the rest of the meta data, also if there were none yet
  (`device_meta.py:22`). `Client.close` closes no terminal.
* *Scans.* `scan.json` is truncated and then written
  (`directory_scanner.py:82`): an upload opened in between, or after a restart
  in between, is short, and the server is not told. The copy is made without the
  lock (`remote_directory.py:182`), so an upload opened while `scan.json` is
  written, or while the user changes the file, may have the beginning of one
  version and the end of a later one: `UploadIsSnapshot` excludes this only if
  the source was not written meanwhile. A scan that fails is not reported, nor
  is a request that came while another scan had the lock. Snapshots of uploads
  that failed to open, or were never closed, are left behind.
* *Downloads.* A final chunk whose answer was lost is sent again, and finds no
  temporary file: a failure is reported for a file that was stored. Between the
  search for a free name and the move (`remote_directory.py:396`) a file the
  user creates is replaced. Where the temporary files are on another file system
  a move is a copy (`remote_directory.py:410`): a part of the file is under the
  final name while it is made, also for a scan or an upload to see, and stays
  there if it fails. `NoDownloadReplaced` is about downloads.

## 7. What is not modelled

* *Time.* A timeout is a step that may happen, never a duration. So the models
  do not say how long the WS thread is held up by a local server that does not
  read, or by an API call without a timeout (`jsonrpc.py:188`).
* *The blocking read API* of `Channel` (`read`, `ChannelFile`) and callbacks of
  M2M commands: nothing in the agent calls them.
* *Window sizes* of terminals, the user and group of the child, sizes of files in
  a listing.
* *A tree that changes during a walk:* what a listing says of it then is not
  stated anywhere.
* *Codes of JSON-RPC errors, and single calls,* which the agent does not use.
* *Device information, the parsing of arguments, logging, packaging:* reads of the
  system and set-up without state.

## 8. Plan

Done: the limiter, the file service and the command service, channels, port
forwarding and the store for downloads, each with its abstraction and the proof
that it is implemented; terminals; sync; scans and uploads; the walk; start-up,
exit and the clock; the packets and their encoding; and the proofs of section 5.
What would come next:

1. *Composition:* `WSClient` with `FileService` on a channel, the close of a
   service being an action of the channel module, instead of an arrival at any
   time. With `Session` the service could be composed with that instead, which is
   far smaller.
2. *Abstractions:* what a server of the JSON-RPC API may count on, that
   `ClientSync` implements; the same of a terminal, for its lifetime.
3. *Proofs:* `OneStray`; the round trip of `Bencode`, and with it
   `PacketsAsSent`. It needs induction over values, and the encoding as a
   recursive function instead of an operator.

Runs are kept few: a new question takes the place of a shallower one.
