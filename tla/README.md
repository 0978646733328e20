# Verio in TLA+

Verio is a peer-to-peer / relayed voice client (a Rust core behind a Tauri UI) with a
small server: WebSocket signalling of 4-digit rooms plus a UDP voice relay. This
directory holds a TLA+ development of its core logic: modules translated from the
source, TLC configurations that model-check small instances, and theorems checked by
TLAPS for every value of the constants. Line numbers below are of the files under
`src/`; `PROJECT.json` maps every definition to its lines.

## 1. Inventory

| component | where | state it keeps | operations | modelled in |
|---|---|---|---|---|
| Room session | `verio-app/src/room.rs` | one `RoomManager` behind a mutex: state, `peers`, `peer_seen`, `active` handle, `pending` invite, `signaling_stop` flag; per session a transport driver, a pump, a listener and a roster thread | create/join room, dial/accept, create/complete/accept invite, leave; driver events; listener events; sweep | `RoomSession` |
| Signalling server | `verio-server/src/main.rs` | room map behind a lock; per socket a task with `current_room`, `current_peer_id` | Create, Join, Leave, end of socket; fan-out of PeerJoined / PeerLeft | `SignalServer` |
| WebSocket client | `verio-discovery/src/vps.rs` | one socket, its code, the members read | create, join, exchange_identities, run_listener | `SignalServer`, `RoomSession` |
| Transmit gate | `verio-app/src/hotkeys.rs`, `pipeline.rs`, `ui/src-tauri/src/lib.rs` | five atomics (`TxState`), the registered and the saved binding, `MusicSource`, locals of the PROCESSING thread | mute, deafen, push-to-talk press/release, rebinding, pipeline restart, music controls, one chunk; State messages to the peers | `TransmitGate`, `Presence` |
| Audio pump, outgoing media | `room.rs:327-374`, `pipeline.rs` | permanent `net_out` channel, lock of its receiver, `active` handle, two pump threads | look up the handle, wait for a frame, send it | `AudioPump`, `FrameRoute` |
| UDP relay hub and relay driver | `verio-server/src/main.rs`, `verio-transport/src/lib.rs` | registrations (room, uuid) -> address; candidates, active address | register, forward; probe, lock on, heartbeat | `RelayMedia` |
| P2P driver (str0m) | `verio-transport/src/lib.rs` | ICE/DTLS/SCTP state, outbox | drive, apply commands, fail; deliver audio | lifecycle in `RoomSession` and `DirectCall`, delivery in `Playout` |
| Receive path | `pipeline.rs` (`PeerRxStream`, `rx_loop`) | per sender a jitter pre-buffer and its armed flag | drain, arm, cap, pop, disarm | `Playout` |
| Direct signalling, invites | `verio-discovery/src/lib.rs` | TCP exchange, blobs | dial, accept, identities, roles, SDP, time-outs; encode/decode blob | `DirectCall`; invites are one blocking step of `RoomSession` |
| Settings store | `verio-app/src/settings.rs` | settings behind a mutex, notices, persister thread, two files; copies in `LiveControls` and in the running pipeline | load, update, debounce, write-then-rename, restart | `Settings` |
| Tauri bridge | `ui/src-tauri/src/lib.rs` | - | commands, shortcut handler, restart_pipeline | its commands are actions of `RoomSession`, `TransmitGate`, `Presence` and `Settings` |
| User interface | `ui/src/App.tsx` | peer cards | fold of room events | `cards` in `RoomSession` |
| DSP, CPAL streams, mDNS advertiser, embedded host, soak harness | | | | not modelled, see section 8 |

How they interact. The UI calls Tauri commands; a connect command starts a flow thread
that takes the room mutex, releases it for the blocking signalling (a socket to the
server, a TCP exchange, STUN) and takes it again to activate a session. The transport
driver talks to its pump over an unbounded event channel and takes commands over
another; the pump, the WebSocket listener and the roster thread all call back into the
same `RoomManager`. The server's tasks share the room map and write to each other's
outgoing channels. The UI thread stores to atomics that the PROCESSING thread loads. Relay
drivers and the hub exchange datagrams only: one socket per session on the client, one task
per UDP port on the server, over one table of registrations.

What is hard about it. Every flow reads the state, blocks, and writes it without
looking again; threads of a session that was left are still running when the next one
starts and act on *whatever session the room has by then*; stop flags are installed
after activation; clients are identified by uuid while a socket of the same uuid may
still be open; and the gate that decides whether the microphone is heard is several
relaxed loads taken at different moments. `PROJECT.json` lists these as hazards, each at
its line with the properties that cover it.

What makes each component correct. *Room:* no state that no thread and no user action
can end; no live session the room does not know; the UI never lags behind the roster.
*Server:* no entry outlives its connection, a code is taken exactly while its room has
members, every registered client ends up with the server's view of the room. *Gate:*
mute and push-to-talk hold for every chunk. *Relay:* nothing crosses rooms or comes back to
its sender, however stale the registrations and whoever owned an address before, and two
members that can reach the server on some port find each other. *Voice path:* a frame is
sent once, a session that was left gets at most one more frame of each pump, each pump keeps
its order, and what is heard is recent and never stuck. *Settings:* the file is whole, never
goes back, and every edit reaches it; the audio threads follow the settings. *Direct calls:*
the two ends agree on their roles, and neither waits for ever.

## 2. Modules

### `RoomSession` (room.rs)

A session is named by the flow that created it; `Vps`, `Dial`, `Invite`, `Accept` are
the sets of flows of each kind, `Tls` the room flows that reach the server over `wss://`
(settings.rs:66). An action is **one critical section of the room mutex**
(or a step of a driver, outside it), with all that is called under that lock.

| variables | code |
|---|---|
| `state`, `peers`, `seen`, `active`, `pending`, `stopRef` | fields of `RoomManager` (97-131) |
| `stopped` | the `AtomicBool`s set, of listeners that still run |
| `cards` | what `App.tsx:214-261` makes of the events emitted so far |
| `pc`, `remote`, `adopt` | the flow's thread: its place, the identity signalling yielded, `initial_peers()` left to add |
| `driver`, `told`, `conn`, `pump` | transport driver, Disconnect in its command channel, its Connected event, the pump |
| `listener`, `known`, `roster` | WebSocket listener, the members it has read of, roster thread |

`TeardownSession`, `AddPeer`, `RemovePeer`, `PruneStalePeers`, `CardsOnState` are the
methods; `Begin`, `Activate`, `Fail` the first section, the activation and the error exit
shared by the flows; `Pump*` the arms of `spawn_transport_pump`; `Listener*` the turns of
`run_listener` with their callbacks; `Roster*` the roster thread. Blocking calls are the
states between two actions. Which peers answer, which are stale, and when anything fails
is nondeterministic. Time is not modelled: the sweep may find any subset of `seen` stale.

Choices of abstraction worth knowing: the relay driver queues Connected when it starts
and ends only when told to (it ignores socket errors); P2P drivers may connect and fail
at any time; Audio and Rtt events change nothing in the room and are left out; a flag
nobody polls any more and a command to a driver that is gone are dropped at once; what a
finished thread leaves behind (`remote`, `known`) is reset. The roster thread and the listener
may fail to start (`InstallListener`): room.rs:764-766 logs that, 786 ignores it. A
listener's read times out after 200 ms on a plain socket and never over TLS: vps.rs:225-227 sets
the time-out of a `MaybeTlsStream::Plain` only (`ListenerTimeout`).

`MCRoomSession` bounds the flows that are started (`FewFlows`); its `AloneSpec` is `Spec` without
the refusal of a bad blob over another flow's session (`RefusesAlone`, section 5).

### `SignalServer`, `MCSignalServer` (main.rs, vps.rs)

Both ends of every socket. A client process owns a uuid for its life (`peer_id` is made
at start-up) and uses a new connection per room session. Each server action is one turn
of the loop of `handle_socket`: the room map is behind one lock and the replies are
queued before it is released. `inbox` and `outbox` are the two FIFO directions; a lost
connection (`Lose`) cuts `inbox` at any point and ends it, as TCP does. A client may ask
again while its previous connection is still `leaving` (the listener has yet to look at its
flag), `deserted` (a host that left while blocked in `exchange_identities`) or `cancelled`
(somebody who left while blocked in `create` or `join`). A cancelled flow goes on when its
answer comes: a host waits for a peer, a joiner goes live. A listener whose flag a later session
replaced (it is never told to leave) is one that stays `leaving`.
`MCSignalServer` only adds the symmetry set.

### `TransmitGate` (hotkeys.rs, pipeline.rs, lib.rs of the Tauri crate)

A handler of the UI is one step (the module's header says why no load can tell the
difference); the PROCESSING thread is split at every load: `is_active`, `next_chunk`, the
three loads of `effective_transmission` for the mix, and again for the gate. Handlers are
taken to run on one UI thread (synchronous commands and the shortcut handler). The
variables `mutedAll`, `upAll`, `lost` are history: what held from the start of the
current chunk on, and whether a release went unreported because the binding was removed
while its key was down.

### `RelayMedia`, `MCRelayMedia` (transport `lib.rs`, `main.rs`)

Clients, the hub and the network between them. A driver action is one command, one timer or
one datagram of the driver's loop; the hub's task of a port registers under the write lock
(`HubReceive`) and forwards under the read lock (`HubForward`), two steps between which the
other port's task may run. `hub` is the table, `task` what a task is about to forward.
`Transit` is the network: of what is in flight and what is being sent, any part is lost
(all of it to a blocked port), the rest is delivered in any order, some of it twice. `room`,
`addr`, `active`, `locked` (`last_recv_time` is set) are the driver's locals; they go when it
ends. `heard` collects the senders whose data the driver reported in this session. An address
is free again once its driver has ended, while the hub still has it on record: its
registrations are never removed. A client runs one driver at a time; that a room may leave an
orphaned one behind is a matter of `RoomSession`. Payloads are a registration (empty), data
(audio, Hello and the other control messages), ping or pong. `MCRelayMedia` fixes one ordered
pair of clients for the liveness properties.

### `Presence` (lib.rs of the Tauri crate)

`TransmitGate` together with the two threads that tell the peers about the switches.
`send_room_state` loads them and then waits for the room lock (`Announce`, `UiSend`);
`forward_events` takes the lock first and loads them under it, one at a time (`FwdLock`,
`FwdSend`). `told` is the last State message of the present session. The gate is the same
one, action by action: `KeepsTheGate` proves `PresenceSpec => Spec`.

### `AudioPump`, `FrameRoute`, `Playout` (room.rs, pipeline.rs)

`AudioPump` is the way from the processing thread to a driver's command channel: `netOut`
with the lock of its receiver (`holder`), and for each of the two pumps the handle it cloned
and the frame it took, one action per lock, wait or send. `FrameRoute` is what the pumps
promise, with no pump in it: a frame goes to at most one session, and after a session is left
or replaced each sender may still hand it one frame. `Routed` is the refinement,
with `current <- active`, checked by TLC and proved.

`Playout` extends `AudioPump` with the network (any packet of a session that was active,
late, twice or never; a peer-to-peer driver sends silence by itself) and the receiving RX
thread with one stream: `Kept` and `Arms` are `push_packet` over what was drained, `RxTurn`
a turn of `rx_loop` with any number of samples popped, for this stream or for another
source's sake. Samples are labelled with the arrival of their packet: sequence numbers only
feed statistics.

### `Settings` (settings.rs, pipeline.rs, lib.rs of the Tauri crate)

A value is the number of the edit that wrote it. `Change`, `Notify`, `ApplyLive` and
`ApplyDevice` are the parts of a command on the UI thread, between which the persister
moves: `Wake`, `Coalesce`, `TakeSnapshot`, `Truncate`, `Fill`, `Rename`, or `SaveFails` at
any of the last three. `Launch` reads the file (or not) and starts the pipeline (or not);
`Exit` is a crash or the closing of the window, which lose the same things. One setting of
each kind is enough because settings of a kind differ in nothing but their name.

### `DirectCall` (discovery lib.rs, room.rs)

Every TCP connection has two ends, each first a flow thread and then a driver with its pump;
`wire` holds the frames under way to an end, `at` where the end is. `IsBusy`, `Teardown` and
`AfterTeardown` act on *the client's* state and session, as in `RoomSession`. Time-outs are
`SignalFail`, possible at any blocking call. `LinkUp` is the driver's Connected event
together with the pump's handling of it.

Definitions whose comment starts with "Faulty" are deliberately wrong variants of a
handler. No specification uses them; `PROJECT.json` pairs each with the property that
must notice it.

## 3. Runs

| run | what it asks | instance |
|---|---|---|
| `room_cards` | Is there always somebody left who can end Connecting and Connected? Does `active` always belong to a session with a live pump? Does the sweep see every peer? Do cards and state agree with roster and session, does every way to Idle clean up? | any two of a room flow, a direct flow, a created and an accepted invite; two peers; under `AloneSpec`; 754 k states |
| `room_winds_down` | Liveness: a session told to stop winds down, a stopped listener leaves the server, a phantom Connected heals | any two of a room flow (over a plain or a TLS socket), a direct flow, a created and an accepted invite; one peer, with fairness; 56.8 k states |
| `room_v_leave` | PROGRESS.md:1275: every leave path notifies the server. **Violated.** | one room flow |
| `server_rooms` | Entries owned by running tasks, codes taken exactly while a room has members, views converge | 3 clients, 3 connections, 2 codes, symmetric; 31.7 k states |
| `server_v_rejoin` | main.rs:6: Join connects a peer to a room. **Violated** on rejoin. | 2 clients, 3 connections, 1 code |
| `gate_holds` | Mute and push-to-talk hold for every chunk; the held flag means a key; what the peers were told last is right | module `Presence`, 2 keys, loopback on and off; 2.3 M states |
| `gate_v_music` | pipeline.rs:630: the mic contributes only while the gate is open. **Violated.** | 1 key, no loopback |
| `relay_holds` | Does anything cross rooms or come back to its sender, does a driver that was answered talk to an open port? | 2 clients, 2 rooms, 2 addresses, 2 ports, the primary one blocked; 3 sessions, 2 datagrams in flight, one duplicated; 645 k states |
| `relay_locks` | Liveness: does the lock of one client of a room spread to the other? | 2 clients, 1 room, 3 addresses, 3 sessions, 1 datagram in flight; 16 k states |
| `settings_saved` | Is the file whole and never older than it was? Is an edit ever forgotten? Does the pipeline follow? Liveness: every edit reaches the file | one live, one device and one plain setting, 3 edits, 2 launches; 162 k states |
| `voice_path` | Do the pumps implement `FrameRoute`? In which order do frames leave? Is what is heard recent, is audio ever stuck? Liveness: no frame waits while a session lasts | module `Playout`: 2 pumps, 2 sessions, 2 frames; a packet is the unit of the buffer: pre-buffer 4, cap 6, up to 3 popped, 7 arrivals; 570 k states |
| `direct_calls` | Do the two ends take different parts? Liveness: does every end come to a decision, does an end whose other end is gone end? | 2 clients, 2 connections dialled in either direction or to oneself; 89 k states |

Deadlock is checked only for the gate, which never rests. Everywhere else the instance comes
to rest: a flow and a connection are used once; sessions, edits, launches, frames and arrivals
are bounded; and an audio pump without a session only sleeps.

### Why the bounds are enough

*Room.* Every property relates the one `RoomManager` to the threads of one session and to
interference from the threads of another; two flows of different kinds give two drivers,
two pumps and two cancelled or late activations, and both runs explore every pair of kinds, which
differ in what they may do (block without limit, fail at any time, wait for the user, idle
without teardown). `MaxFlows` (action constraint `FewFlows` of `MCRoomSession`) is what lets a run
offer all kinds without having them all at once; `MaxRooms` makes the two room flows of
`room_winds_down` alternatives: a plain socket or a TLS one. A flow is used once; a third one can
only repeat what the second did to the first. Two peers give "the last one leaves" and "another
one remains"; the liveness properties are not about the roster and take one peer. `room_cards`
leaves one interleaving out: a bad blob refused over another flow's session, on which
`PeersHaveCards`, `LiveSessionShows` and `IdlingCleansUp` fail (section 6). The safety properties
are moreover proved for all sets of flows and peers, these three under the same assumption.
*Server.* Three connections allow an old and a new session of one uuid with an observer,
or three members; two codes allow a client in two rooms at once. *Gate.* Two keys give a
rebinding from one key to another; chunks repeat for ever. *Relay.* Three sessions let one
client come back, in the other room or at the other's old address, with datagrams of before
still in flight: the shortest ways to break each safety property take exactly that, and the
theorems hold without bounds. In `relay_locks` one datagram is in flight at a time, so each
one sent may be lost to the next, and three sessions with three addresses let either client
come back under a new address. *Settings.* Three edits are one in the file, one being saved
and one arriving meanwhile; two launches give one exit in every place of the save and a start
from whatever it left. *Voice.* Two sessions and two pumps give a replaced session with a
stale handle each; buffer sizes keep the code's proportions (a packet is
an Opus frame of 10 ms, a quarter of the pre-buffer of 40 ms; the cap of 60 ms is one and a half
pre-buffers), and seven packets overflow the cap. That output is taken in whole packets is a
bound of the run; the theorems hold for any packet length and any number of samples popped. *Direct calls.* Two connections are needed for mutual dialling
and for a call that meets a busy client, with itself or with its partner; they are opened in
the order of their numbers, which only names them.

### What the violated runs show

- `room_v_leave` - The stop flag of a room session is created after
  `exchange_identities` (room.rs:735-742). A host that leaves before anyone joined sets
  an older flag, its thread stays in `socket.read()`, and the server keeps the room open:
  the next to join finds a host that is gone, and the cancelled flow goes live.
- `server_v_rejoin` - Entries are removed by uuid. When a client rejoins before the
  server has seen the end of its previous connection, that connection's cleanup removes
  the new entry. The client believes it is in the room, everybody else is told it left.
- `gate_v_music` - With an active track that yields no samples (the end of the file, a
  pause between two lock sections, a decode error) the mixing branch is skipped, the
  ungated input is encoded and the gate is open: a muted microphone is sent. With *loop*
  on and an undecodable file this lasts until the track is stopped.

## 4. Fairness

Five modules have liveness properties. In `RoomSession`, `Fairness` is weak fairness of thread steps
that are enabled until taken: a flow whose signalling is over adopts and activates (or
fails), installs its listener; a driver with Disconnect in its channel reads it (it polls);
the pump handles Connected and Disconnected that wait in its channel; the listener
looks at its flag and polls, and **on a plain socket** its read times out after 200 ms
(vps.rs:225-227, 254-258); the roster thread's sleep ends. Over TLS the read has no time-out, so
nothing is assumed of it: `StoppedListenerLeaves` has the premise, for those sessions only, that
the listener is again and again out of its read, which is up to the server. Nothing is assumed of the user, of other clients, of the network, or of a
thread blocked on the signalling server - the run `room_v_leave` depends on exactly that.

In `RelayMedia`, `Fairness(p, q)` is what p's lock takes once q is locked: p's heartbeat and
q's ping timers fire for ever (lib.rs:1600, 1633), the hub's tasks and p's receive loop run
for ever, and a datagram sent again and again gets through again and again, independently of
what the tasks are doing at that moment. That last part is an assumption about the network,
not the code; without it nothing can be promised over UDP. A Hello is sent once and may be
lost, audio need not flow at all, and the user may leave at any time. `LockSpreads` assumes
this for one direction only.

In `Settings`, `FairSpec` has the UI thread finish a command it began and the persister move
(its waits end: `recv` when there is a notice, `sleep` always); a save may fail whenever it is
tried, so `EditsReachFile` excuses failed saves. In `AudioPump`, `PumpFairness` is weak
fairness of each pump thread: `recv_timeout` returns after 250 ms and sleeps end. It is not
assumed that a pump gets the receiver's lock in turn. In `DirectCall`, `FairSpec` says that
every blocking call of a flow ends, if only by its time-out (5 s for the connect, 10 s for
reads and writes, discovery `lib.rs:196, 207-208`), that a driver reads its commands (it
wakes every 10 ms), and that ICE with nobody at the other end is given up - the one assumption
about the str0m library: it reports Disconnected, and the driver ends after 30 s of that
(transport `lib.rs:883-890, 1152-1157`).

## 5. Proofs

The eight modules named `*_proofs` hold the theorems; they assume only the constants'
assumptions (`FlowAssumption`: kinds of flows are disjoint, sentinels are not members;
`SignalAssumption`, `GateAssumption`, `RelayAssumption`, `SettingsAssumption`,
`FilesAssumption`, `PumpAssumption`, `CallAssumption`: the same for their sentinels;
`PlayoutAssumption`: sizes are positive), which TLC evaluates in every run.

**RoomSession.** `TypeCorrect`, then the safety theorems from one inductive invariant
`SafeInv`. Three of its conjuncts are the properties themselves. `SessionInv` strengthens
`ActiveIsPumped`, which is not inductive: `Activate(f)` makes f active, so one must know that
nobody can have told f to stop before, and that is because only a session past its signalling
is ever told. `ThreadInv` says the same of the listeners and their flags (a flow starts its listener last).
With it:
`ActivePumped`, `ConnectingOwned`, `ConnectedPumped`, `PeersTracked`, and `SignalledStillRun`
(who was told to stop can still notice, what `ToldSessionEnds` and `StoppedListenerLeaves`
rest on), with no condition on the kinds of flows.

`LiveSessionShown`, `PeersCarded` and `IdlingCleans` (an action property) assume
`[][RefusesAlone]_vars`. The condition is real: the bad-blob exit of `run_accept_invite`
(room.rs:932) goes to Idle without teardown, and if the flow's room was left and another
flow has gone live meanwhile, the room is Idle with a live session. `RefusesAlone` says only
that this exit finds the room idle, or with nothing in it; all else may happen, other
invites included. A client that accepts none never makes the exception, so for it the three
hold outright (`WithoutInvites`). The two invariants together (`CleanInv`) are inductive under it.

`OnlyOverwritingLosesDrivers`: a driver that runs is the room's or has been told, unless
`activate_session` overwrote a handle (`NoneActive` says it did not). So the orphaned
driver of section 6 comes about in that one way.

**SignalServer.** `TypeCorrect`, `EntriesOwned`, `OpenRoomsHaveMembers`. Neither of the two is
inductive: that a task's cleanup removes exactly its entry needs a protocol between the
two ends of a socket that is written down nowhere in the code. `Protocol` states it per
connection: a request reaches only a task without a room (`RequestFirst`), nothing is on
its way to the server while the client is in a room and the client's code is the task's
(`InRoom`), Leave names the task's room (`LastWords`), and an answer still to be read names
it too (`AnswerIsCurrent`). It is inductive together with the type invariant
(`TypedProtocol`); the map invariants follow in a second induction (`MapNext`).

`RegisteredViewsConverge` is a third induction, over what is queued. `ToldBy(q, v, d, S)` says
that the last queued word about d is true (a `peer_joined` or a list with d in it if d is a
member, a `peer_left` if not), or that nothing is queued about d and the view is right already;
`Informed` claims it of every registered reader and every other client, and with an empty
queue it is `ViewsConverge`. Reading a message keeps it (`ToldRead`); each turn of a task
changes the map and queues the words about it at once (`InformedCreate`, `InformedJoin`,
`InformedRemove`). That a client has no view before its answer is `Unseen`.

`JoinedStaysListed` and `TurnsKeepRoomsApart` say how far the finding `server_v_rejoin`
reaches. Under `TakesTurn` - a client opens a connection only when the tasks of its earlier ones
have ended - no two running tasks serve one client (`OneTask`), each task that holds a room is
the one listed there (`HoldersListed`), and hence whoever joined stays listed, no task holds a
code that is free for others, and listeners show their own room. Nothing in the code enforces
`TakesTurn`; the theorems show that a server or a client that did would be right.

**TransmitGate.** `TypeCorrect`; `Silent` (`MutedIsSilent` and `KeyUpIsSilent`);
`HotkeysAgree` (`RegisteredIsSaved`, `HeldNeedsPttMode`, `HeldIsDown`). `Silent` needs to
know what each place of the PROCESSING thread has ruled out (`MutedStages`,
`KeyUpStages`): a load that saw the gate open refutes "muted all the time" for the rest
of the chunk, and the history can only fall (`HistoryIsCurrent`). `HotkeysAgree` needs
`Binding`: push-to-talk mode is on exactly when a binding is saved.

`MicFollowsGateOtherwise` says how far the finding `gate_v_music` reaches: where loopback is
never on and active music yields samples whenever it is pulled (`MusicYields`), the claim of
pipeline.rs:630 holds. So those two are all that refutes it; the relaxed loads do not.

**RelayMedia.** `TypeCorrect`, `NoCrossing` (`HeardIsRegistered`), `NoEcho`
(`NeverHearsItself`), `LocksOnOpenPort` (`ActiveIsOpen`), for any firewall, any reuse of
addresses and any number of datagrams in flight. The invariant follows a datagram: what is in
flight to the server passed the firewall, what a task is about to forward is registered in
its room, what is in flight from the server has a registered sender and left through a socket
that somebody reached (`Flight`); registrations are replaced but never removed
(`RegistrationsStay`); and a driver keeps nothing between sessions (`Forgets`).

**Presence.** `KeepsTheGate` shows that every step of `Presence` is a step or a stutter of
`TransmitGate`, so the gate's theorems carry over (`MutedSilent`, `KeyUpSilent`, `HeldDown`).
`ToldIsTrueHolds` needs `LoadedIsCurrent`: while no command is under way, what the forwarder
loaded is what the switch says.

**Settings.** `TypeCorrect`; `FileStaysWhole` and `NoEditForgotten` from `SaveInv`, which adds
that the temporary file holds the snapshot when it is renamed (`Filled`) and that a snapshot
which is out of date has a notice behind it (`Outdated`); `NothingGoesBackHolds` from
`AgeInv`, where versions ascend from file to snapshot to settings (`Ascending`) and no setting
is newer than the last edit (`OfEdits`); `RunningFollowsHolds` from `Following`.

**Voice path.** The invariant `PumpInv` says that a pump's handle is current, or stale for
the first time (`Handles`), and follows a frame from the channel (`Channel`: in order, nobody
was handed one) through a pump (`Taken`: each a frame of its own, older than the channel's) to
a queue (`Sent`: what a pump sent is older than what it holds and what is in the channel).
From it `OwnOrderHolds`, and the refinement `RoutedHolds`, step by step
(`RouteStep`). `EachFrameOnce` accounts for every frame captured so far: it is in the channel or
in the hands of a pump (`NoneLost`) until one session is its fate, and then once in that
session's queue and in no other (`NoneTwice`). `PumpsKeepTheirPromise` carries all three over to
the voice path. `OneReceiver` is the safety that `FrameHanded` rests on: the lock is held
exactly while its holder waits in `recv_timeout`.

On the receiving side `NoStuckAudioHolds` is an invariant of the stream, for any packet length,
pre-buffer and output size. `RecentOnlyHolds` needs an invariant of the channel and the buffer
(`Recent`): what waits in the channel is the last arrivals (`InboxIsNewest`), and a buffer of n
samples holds the last n of all that were ever drained (`EndsAt`). Appending what was drained, dropping the
oldest and popping keep it (`EndsAtConcat`, `EndsAtDrop`, `KeptEndsAt`); that sample i is of packet
`(i - 1) \div PacketLen + 1` is arithmetic of its own (`PacketAfter`).

**Direct calls.** `AgreedRolesHold` from `CallInv`: a place that follows the exchange of
identities fixes the order of the two uuids (`Roles`), and an end that is in use has an owner
at both ends of its stream (`Types`). `NobodyIsStranded` is the safety half of `NothingHangs`, for
any number of clients and calls: who shows Connecting or Connected has an end of a call that
can still end that state, and the handle a client holds is of a session whose pump runs. Its
invariant adds that a connection still being dialled has nobody at its other end
(`Unanswered`): connecting moves both ends, and must not move one somebody depends on.

Only model-checked: the liveness properties (`ToldSessionEnds`, `StoppedListenerLeaves`,
`PhantomHeals`, `LockSpreads`, `EditsReachFile`, `FrameHanded`, `NothingHangs`), since fairness
and ENABLED are out of TLAPS's reach here. `LeavingReachesServer`, `JoinedIsListed` and
`MicFollowsGate` are violated by the code; the last two are proved under the conditions above.

## 6. Known disagreements and limits found while modelling

Besides the violated runs above; these have no run of their own.

*Room.*

- `Closed` (room.rs:3, 42-48) is never set. Nor does the state machine of that comment hold
  otherwise: `activate_session` (410-478) and the pump (993-996) set Connected without
  looking at the state, so a flow or an event that comes after leaving takes an Idle room to
  Connected. The second case heals (`PhantomHeals`).
- Over `wss://` a stopped listener leaves only when the server sends it something or ends the
  socket: `run_listener` gives a 200 ms read time-out to plain sockets alone (vps.rs:225-227),
  against PROGRESS.md:1272-1276 ("polls with a 200 ms read timeout", "every leave path ...
  notifies the server immediately"). Until then the server lists the client, as it did before
  that change. Without the premise of `StoppedListenerLeaves` TLC finds this in the
  instance of `room_winds_down`: Activate, InstallListener, ListenerPolls, Disconnect, and the
  thread stays in its read for ever.
- A malformed invite blob idles the room without a teardown (room.rs:932): when the accepting
  flow's Connecting was left and another flow has gone live before its blob is refused, the room
  is Idle with a live session and its roster, the UI has dropped the cards, and `is_busy()` lets a
  third flow overwrite the handle. `LiveSessionShows`, `PeersHaveCards` and `IdlingCleansUp` fail
  there; run and theorems assume `RefusesAlone`.
- A transport pump whose thread cannot be started is logged (room.rs:1105-1107) and the room stays
  Connected, with nobody to end it when the driver ends. `Activate` takes it that the pump starts.
- `RoomManager.identity` is never updated: `set_nickname` (lib.rs:334-335) calls `send_hello`,
  which sends the name of the start, and a driver's own Hello carries `remote.name`
  (room.rs:423, transport `lib.rs:1175`), against PROGRESS.md:1562-1565.
- Pruning the last peer leaves the room Connected with an empty roster (room.rs:237),
  whereas the last PeerLeft idles it.
- The listener of a room that was left reads a PeerLeft, finds the roster empty and idles
  a flow that is just connecting (`remove_peer` tests emptiness for unknown peers too).
- Two flows that activate in turn leave the first driver without a handle: nothing can
  stop it any more (room.rs:474). `Phantom` excludes this case explicitly.
- Audio does not refresh `peer_seen` (room.rs:998-1017, against PROGRESS.md:1559-1560).
- `toggle_mute` while deafened un-mutes (against the comment at hotkeys.rs:44-45).
- Rebinding while the old key is down leaves `ptt_held` set; a refused registration
  leaves the saved binding unregistered and the mic closed.
- With loopback on, a muted microphone is sent to the network as well (pipeline.rs:936).
- The code generator draws under the write lock until it finds a free code: with all 9000
  codes taken the server stops (main.rs:303).
- `prune_stale` of the UDP hub has no caller (main.rs:537).
- Two clients dialling each other at the same time both fail (discovery `lib.rs:25-27`).

*Relay.*

- PROJECT.md:110 says clients lock "onto whichever port the VPS firewall allows". Until a driver has
  received something, it sends pings, audio and control to the primary address only, and its
  probes are empty registrations, which the hub does not forward (main.rs:661). With the
  primary port blocked and the two Hellos lost, two clients wait for each other for ever.
- A State message sent through the relay is one datagram and is not repeated; one sent
  through a P2P driver whose control channel is full may be overtaken by a later one
  (`flush_outbox`, transport `lib.rs:1017-1037`).

*Presence.*

- A session that starts is told nothing of the switches until the first change. Music that
  ends by itself is not announced (pipeline.rs:906-933), and the forwarder's music fields are
  read before it takes the room lock, so they may be stale. The speaking flag
  `send_room_state` sends was loaded before it waited.

*Voice path.*

- "when no session is active it idles" (room.rs:330): the processing thread goes on filling
  `net_out`, without bound, and the backlog is flushed into the next session.
- "loopback-only audio never leaves the machine" (pipeline.rs:686) tests `tx_open`, which
  loopback opens.
- Two pumps run (room.rs:333 is called twice), so frames may reach the driver, and be
  numbered by it, out of order.
- Less than 40 ms left over at the end of a spurt stay in the buffer and are heard at the
  start of the next one; an armed stream that was emptied exactly skips its pre-buffering; late and
  duplicated packets are played.
- A pipeline start that fails at the log directory or a debug WAV (pipeline.rs:331-350)
  leaves the stream-owner thread running and the devices open.

*Settings.*

- `flush()` is "used on exit" (settings.rs:223, PROGRESS.md:223-224), but no exit calls it.
- "Persistent peer identity" (settings.rs:59): rooms use a uuid made afresh by each process
  (lib.rs:991-994); the persistent one is saved and not used.
- Voice and music bitrates are limited by the setters of `LiveControls` only: the raw value is
  saved, and used as it is after the next start.
- A save that failed is tried again only after another edit.

## 7. Plan

What would come next, in order of importance.

1. **Abstract room** - a three-state specification of what a connect button promises, with
   `RoomSession` (one flow kind at a time) refining it through `state`, `active` and `pc`.
2. **`RosterSweep`** - `peer_seen` with coarse time, heartbeats 3 s, limit 15 s, against the
   three transports: may the sweep remove a peer that talks?
3. **`Outbox`** - the control channel of a P2P driver with a full buffer: which State message
   does the peer see last? It would extend `Presence` to the receiver's card.
4. **Proofs** - every safety property the runs check is proved. What is left are the modules
   above, once written, and a bound on `NoneActive`: which interleavings of flows overwrite a handle.

## 8. Not modelled

- Relaying of SDP offers, answers and candidates by the server, and the `PeerHost` and
  `DirectP2P` branches of a room call: the mode is a constant (room.rs:701), no client
  reaches them. For the same reason the embedded voice host is left out.
- Codec, resampler, noise suppression, VAD, earcons and the music decoder: numerical work
  on floats and third-party code with no control a model checker could tell apart.
- CPAL device streams and the mDNS advertiser: pure I/O through third-party libraries.
- ICE, DTLS and SCTP: external protocols; the room sees only connect, data and failure. The
  control outbox of the P2P driver.
- Power loss, and file systems whose rename is not atomic: the code never syncs. Two processes
  on one profile, which share `settings.json.tmp`. `Settings::sanitize` and other limits on
  values.
- The encoding of invite blobs, frames, packets and SDP.
- Malformed JSON, logging, meters, DTX and bitrate, WAV capture, local monitor, window and
  clipboard commands: they change no state a property is about.
- The soak harness: a test tool.
