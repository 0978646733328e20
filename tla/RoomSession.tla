----------------------------- MODULE RoomSession -----------------------------
(***************************************************************************)
(* The room session of one Verio client: crates/verio-app/src/room.rs.     *)
(*                                                                         *)
(* One RoomManager sits behind one mutex.  Around it run                   *)
(*   - flow threads, one per connect request (create/join a room on the    *)
(*     signalling server, dial/accept a direct connection, create+complete *)
(*     or accept an invite), each blocking between lock sections;          *)
(*   - for every session a flow activates: a transport driver, which owns  *)
(*     the media socket, and a transport pump, which turns the driver's    *)
(*     events into room updates;                                           *)
(*   - for every room (relay) session: a WebSocket listener and a roster   *)
(*     thread.                                                             *)
(* Every action below is one critical section of the room mutex, or one    *)
(* step of a driver outside it.  A session is named by its flow.           *)
(***************************************************************************)
EXTENDS Naturals, FiniteSets

CONSTANTS Peer,     \* uuids other clients (or a stale self) appear under
          Vps,      \* flows of run_create_room / run_join_room
          Tls,      \* those of them that reach the server over wss://
          Dial,     \* flows of run_connect_direct / run_accept_direct
          Invite,   \* flows of run_create_invite, later run_complete_invite
          Accept,   \* flows of run_accept_invite
          NoFlow,   \* None in `active`, `pending`; the flag made by new()
          NoPeer    \* no remote identity learned yet

Flow == Vps \cup Dial \cup Invite \cup Accept

ASSUME FlowAssumption ==
    /\ NoFlow \notin Flow
    /\ NoPeer \notin Peer
    /\ Vps \cap (Dial \cup Invite \cup Accept) = {}
    /\ Dial \cap (Invite \cup Accept) = {}
    /\ Invite \cap Accept = {}
    /\ Tls \subseteq Vps

VARIABLES
    \* RoomManager, guarded by the room mutex
    state,      \* RoomState as the UI sees it (every change is emitted)
    peers,      \* keys of `peers`
    seen,       \* keys of `peer_seen`
    active,     \* the session whose handle `active` holds
    pending,    \* the flow whose half-finished invite `pending` holds
    stopRef,    \* the flow whose flag `signaling_stop` points to
    stopped,    \* the set flags of listeners that still run
    cards,      \* the peer cards of the UI: a fold of the emitted RoomEvents
    \* flow threads
    pc,         \* where the flow's thread is
    remote,     \* the identity its signalling yielded
    adopt,      \* initial_peers() not yet added
    \* per session
    driver,     \* transport driver thread
    told,       \* running drivers with Disconnect in their command channel
    conn,       \* the driver's Connected event
    pump,       \* transport pump thread
    listener,   \* WebSocket listener thread
    known,      \* room members according to the signalling read so far
    roster      \* roster thread

roomVars   == <<state, peers, seen, active, pending, stopRef, stopped, cards>>
flowVars   == <<pc, remote, adopt>>
mediaVars  == <<driver, conn, pump>>
signalVars == <<listener, known, roster>>
vars == <<state, peers, seen, active, pending, stopRef, stopped, cards,
          pc, remote, adopt, driver, told, conn, pump,
          listener, known, roster>>

RoomState == {"idle", "connecting", "connected", "closed"}
FlowStep  == {"unused", "signal", "parse", "wait", "adopt", "pending",
              "complete", "install", "done"}
Thread    == {"none", "up", "ended"}
Listener  == {"none", "check", "read", "ended"}
ConnEvent == {"none", "queued", "handled"}

TypeOK ==
    /\ state \in RoomState
    /\ peers \in SUBSET Peer
    /\ seen \in SUBSET Peer
    /\ active \in Flow \cup {NoFlow}
    /\ pending \in Flow \cup {NoFlow}
    /\ stopRef \in Flow \cup {NoFlow}
    /\ stopped \in SUBSET Flow
    /\ cards \in SUBSET Peer
    /\ pc \in [Flow -> FlowStep]
    /\ remote \in [Flow -> Peer \cup {NoPeer}]
    /\ adopt \in [Flow -> SUBSET Peer]
    /\ driver \in [Flow -> Thread]
    /\ told \in SUBSET Flow
    /\ conn \in [Flow -> ConnEvent]
    /\ pump \in [Flow -> Thread]
    /\ listener \in [Flow -> Listener]
    /\ known \in [Flow -> SUBSET Peer]
    /\ roster \in [Flow -> Thread]

(* RoomManager::new: idle, nobody known, a fresh unset stop flag. *)
Init ==
    /\ state = "idle"
    /\ peers = {} /\ seen = {} /\ cards = {}
    /\ active = NoFlow /\ pending = NoFlow /\ stopRef = NoFlow
    /\ stopped = {} /\ told = {}
    /\ pc = [f \in Flow |-> "unused"]
    /\ remote = [f \in Flow |-> NoPeer]
    /\ adopt = [f \in Flow |-> {}]
    /\ driver = [f \in Flow |-> "none"]
    /\ conn = [f \in Flow |-> "none"]
    /\ pump = [f \in Flow |-> "none"]
    /\ listener = [f \in Flow |-> "none"]
    /\ known = [f \in Flow |-> {}]
    /\ roster = [f \in Flow |-> "none"]

-----------------------------------------------------------------------------
(* Methods of RoomManager that the critical sections are made of.          *)

IsBusy == state \in {"connecting", "connected"}

(* What StateChanged does to the cards: the UI drops them all on "idle".   *)
(* set_state emits only when the state really changes.                     *)
CardsOnState(s) == IF s # state /\ s \in {"idle", "closed"} THEN {} ELSE cards

(* Faulty variants, used only to show that the properties can fail:        *)
(* teardown that unwraps an empty `active`, that borrows the handle        *)
(* instead of taking it, that forgets to clear `peer_seen`.                *)
TeardownUnchecked ==
    /\ stopped' = stopped \cup {f \in {stopRef} \ {NoFlow} : listener[f] # "ended"}
    /\ told' = told \cup {active}
    /\ active' = NoFlow /\ pending' = NoFlow /\ peers' = {} /\ seen' = {}
    /\ UNCHANGED stopRef

TeardownBorrows ==
    /\ stopped' = stopped \cup {f \in {stopRef} \ {NoFlow} : listener[f] # "ended"}
    /\ told' = told \cup {f \in {active} \ {NoFlow} : driver[f] = "up"}
    /\ pending' = NoFlow /\ peers' = {} /\ seen' = {}
    /\ UNCHANGED <<active, stopRef>>

TeardownKeepsSeen ==
    /\ stopped' = stopped \cup {f \in {stopRef} \ {NoFlow} : listener[f] # "ended"}
    /\ told' = told \cup {f \in {active} \ {NoFlow} : driver[f] = "up"}
    /\ active' = NoFlow /\ pending' = NoFlow /\ peers' = {}
    /\ UNCHANGED <<seen, stopRef>>

(* teardown_session: set the stop flag the room holds now, disconnect the  *)
(* session held in `active`, forget the invite and every peer.  (The cards *)
(* are not told about the peers; callers follow with set_state(Idle).)  A  *)
(* flag nobody polls any more and a channel whose driver is gone are left  *)
(* out.                                                                    *)
TeardownSession ==
    /\ stopped' = stopped \cup {f \in {stopRef} \ {NoFlow} : listener[f] # "ended"}
    /\ told' = told \cup {f \in {active} \ {NoFlow} : driver[f] = "up"}
    /\ active' = NoFlow
    /\ pending' = NoFlow
    /\ peers' = {}
    /\ seen' = {}
    /\ UNCHANGED stopRef

(* teardown_session followed by set_state(Idle).                           *)
TeardownToIdle ==
    /\ TeardownSession
    /\ state' = "idle"
    /\ cards' = CardsOnState("idle")

(* Faulty: only a known peer is marked; a new peer is not announced.       *)
AddPeerUnseen(p) ==
    /\ seen' = seen \cup (peers \cap {p})
    /\ peers' = peers \cup {p}
    /\ cards' = IF p \in peers THEN cards ELSE cards \cup {p}
    /\ UNCHANGED <<state, active, pending, stopRef, stopped, told>>

AddPeerSilently(p) ==
    /\ seen' = seen \cup {p}
    /\ peers' = peers \cup {p}
    /\ UNCHANGED <<state, active, pending, stopRef, stopped, told, cards>>

(* add_peer: refresh or insert; a card is announced only for a new peer.   *)
AddPeer(p) ==
    /\ seen' = seen \cup {p}
    /\ peers' = peers \cup {p}
    /\ cards' = IF p \in peers THEN cards ELSE cards \cup {p}
    /\ UNCHANGED <<state, active, pending, stopRef, stopped, told>>

(* remove_peer: `peer_seen` keeps its entry; the emptiness test follows    *)
(* even when p was not in the room.                                        *)
RemovePeer(p) ==
    LET left     == peers \ {p}
        announce == cards \ (peers \cap {p})
    IN  IF left = {}
        THEN /\ TeardownSession
             /\ state' = "idle"
             /\ cards' = IF state = "idle" THEN announce ELSE {}
        ELSE /\ peers' = left
             /\ cards' = announce
             /\ UNCHANGED <<state, seen, active, pending, stopRef, stopped, told>>

(* prune_stale_peers when the entries in S are older than the limit.       *)
PruneStalePeers(S) ==
    /\ seen' = seen \ S
    /\ peers' = peers \ S
    /\ cards' = cards \ (S \cap peers)
    /\ UNCHANGED <<state, active, pending, stopRef, stopped, told>>

-----------------------------------------------------------------------------
(* Flow threads.                                                           *)

(* Faulty: a flow that starts without asking is_busy().                    *)
BeginAnyway(f, step) ==
    /\ pc[f] = "unused"
    /\ state' = "connecting"
    /\ pc' = [pc EXCEPT ![f] = step]
    /\ UNCHANGED <<peers, seen, active, pending, stopRef, stopped, cards,
                   remote, adopt, told, mediaVars, signalVars>>

(* The first lock section of a flow: refuse when busy, else Connecting.    *)
Begin(f, step) ==
    /\ pc[f] = "unused"
    /\ ~IsBusy
    /\ state' = "connecting"
    /\ pc' = [pc EXCEPT ![f] = step]
    /\ UNCHANGED <<peers, seen, active, pending, stopRef, stopped, cards,
                   remote, adopt, told, mediaVars, signalVars>>

RunVps(f)          == f \in Vps    /\ Begin(f, "signal")
RunDirect(f)       == f \in Dial   /\ Begin(f, "signal")
RunCreateInvite(f) == f \in Invite /\ Begin(f, "signal")
RunAcceptInvite(f) == f \in Accept /\ Begin(f, "parse")

(* VpsSignaling::create answered Created; the thread goes on to            *)
(* exchange_identities, which blocks until somebody joins.                 *)
RoomCreated(f) ==
    /\ f \in Vps /\ pc[f] = "signal"
    /\ pc' = [pc EXCEPT ![f] = "wait"]
    /\ UNCHANGED <<roomVars, remote, adopt, told, mediaVars, signalVars>>

(* VpsSignaling::join answered Joined with the members S (a room exists    *)
(* only while it has members); target_peer is the first of them.           *)
RoomJoined(f, S, p) ==
    /\ f \in Vps /\ pc[f] = "signal"
    /\ p \in S
    /\ pc' = [pc EXCEPT ![f] = "adopt"]
    /\ remote' = [remote EXCEPT ![f] = p]
    /\ adopt' = [adopt EXCEPT ![f] = S]
    /\ known' = [known EXCEPT ![f] = S]
    /\ UNCHANGED <<roomVars, told, mediaVars, listener, roster>>

(* exchange_identities reads the first PeerJoined.                         *)
IdentityExchanged(f, p) ==
    /\ f \in Vps /\ pc[f] = "wait"
    /\ pc' = [pc EXCEPT ![f] = "adopt"]
    /\ remote' = [remote EXCEPT ![f] = p]
    /\ known' = [known EXCEPT ![f] = {p}]
    /\ UNCHANGED <<roomVars, adopt, told, mediaVars, listener, roster>>

(* One iteration of the loop over initial_peers().                         *)
AdoptPeer(f, p) ==
    /\ pc[f] = "adopt" /\ p \in adopt[f]
    /\ adopt' = [adopt EXCEPT ![f] = @ \ {p}]
    /\ AddPeer(p)
    /\ UNCHANGED <<pc, remote, mediaVars, signalVars>>

(* run_create_invite stores the half-finished invite, whatever the state   *)
(* has become while STUN gathering blocked.                                *)
StorePending(f) ==
    /\ f \in Invite /\ pc[f] = "signal"
    /\ pending' = f
    /\ pc' = [pc EXCEPT ![f] = "pending"]
    /\ UNCHANGED <<state, peers, seen, active, stopRef, stopped, cards,
                   remote, adopt, told, mediaVars, signalVars>>

(* run_complete_invite with a well-formed answer blob takes the invite.    *)
RunCompleteInvite(f) ==
    /\ pending = f /\ pc[f] = "pending"
    /\ pending' = NoFlow
    /\ pc' = [pc EXCEPT ![f] = "complete"]
    /\ UNCHANGED <<state, peers, seen, active, stopRef, stopped, cards,
                   remote, adopt, told, mediaVars, signalVars>>

(* run_accept_invite: a bad blob goes straight back to Idle ...            *)
BadBlob(f) ==
    /\ pc[f] = "parse"
    /\ state' = "idle"
    /\ cards' = CardsOnState("idle")
    /\ pc' = [pc EXCEPT ![f] = "done"]
    /\ UNCHANGED <<peers, seen, active, pending, stopRef, stopped,
                   remote, adopt, told, mediaVars, signalVars>>

(* ... and a good one is answered.                                         *)
GoodBlob(f) ==
    /\ pc[f] = "parse"
    /\ pc' = [pc EXCEPT ![f] = "signal"]
    /\ UNCHANGED <<roomVars, remote, adopt, told, mediaVars, signalVars>>

(* A flow whose signalling is over and whose next step is activation.      *)
Ready(f) ==
    \/ f \in Vps /\ pc[f] = "adopt" /\ adopt[f] = {}
    \/ f \in Dial \cup Accept /\ pc[f] = "signal"
    \/ f \in Invite /\ pc[f] = "complete"

(* activate_session / activate_relay_session: spawn the driver, then, with *)
(* no look at the current state, register the peer, become Connected and   *)
(* overwrite `active`; the pump is spawned right after.  A relay driver    *)
(* queues its Connected event at once.                                     *)
Activate(f, p) ==
    /\ Ready(f)
    /\ f \in Vps => p = remote[f]
    /\ remote' = [remote EXCEPT ![f] = p]
    /\ driver' = [driver EXCEPT ![f] = "up"]
    /\ conn' = [conn EXCEPT ![f] = IF f \in Vps THEN "queued" ELSE "none"]
    /\ pump' = [pump EXCEPT ![f] = "up"]
    /\ seen' = seen \cup {p}
    /\ peers' = peers \cup {p}
    /\ cards' = cards \cup {p}
    /\ state' = "connected"
    /\ active' = f
    /\ pc' = [pc EXCEPT ![f] = IF f \in Vps THEN "install" ELSE "done"]
    /\ UNCHANGED <<pending, stopRef, stopped, adopt, told, signalVars>>

(* Tail of run_vps_room_session: install a fresh stop flag, start the      *)
(* roster thread and the listener.  Either may fail to start, and nobody   *)
(* minds; the socket goes with a listener that did not.                    *)
InstallListener(f) ==
    /\ pc[f] = "install"
    /\ stopRef' = f
    /\ \E up \in {"up", "ended"} : roster' = [roster EXCEPT ![f] = up]
    /\ \/ /\ listener' = [listener EXCEPT ![f] = "check"]
          /\ UNCHANGED known
       \/ /\ listener' = [listener EXCEPT ![f] = "ended"]
          /\ known' = [known EXCEPT ![f] = {}]
    /\ pc' = [pc EXCEPT ![f] = "done"]
    /\ UNCHANGED <<state, peers, seen, active, pending, stopped, cards,
                   remote, adopt, told, mediaVars>>

(* Faulty: a failure that tears down but leaves the state alone.           *)
FailSilently(f) ==
    /\ \/ pc[f] \in {"signal", "wait", "complete"}
       \/ Ready(f)
    /\ TeardownSession
    /\ pc' = [pc EXCEPT ![f] = "done"]
    /\ remote' = [remote EXCEPT ![f] = NoPeer]
    /\ known' = [known EXCEPT ![f] = {}]
    /\ UNCHANGED <<state, cards, adopt, mediaVars, listener, roster>>

(* Any error before activation: fail() tears down and idles the room, even *)
(* if it is by now another flow's.                                         *)
Fail(f) ==
    /\ \/ pc[f] \in {"signal", "wait", "complete"}
       \/ Ready(f)
    /\ TeardownToIdle
    /\ pc' = [pc EXCEPT ![f] = "done"]
    /\ remote' = [remote EXCEPT ![f] = NoPeer]
    /\ known' = [known EXCEPT ![f] = {}]
    /\ UNCHANGED <<adopt, mediaVars, listener, roster>>

(* leave_room / disconnect_peer: RoomManager::disconnect.                  *)
Disconnect ==
    /\ TeardownToIdle
    /\ UNCHANGED <<flowVars, mediaVars, signalVars>>

-----------------------------------------------------------------------------
(* Transport driver and transport pump of session f.                       *)

(* The P2P driver reports its connection; a relay driver did so at start.  *)
DriverConnects(f) ==
    /\ f \notin Vps /\ driver[f] = "up" /\ conn[f] = "none"
    /\ conn' = [conn EXCEPT ![f] = "queued"]
    /\ UNCHANGED <<roomVars, flowVars, driver, told, pump, signalVars>>

(* A driver ends on the Disconnect command; a P2P driver also when ICE or  *)
(* the channel fails.  Its last event is Disconnected.                     *)
DriverStops(f) ==
    /\ driver[f] = "up" /\ f \in told
    /\ driver' = [driver EXCEPT ![f] = "ended"]
    /\ told' = told \ {f}
    /\ UNCHANGED <<roomVars, flowVars, conn, pump, signalVars>>

DriverFails(f) ==
    /\ f \notin Vps /\ driver[f] = "up"
    /\ driver' = [driver EXCEPT ![f] = "ended"]
    /\ told' = told \ {f}
    /\ UNCHANGED <<roomVars, flowVars, conn, pump, signalVars>>

(* The event channel is an unbounded FIFO: Connected comes first, control  *)
(* messages after it, Disconnected last, after the driver's end.           *)
PumpConnected(f) ==
    /\ pump[f] = "up" /\ conn[f] = "queued"
    /\ conn' = [conn EXCEPT ![f] = "handled"]
    /\ state' = "connected"
    /\ UNCHANGED <<peers, seen, active, pending, stopRef, stopped, cards,
                   flowVars, driver, told, pump, signalVars>>

(* resolve_peer: only the relay names the sender of a control message.     *)
Sender(f, p) == pump[f] = "up" /\ conn[f] = "handled"
                /\ (f \in Vps \/ p = remote[f])

(* A Hello inserts an unknown sender; a known one under a new name gets    *)
(* its card announced again.                                               *)
PumpHello(f, p) ==
    /\ Sender(f, p)
    /\ \/ AddPeer(p)
       \/ /\ p \in peers
          /\ seen' = seen \cup {p}
          /\ cards' = cards \cup {p}
          /\ UNCHANGED <<state, peers, active, pending, stopRef, stopped, told>>
    /\ UNCHANGED <<flowVars, mediaVars, signalVars>>

(* State refreshes `peer_seen` (and the fields of a known peer).  Audio    *)
(* and Rtt change nothing here, and no driver forwards a Ping or a Pong.   *)
PumpMark(f, p) ==
    /\ Sender(f, p)
    /\ seen' = seen \cup {p}
    /\ UNCHANGED <<state, peers, active, pending, stopRef, stopped, cards,
                   flowVars, told, mediaVars, signalVars>>

(* Faulty: a pump that ends without idling the room; one that reacts to    *)
(* Disconnected only while its session is the active one.                  *)
PumpEndsSilently(f) ==
    /\ pump[f] = "up" /\ driver[f] = "ended" /\ conn[f] # "queued"
    /\ TeardownSession
    /\ pump' = [pump EXCEPT ![f] = "ended"]
    /\ remote' = [remote EXCEPT ![f] = NoPeer]
    /\ UNCHANGED <<state, cards, pc, adopt, driver, conn, signalVars>>

PumpOnlyActive(f) ==
    /\ pump[f] = "up" /\ driver[f] = "ended" /\ conn[f] # "queued"
    /\ active = f
    /\ TeardownToIdle
    /\ pump' = [pump EXCEPT ![f] = "ended"]
    /\ remote' = [remote EXCEPT ![f] = NoPeer]
    /\ UNCHANGED <<pc, adopt, driver, conn, signalVars>>

(* Disconnected tears down whatever session the room has now, idles it and *)
(* ends the pump.                                                          *)
PumpDisconnected(f) ==
    /\ pump[f] = "up" /\ driver[f] = "ended" /\ conn[f] # "queued"
    /\ TeardownSession
    /\ state' = "idle"
    /\ cards' = CardsOnState("idle") \ {remote[f]}
    /\ pump' = [pump EXCEPT ![f] = "ended"]
    /\ remote' = [remote EXCEPT ![f] = NoPeer]
    /\ UNCHANGED <<pc, adopt, driver, conn, signalVars>>

-----------------------------------------------------------------------------
(* WebSocket listener and roster thread of session f.                      *)

(* The thread returns; its socket and its flag go with it.                 *)
ListenerEnds(f) ==
    /\ listener' = [listener EXCEPT ![f] = "ended"]
    /\ stopped' = stopped \ {f}
    /\ known' = [known EXCEPT ![f] = {}]
    /\ UNCHANGED <<state, peers, seen, active, pending, stopRef, cards,
                   flowVars, told, mediaVars, roster>>

(* Top of the loop of run_listener: with the flag set, send Leave, close   *)
(* the socket and return; else read.                                       *)
ListenerLeaves(f) ==
    /\ listener[f] = "check" /\ f \in stopped
    /\ ListenerEnds(f)

(* Faulty: reads on although the flag is set.                              *)
PollsAnyway(f) ==
    /\ listener[f] = "check"
    /\ listener' = [listener EXCEPT ![f] = "read"]
    /\ UNCHANGED <<roomVars, flowVars, told, mediaVars, known, roster>>

ListenerPolls(f) ==
    /\ listener[f] = "check" /\ f \notin stopped
    /\ listener' = [listener EXCEPT ![f] = "read"]
    /\ UNCHANGED <<roomVars, flowVars, told, mediaVars, known, roster>>

(* The read times out after 200 ms - but run_listener can set the time-out *)
(* of a plain socket only: over TLS the thread blocks until ...            *)
ListenerTimeout(f) ==
    /\ listener[f] = "read" /\ f \notin Tls
    /\ listener' = [listener EXCEPT ![f] = "check"]
    /\ UNCHANGED <<roomVars, flowVars, told, mediaVars, known, roster>>

(* ... the read fails, or the server closed the socket, ...                *)
ListenerClosed(f) ==
    /\ listener[f] = "read"
    /\ ListenerEnds(f)

(* ... or it yields PeerJoined, or PeerLeft of a member.                   *)
ListenerPeerJoined(f, p) ==
    /\ listener[f] = "read"
    /\ listener' = [listener EXCEPT ![f] = "check"]
    /\ known' = [known EXCEPT ![f] = @ \cup {p}]
    /\ AddPeer(p)
    /\ UNCHANGED <<flowVars, mediaVars, roster>>

ListenerPeerLeft(f, p) ==
    /\ listener[f] = "read" /\ p \in known[f]
    /\ listener' = [listener EXCEPT ![f] = "check"]
    /\ known' = [known EXCEPT ![f] = @ \ {p}]
    /\ RemovePeer(p)
    /\ UNCHANGED <<flowVars, mediaVars, roster>>

(* Every 3 s: end when the room is idle, else prune who is stale by now.   *)
RosterEnds(f) ==
    /\ roster[f] = "up" /\ state = "idle"
    /\ roster' = [roster EXCEPT ![f] = "ended"]
    /\ UNCHANGED <<roomVars, flowVars, told, mediaVars, listener, known>>

RosterPrunes(f, S) ==
    /\ roster[f] = "up" /\ state # "idle"
    /\ PruneStalePeers(S)
    /\ UNCHANGED <<flowVars, mediaVars, signalVars>>

-----------------------------------------------------------------------------
FlowNext(f) ==
    \/ RunVps(f) \/ RunDirect(f) \/ RunCreateInvite(f) \/ RunAcceptInvite(f)
    \/ RoomCreated(f)
    \/ \E S \in SUBSET Peer, p \in Peer : RoomJoined(f, S, p)
    \/ \E p \in Peer : IdentityExchanged(f, p)
    \/ \E p \in Peer : AdoptPeer(f, p)
    \/ StorePending(f) \/ RunCompleteInvite(f)
    \/ BadBlob(f) \/ GoodBlob(f)
    \/ \E p \in Peer : Activate(f, p)
    \/ InstallListener(f)
    \/ Fail(f)

DriverNext(f) == DriverConnects(f) \/ DriverStops(f) \/ DriverFails(f)

PumpNext(f) ==
    \/ PumpConnected(f)
    \/ \E p \in Peer : PumpHello(f, p)
    \/ \E p \in Peer : PumpMark(f, p)
    \/ PumpDisconnected(f)

ListenerNext(f) ==
    \/ ListenerLeaves(f) \/ ListenerPolls(f)
    \/ ListenerTimeout(f) \/ ListenerClosed(f)
    \/ \E p \in Peer : ListenerPeerJoined(f, p)
    \/ \E p \in Peer : ListenerPeerLeft(f, p)

RosterNext(f) ==
    \/ RosterEnds(f)
    \/ \E S \in SUBSET Peer : RosterPrunes(f, S)

Next ==
    \/ Disconnect
    \/ \E f \in Flow : \/ FlowNext(f) \/ DriverNext(f) \/ PumpNext(f)
                       \/ ListenerNext(f) \/ RosterNext(f)

Spec == Init /\ [][Next]_vars

(* The scheduler runs every thread that is not blocked: a flow whose       *)
(* signalling is over (direct and invite signalling has time limits), a    *)
(* driver with a command in its channel (it polls), a pump with an event   *)
(* queued, a listener that is not reading, or whose read times out, the    *)
(* roster thread (its sleep ends).  Nothing is assumed of the user, of     *)
(* other clients, or of a thread blocked on the signalling server.         *)
Fairness ==
    \A f \in Flow :
        /\ WF_vars(\E p \in Peer : AdoptPeer(f, p))
        /\ WF_vars(Ready(f) /\ (Fail(f) \/ \E p \in Peer : Activate(f, p)))
        /\ WF_vars(InstallListener(f))
        /\ WF_vars(DriverStops(f))
        /\ WF_vars(PumpConnected(f))
        /\ WF_vars(PumpDisconnected(f))
        /\ WF_vars(ListenerLeaves(f))
        /\ WF_vars(ListenerPolls(f))
        /\ WF_vars(ListenerTimeout(f))
        /\ WF_vars(RosterEnds(f))

FairSpec == Spec /\ Fairness

-----------------------------------------------------------------------------
(* What must hold however the threads interleave.                          *)

(* Whoever has an entry in `peers` has one in `peer_seen`: the sweep       *)
(* iterates over `peer_seen` only, so a peer without one would never be    *)
(* pruned (room.rs, prune_stale_peers).                                    *)
PeersAreTracked == peers \subseteq seen

(* The handle in `active` belongs to a session that was not yet told to    *)
(* stop and whose pump still runs: if its driver dies, somebody will clear *)
(* `active` again (room.rs, activate_session / spawn_transport_pump).      *)
ActiveIsPumped ==
    \A f \in Flow : active = f => pump[f] = "up" /\ f \notin told

(* A flow thread between its first lock section and its last one.          *)
Working(f) == pc[f] \in {"signal", "parse", "wait", "adopt", "complete"}

(* The room shows Connecting only while some flow thread, or an invite     *)
(* waiting for its answer, can still end that state (begin_connecting and  *)
(* every exit of the run_* flows).                                         *)
ConnectingIsOwned ==
    state = "connecting" => pending # NoFlow \/ \E f \in Flow : Working(f)

(* The room shows Connected only while a transport pump runs that will set *)
(* it Idle when its driver ends.                                           *)
ConnectedIsPumped ==
    state = "connected" => \E f \in Flow : pump[f] = "up"

(* Only the bad-blob exit of run_accept_invite goes to Idle without a      *)
(* teardown, and the next three properties fail where it does so over a    *)
(* session that has gone live meanwhile.  Their assumption is that it      *)
(* finds the room as its own begin_connecting left it, or idled by         *)
(* somebody else.                                                          *)
RefusesAlone ==
    \A f \in Flow :
        BadBlob(f) => \/ state = "idle"
                      \/ active = NoFlow /\ pending = NoFlow /\ peers = {} /\ seen = {}

(* get_room_state never reports a peer whose card the UI has not been told *)
(* about (under RefusesAlone).                                             *)
PeersHaveCards == peers \subseteq cards

(* While a session is live the room shows Connected, so is_busy() refuses  *)
(* a second one (under RefusesAlone).                                      *)
LiveSessionShows == active # NoFlow => state = "connected"

(* Whatever sends the room to Idle also drops the session, the invite and  *)
(* the roster in the same critical section (teardown_session; under        *)
(* RefusesAlone).                                                          *)
IdlingCleansUp ==
    [][state # "idle" /\ state' = "idle"
       => active' = NoFlow /\ pending' = NoFlow /\ peers' = {} /\ seen' = {}]_vars

(* A session told to disconnect winds down completely: driver and pump end.*)
ToldSessionEnds == \A f \in Flow : f \in told ~> pump[f] = "ended"

(* A listener whose stop flag is set leaves the room on the server -       *)
(* provided, over TLS, that the server goes on sending or ends the socket: *)
(* a read without a time-out may never return (run_listener).              *)
StoppedListenerLeaves ==
    \A f \in Flow :
        (f \in Tls => []<>(listener[f] # "read"))
            => (f \in stopped ~> listener[f] = "ended")

(* A late Connected event of a session that was already left may show      *)
(* Connected again, but not for good - provided every driver that still    *)
(* runs was told to stop (one that lost its handle to a second activation  *)
(* was not).                                                               *)
Phantom == /\ state = "connected" /\ active = NoFlow
           /\ \A f \in Flow : driver[f] = "up" => f \in told
PhantomHeals == Phantom ~> ~Phantom

-----------------------------------------------------------------------------
(* What the documentation says and the code does not do:                   *)
(* PROGRESS.md:1275 "teardown_session sets it, so every leave path ...     *)
(* notifies the server immediately": whoever leaves while waiting for the  *)
(* first peer is not listed by the server for ever.                        *)
Listed(f) == pc[f] \in {"wait", "adopt", "install"} \/ listener[f] \in {"check", "read"}
LeavingReachesServer ==
    \A f \in Flow : pc[f] = "wait" /\ state = "idle" ~> ~Listed(f) \/ state # "idle"
=============================================================================
