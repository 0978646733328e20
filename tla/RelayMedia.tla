------------------------------ MODULE RelayMedia ------------------------------
(***************************************************************************)
(* Voice and control datagrams between the clients of a room:              *)
(*   - the relay driver of each client, one thread and one UDP socket per  *)
(*     session (spawn_relay_session_with_candidates in                     *)
(*     crates/verio-transport/src/lib.rs);                                 *)
(*   - the hub of the server, one task per UDP port over one shared table  *)
(*     of registrations (run_udp_relay in crates/verio-server/src/main.rs);*)
(*   - the network between them, which loses, duplicates and reorders, and *)
(*     a firewall before the server that lets nothing in on some ports.    *)
(* Payloads are abstracted to what the two programs tell apart: an empty   *)
(* one (the registration prefix alone), data (audio, Hello and every other *)
(* control message), ping and pong.  That a pong is timed only when it     *)
(* answers the latest ping changes no state here and is left out, as is    *)
(* the STUN envelope, which the hub strips from every datagram.            *)
(***************************************************************************)
EXTENDS FiniteSets, Naturals

CONSTANTS Peer,      \* clients, by uuid
          Room,      \* room codes
          Port,      \* UDP ports of the server, all candidates of every driver
          Primary,   \* the first candidate
          Blocked,   \* ports the firewall lets nothing in on
          Addr,      \* addresses a client's socket can have, as the server sees them
          None,      \* no room, no registration, no datagram
          MaxFlight, \* bound: datagrams in flight
          MaxStarts, \* bound: sessions started in a behaviour
          MaxDups    \* bound: datagrams the network duplicates in a behaviour

ASSUME RelayAssumption ==
    /\ Primary \in Port /\ Blocked \subseteq Port
    /\ None \notin Room \cup Addr \cup [addr : Addr, port : Port]
    /\ MaxFlight \in Nat /\ MaxStarts \in Nat /\ MaxDups \in Nat

VARIABLES
    room, addr,   \* driver: the session's room (None: no driver) and socket
    active,       \* driver: active_relay_addr
    locked,       \* driver: last_recv_time is set
    heard,        \* driver: senders of the data it reported in this session
    hub,          \* server: room -> uuid -> registration, all tasks share it
    task,         \* server: the datagram each task is about to forward
    up, down,     \* datagrams in flight, to and from the server
    starts, dups  \* the two bounds' counters

driverVars == <<room, addr, active, locked, heard>>
vars == <<room, addr, active, locked, heard, hub, task, up, down, starts, dups>>

Body     == {"reg", "data", "ping", "pong"}
Upward   == [port : Port, from : Addr, room : Room, uuid : Peer, body : Body]
Downward == [port : Port, to : Addr, room : Room, uuid : Peer, body : Body]
Client   == [addr : Addr, port : Port]   \* RelayClient; port stands for its socket

TypeOK ==
    /\ room \in [Peer -> Room \cup {None}]
    /\ addr \in [Peer -> Addr \cup {None}]
    /\ active \in [Peer -> Port]
    /\ locked \in [Peer -> BOOLEAN]
    /\ heard \in [Peer -> SUBSET Peer]
    /\ hub \in [Room -> [Peer -> Client \cup {None}]]
    /\ task \in [Port -> Upward \cup {None}]
    /\ up \in SUBSET Upward /\ down \in SUBSET Downward
    /\ starts \in Nat /\ dups \in Nat

Init ==
    /\ room = [p \in Peer |-> None]
    /\ addr = [p \in Peer |-> None]
    /\ active = [p \in Peer |-> Primary]
    /\ locked = [p \in Peer |-> FALSE]
    /\ heard = [p \in Peer |-> {}]
    /\ hub = [r \in Room |-> [p \in Peer |-> None]]
    /\ task = [c \in Port |-> None]
    /\ up = {} /\ down = {}
    /\ starts = 0 /\ dups = 0

-----------------------------------------------------------------------------
(* The network.                                                            *)

(* ups and downs are on their way now, less those that get lost; nothing   *)
(* passes the firewall to a blocked port.                                  *)
Transit(ups, downs) ==
    /\ up' \in SUBSET {d \in ups : d.port \notin Blocked}
    /\ down' \in SUBSET downs
    /\ Cardinality(up') + Cardinality(down') <= MaxFlight

(* What remains in flight when d is delivered; it may come a second time.  *)
Rest(d, net) == IF dups' = dups THEN net \ {d} ELSE net
Twice == dups' \in {dups, dups + 1} /\ dups' <= MaxDups

-----------------------------------------------------------------------------
(* The driver of client p.                                                 *)

Datagram(p, c, b) ==
    [port |-> c, from |-> addr[p], room |-> room[p], uuid |-> p, body |-> b]
ToActive(p, b) == {Datagram(p, active[p], b)}

(* Faulty (the variants marked so only show that the properties can fail): *)
(* the loop goes on after a Disconnect.                                    *)
NeverStops(p) == TRUE

Online(p) == room[p] # None

(* Bind a socket, then register and say Hello at every candidate.          *)
Start(p, r, a) ==
    /\ ~Online(p) /\ starts < MaxStarts
    /\ \A q \in Peer : addr[q] # a
    /\ room' = [room EXCEPT ![p] = r]
    /\ addr' = [addr EXCEPT ![p] = a]
    /\ UNCHANGED <<active, locked, heard>>
    /\ Transit(up \cup [port : Port, from : {a}, room : {r}, uuid : {p}, body : {"reg", "data"}],
               down)
    /\ starts' = starts + 1
    /\ UNCHANGED <<hub, task, dups>>

(* PeerCommand::Disconnect: the thread ends, its socket and locals go.      *)
Disconnect(p) ==
    /\ Online(p)
    /\ room' = [room EXCEPT ![p] = None]
    /\ addr' = [addr EXCEPT ![p] = None]
    /\ active' = [active EXCEPT ![p] = Primary]
    /\ locked' = [locked EXCEPT ![p] = FALSE]
    /\ heard' = [heard EXCEPT ![p] = {}]
    /\ UNCHANGED <<hub, task, up, down, starts, dups>>

(* PeerCommand::Audio, PeerCommand::Control.                               *)
SendData(p) ==
    /\ Online(p)
    /\ Transit(up \cup ToActive(p, "data"), down)
    /\ UNCHANGED <<driverVars, hub, task, starts, dups>>

(* Faulty: the heartbeat goes to the active address even before anything   *)
(* came in.                                                                *)
BeatsActive(p) == ToActive(p, "reg")

(* The heartbeat probes every candidate until something was received.      *)
Beats(p) == IF locked[p] THEN ToActive(p, "reg")
            ELSE {Datagram(p, c, "reg") : c \in Port}

Heartbeat(p) ==
    /\ Online(p)
    /\ Transit(up \cup Beats(p), down)
    /\ UNCHANGED <<driverVars, hub, task, starts, dups>>

Ping(p) ==
    /\ Online(p)
    /\ Transit(up \cup ToActive(p, "ping"), down)
    /\ UNCHANGED <<driverVars, hub, task, starts, dups>>

(* Faulty: whatever reaches the socket is taken for the room's.            *)
AcceptsAnyRoom(p, d) == d.uuid # p /\ d.body # "reg"

(* Faulty: the driver's own datagrams are not told apart.                  *)
AcceptsOwn(p, d) == d.room = room[p] /\ d.body # "reg"

(* The tests of process_packet; the address it came from is the server's.  *)
Accepts(p, d) == d.room = room[p] /\ d.uuid # p /\ d.body # "reg"

(* The active address follows whatever was received last.                  *)
Follow(p, c) ==
    /\ active' = [active EXCEPT ![p] = c]
    /\ locked' = [locked EXCEPT ![p] = TRUE]

Receive(p, d) ==
    /\ Online(p) /\ d \in down /\ d.to = addr[p]
    /\ Twice
    /\ IF Accepts(p, d)
       THEN /\ Follow(p, d.port)
            /\ heard' = [heard EXCEPT ![p] = @ \cup IF d.body = "data" THEN {d.uuid} ELSE {}]
            /\ Transit(up \cup IF d.body = "ping" THEN {Datagram(p, d.port, "pong")} ELSE {},
                       Rest(d, down))
       ELSE /\ down' = Rest(d, down)
            /\ UNCHANGED <<active, locked, heard, up>>
    /\ UNCHANGED <<room, addr, hub, task, starts>>

-----------------------------------------------------------------------------
(* The server's task of port d.port.                                       *)

(* Register under the write lock.  Nothing is forwarded of an empty        *)
(* payload.                                                                *)
HubReceive(d) ==
    /\ d \in up /\ task[d.port] = None
    /\ Twice /\ up' = Rest(d, up)
    /\ hub' = [hub EXCEPT ![d.room][d.uuid] = [addr |-> d.from, port |-> d.port]]
    /\ task' = [task EXCEPT ![d.port] = IF d.body = "reg" THEN None ELSE d]
    /\ UNCHANGED <<driverVars, down, starts>>

(* Faulty: the hub sends from the primary socket whatever socket the       *)
(* client had registered with.                                             *)
CopiesFromPrimary(d) ==
    {[port |-> Primary, to |-> hub[d.room][q].addr,
      room |-> d.room, uuid |-> d.uuid, body |-> d.body] :
     q \in {x \in Peer \ {d.uuid} : hub[d.room][x] # None /\ hub[d.room][x].addr # d.from}}

(* What goes out for d: to every other registration of its room, through   *)
(* the socket that registration came in on.                                *)
Copies(d) ==
    {[port |-> hub[d.room][q].port, to |-> hub[d.room][q].addr,
      room |-> d.room, uuid |-> d.uuid, body |-> d.body] :
     q \in {x \in Peer \ {d.uuid} : hub[d.room][x] # None /\ hub[d.room][x].addr # d.from}}

(* Forward under the read lock: another task may have registered somebody  *)
(* in between.                                                             *)
HubForward(c) ==
    /\ task[c] # None
    /\ Transit(up, down \cup Copies(task[c]))
    /\ task' = [task EXCEPT ![c] = None]
    /\ UNCHANGED <<driverVars, hub, starts, dups>>

-----------------------------------------------------------------------------
Next ==
    \/ \E p \in Peer, r \in Room, a \in Addr : Start(p, r, a)
    \/ \E p \in Peer : Disconnect(p) \/ SendData(p) \/ Heartbeat(p) \/ Ping(p)
    \/ \E p \in Peer, d \in down : Receive(p, d)
    \/ \E d \in up : HubReceive(d)
    \/ \E c \in Port : HubForward(c)

Spec == Init /\ [][Next]_vars

(* The driver's timers and the server's tasks run for ever, and the        *)
(* network does not lose for ever what is sent again and again, whatever   *)
(* the tasks are doing at the time.                                        *)
Delivered(ds) == /\ \A d \in ds : d.port \in Blocked \/ d \in up'
                 /\ \A c \in Port : task[c] = None
Consumed(p, b) == \E d \in up : d.uuid = p /\ d.body = b /\ HubReceive(d) /\ d \notin up'
Forwarded(p) == \E c \in Port : /\ task[c] # None /\ task[c].uuid = p
                               /\ HubForward(c) /\ Copies(task[c]) \subseteq down'

(* What the lock of client p takes once client q has one.                  *)
Fairness(p, q) ==
    /\ SF_vars(Heartbeat(p) /\ Delivered(Beats(p))) /\ SF_vars(Consumed(p, "reg"))
    /\ SF_vars(Ping(q) /\ Delivered(ToActive(q, "ping"))) /\ SF_vars(Consumed(q, "ping"))
    /\ WF_vars(\E c \in Port : HubForward(c)) /\ SF_vars(Forwarded(q))
    /\ SF_vars(\E d \in down : Receive(p, d))

Together(p, q) == Online(p) /\ Online(q) /\ room[p] = room[q]

(* Nothing crosses rooms: whoever client p has heard is registered at the  *)
(* hub for the very room p is in - however stale the registrations, and    *)
(* whoever owned p's address before (process_packet, lib.rs:1675-1689).    *)
HeardIsRegistered ==
    \A p \in Peer : Online(p) => \A q \in heard[p] : hub[room[p]][q] # None

(* No client ever hears itself: neither the hub's two tests nor the        *)
(* driver's own are enough alone, since p may get the address of an old    *)
(* registration while its own old datagrams are still in flight.           *)
NeverHearsItself == \A p \in Peer : Online(p) => p \notin heard[p]

(* Once a driver was answered it talks to a port the server can be reached *)
(* at, although it follows whatever datagram comes last.                   *)
ActiveIsOpen == \A p \in Peer : Online(p) /\ locked[p] => active[p] \notin Blocked
===============================================================================
