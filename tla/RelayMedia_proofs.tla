-------------------------- MODULE RelayMedia_proofs --------------------------
(***************************************************************************)
(* Proofs about RelayMedia, for any clients, rooms, ports and addresses,   *)
(* any firewall and any number of datagrams in flight.  The argument       *)
(* follows a datagram on its way: what is in flight to the server passed   *)
(* the firewall; what a task is about to forward is registered; what is in *)
(* flight from the server has a registered sender and comes from a socket  *)
(* somebody could reach; and a registration is replaced but never removed. *)
(***************************************************************************)
EXTENDS RelayMedia, TLAPS

USE RelayAssumption DEF RelayAssumption

(* A running driver has a socket.                                          *)
HasSocket == \A p \in Peer : Online(p) => addr[p] \in Addr

Typed == TypeOK /\ HasSocket

(* What one datagram, registration or task guarantees.                     *)
Reachable == \A d \in up : d.port \notin Blocked
Tasked == \A c \in Port : task[c] # None =>
             task[c].port \notin Blocked /\ hub[task[c].room][task[c].uuid] # None
Returned == \A d \in down : d.port \notin Blocked /\ hub[d.room][d.uuid] # None
Registered == \A r \in Room, q \in Peer :
                 hub[r][q] # None => hub[r][q].port \notin Blocked

Flight == Reachable /\ Tasked /\ Returned /\ Registered

-----------------------------------------------------------------------------
(* What the senders put on their way.                                      *)
LEMMA DatagramType ==
  ASSUME Typed, NEW p \in Peer, Online(p), NEW c \in Port, NEW b \in Body
  PROVE  Datagram(p, c, b) \in Upward
  BY DEF Typed, TypeOK, HasSocket, Online, Datagram, Upward

LEMMA BeatsType ==
  ASSUME Typed, NEW p \in Peer, Online(p)
  PROVE  Beats(p) \subseteq Upward
<1>1. "reg" \in Body
  BY DEF Body
<1>2. active[p] \in Port
  BY DEF Typed, TypeOK
<1> QED
  BY <1>1, <1>2, DatagramType DEF Beats, ToActive

LEMMA CopiesType ==
  ASSUME TypeOK, NEW d \in Upward
  PROVE  Copies(d) \subseteq Downward
<1>1. d.room \in Room /\ d.uuid \in Peer /\ d.body \in Body
  BY DEF Upward
<1>2. \A q \in Peer : hub[d.room][q] # None =>
         hub[d.room][q].port \in Port /\ hub[d.room][q].addr \in Addr
  BY <1>1 DEF TypeOK, Client
<1> QED
  BY <1>1, <1>2 DEF Copies, Downward

(* The network invents nothing.                                            *)
LEMMA TransitLoses ==
  ASSUME NEW us, NEW ds, Transit(us, ds)
  PROVE  up' \subseteq us /\ (\A d \in up' : d.port \notin Blocked) /\ down' \subseteq ds
  BY DEF Transit

LEMMA RestShrinks ==
  ASSUME NEW d, NEW net
  PROVE  Rest(d, net) \subseteq net
  BY DEF Rest

-----------------------------------------------------------------------------
LEMMA TypedStep == Typed /\ [Next]_vars => Typed'
<1> SUFFICES ASSUME Typed, [Next]_vars
             PROVE  Typed'
  OBVIOUS
<1>0. TypeOK /\ HasSocket
  BY DEF Typed
<1>1. ASSUME NEW p \in Peer, NEW r \in Room, NEW a \in Addr, Start(p, r, a)
      PROVE  Typed'
  <2>1. [port : Port, from : {a}, room : {r}, uuid : {p}, body : {"reg", "data"}]
           \subseteq Upward
    BY DEF Upward, Body
  <2>2. up' \subseteq Upward /\ down' \subseteq Downward
    BY <1>0, <1>1, <2>1, TransitLoses DEF Start, TypeOK
  <2>3. TypeOK'
    BY <1>0, <1>1, <2>2 DEF Start, TypeOK
  <2>4. HasSocket'
    BY <1>0, <1>1 DEF Start, TypeOK, HasSocket, Online
  <2> QED
    BY <2>3, <2>4 DEF Typed
<1>2. ASSUME NEW p \in Peer, Disconnect(p)
      PROVE  Typed'
  BY <1>0, <1>2 DEF Disconnect, Typed, TypeOK, HasSocket, Online
<1>3. ASSUME NEW p \in Peer, Online(p), NEW us \in SUBSET Upward, Transit(up \cup us, down),
             UNCHANGED <<driverVars, hub, task, starts, dups>>
      PROVE  Typed'
  <2>1. up' \subseteq Upward /\ down' \subseteq Downward
    BY <1>0, <1>3, TransitLoses DEF TypeOK
  <2> QED
    BY <1>0, <1>3, <2>1 DEF Typed, TypeOK, HasSocket, Online, driverVars
<1>4. ASSUME NEW p \in Peer, SendData(p) \/ Heartbeat(p) \/ Ping(p)
      PROVE  Typed'
  <2>1. Online(p)
    BY <1>4 DEF SendData, Heartbeat, Ping
  <2>2. \A b \in Body : ToActive(p, b) \subseteq Upward
    BY <1>0, <2>1, DatagramType DEF ToActive, TypeOK
  <2>3. "data" \in Body /\ "ping" \in Body
    BY DEF Body
  <2>4. CASE SendData(p)
    BY <1>3, <2>1, <2>2, <2>3, <2>4 DEF SendData
  <2>5. CASE Heartbeat(p)
    BY <1>3, <2>1, <2>5, BeatsType DEF Heartbeat
  <2>6. CASE Ping(p)
    BY <1>3, <2>1, <2>2, <2>3, <2>6 DEF Ping
  <2> QED
    BY <1>4, <2>4, <2>5, <2>6
<1>5. ASSUME NEW p \in Peer, NEW d \in down, Receive(p, d)
      PROVE  Typed'
  <2>1. d \in Downward /\ d.port \in Port /\ d.uuid \in Peer
    BY <1>0 DEF TypeOK, Downward
  <2>2. dups' \in Nat
    BY <1>0, <1>5 DEF Receive, Twice, TypeOK
  <2>3. up' \subseteq Upward /\ down' \subseteq Downward
    <3>1. Rest(d, down) \subseteq Downward
      BY <1>0, RestShrinks DEF TypeOK
    <3>2. Datagram(p, d.port, "pong") \in Upward
      BY <1>5, <2>1, DatagramType DEF Receive, Body
    <3>3. CASE Accepts(p, d)
      BY <1>0, <1>5, <3>1, <3>2, <3>3, TransitLoses DEF Receive, TypeOK
    <3>4. CASE ~Accepts(p, d)
      BY <1>0, <1>5, <3>1, <3>4 DEF Receive, TypeOK
    <3> QED
      BY <3>3, <3>4
  <2>4. /\ active' \in [Peer -> Port] /\ locked' \in [Peer -> BOOLEAN]
        /\ heard' \in [Peer -> SUBSET Peer]
    <3>1. CASE Accepts(p, d)
      <4> DEFINE new == IF d.body = "data" THEN {d.uuid} ELSE {}
      <4>1. new \subseteq Peer
        BY <2>1
      <4>2. Follow(p, d.port) /\ heard' = [heard EXCEPT ![p] = @ \cup new]
        BY <1>5, <3>1 DEF Receive
      <4>3. heard[p] \cup new \in SUBSET Peer
        BY <1>0, <4>1 DEF TypeOK
      <4> HIDE DEF new
      <4> QED
        BY <1>0, <2>1, <4>2, <4>3 DEF Follow, TypeOK
    <3>2. CASE ~Accepts(p, d)
      BY <1>0, <1>5, <3>2 DEF Receive, TypeOK
    <3> QED
      BY <3>1, <3>2
  <2>5. UNCHANGED <<room, addr, hub, task, starts>>
    BY <1>5 DEF Receive
  <2> QED
    BY <1>0, <2>2, <2>3, <2>4, <2>5 DEF Typed, TypeOK, HasSocket, Online
<1>6. ASSUME NEW d \in up, HubReceive(d)
      PROVE  Typed'
  <2>1. d \in Upward
    BY <1>0 DEF TypeOK
  <2>2. [addr |-> d.from, port |-> d.port] \in Client
    BY <2>1 DEF Upward, Client
  <2>3. hub' \in [Room -> [Peer -> Client \cup {None}]]
    BY <1>0, <1>6, <2>1, <2>2 DEF HubReceive, TypeOK, Upward
  <2>4. task' \in [Port -> Upward \cup {None}]
    BY <1>0, <1>6, <2>1 DEF HubReceive, TypeOK
  <2>5. up' \in SUBSET Upward /\ dups' \in Nat
    BY <1>0, <1>6, RestShrinks DEF HubReceive, Twice, TypeOK
  <2> QED
    BY <1>0, <1>6, <2>3, <2>4, <2>5
       DEF HubReceive, Typed, TypeOK, HasSocket, Online, driverVars
<1>7. ASSUME NEW c \in Port, HubForward(c)
      PROVE  Typed'
  <2>1. task[c] \in Upward
    BY <1>0, <1>7 DEF HubForward, TypeOK
  <2>2. up' \subseteq Upward /\ down' \subseteq Downward
    BY <1>0, <1>7, <2>1, CopiesType, TransitLoses DEF HubForward, TypeOK
  <2>3. task' \in [Port -> Upward \cup {None}]
    BY <1>0, <1>7 DEF HubForward, TypeOK
  <2> QED
    BY <1>0, <1>7, <2>2, <2>3 DEF HubForward, Typed, TypeOK, HasSocket, Online, driverVars
<1>8. CASE UNCHANGED vars
  BY <1>0, <1>8 DEF vars, Typed, TypeOK, HasSocket, Online
<1> QED
  BY <1>1, <1>2, <1>4, <1>5, <1>6, <1>7, <1>8 DEF Next

(* Every variable keeps its type (the driver and the hub as a whole).      *)
THEOREM TypeCorrect == Spec => []TypeOK
<1>1. Init => Typed
  BY DEF Init, Typed, TypeOK, HasSocket, Online
<1>2. Typed => TypeOK
  BY DEF Typed
<1> QED
  BY <1>1, <1>2, TypedStep, PTL DEF Spec

-----------------------------------------------------------------------------
(* A registration is replaced but never removed (prune_stale of the hub is *)
(* never called).                                                          *)
LEMMA RegistrationsStay ==
  ASSUME Typed, [Next]_vars
  PROVE  \A r \in Room, q \in Peer : hub[r][q] # None => hub'[r][q] # None
<1>0. TypeOK
  BY DEF Typed
<1>1. ASSUME NEW d \in up, HubReceive(d)
      PROVE  \A r \in Room, q \in Peer : hub[r][q] # None => hub'[r][q] # None
  <2>1. [addr |-> d.from, port |-> d.port] # None
    BY <1>0 DEF TypeOK, Upward
  <2>2. \A r \in Room, q \in Peer :
           hub'[r][q] = IF r = d.room /\ q = d.uuid THEN [addr |-> d.from, port |-> d.port]
                        ELSE hub[r][q]
    BY <1>0, <1>1 DEF HubReceive, TypeOK
  <2> QED
    BY <2>1, <2>2
<1>2. CASE hub' = hub
  BY <1>2
<1> QED
  BY <1>1, <1>2 DEF Next, vars, Start, Disconnect, SendData, Heartbeat, Ping, Receive,
                    HubForward

(* What one registration does to the hub.                                  *)
LEMMA RegisteredNow ==
  ASSUME TypeOK, NEW d \in up, HubReceive(d)
  PROVE  /\ hub'[d.room][d.uuid] = [addr |-> d.from, port |-> d.port]
         /\ hub'[d.room][d.uuid] # None
         /\ \A r \in Room, q \in Peer :
               hub'[r][q] = hub[r][q] \/ hub'[r][q].port = d.port
<1>1. d \in Upward
  BY DEF TypeOK
<1>2. d.room \in Room /\ d.uuid \in Peer /\ d.from \in Addr /\ d.port \in Port
  BY <1>1 DEF Upward
<1>3. hub' = [hub EXCEPT ![d.room][d.uuid] = [addr |-> d.from, port |-> d.port]]
  BY DEF HubReceive
<1>4. \A r \in Room, q \in Peer :
         hub'[r][q] = IF r = d.room /\ q = d.uuid THEN [addr |-> d.from, port |-> d.port]
                      ELSE hub[r][q]
  BY <1>2, <1>3 DEF TypeOK
<1> QED
  BY <1>2, <1>4

LEMMA FlightStep == Typed /\ Flight /\ [Next]_vars => Flight'
<1> SUFFICES ASSUME Typed, Flight, [Next]_vars
             PROVE  Flight'
  OBVIOUS
<1>0. TypeOK
  BY DEF Typed
<1>s. \A r \in Room, q \in Peer : hub[r][q] # None => hub'[r][q] # None
  BY RegistrationsStay
<1>f. Reachable /\ Tasked /\ Returned /\ Registered
  BY DEF Flight
<1>1. ASSUME NEW us, NEW ds, Transit(us, ds), ds \subseteq down, UNCHANGED <<hub, task>>
      PROVE  Flight'
  <2>1. (\A d \in up' : d.port \notin Blocked) /\ down' \subseteq down
    BY <1>1, TransitLoses
  <2> QED
    BY <1>1, <1>f, <2>1 DEF Flight, Reachable, Tasked, Returned, Registered
<1>2. ASSUME UNCHANGED <<up, hub, task>>, down' \subseteq down
      PROVE  Flight'
  BY <1>2, <1>f DEF Flight, Reachable, Tasked, Returned, Registered
<1>3. ASSUME NEW p \in Peer, NEW r \in Room, NEW a \in Addr, Start(p, r, a)
      PROVE  Flight'
  BY <1>1, <1>3 DEF Start
<1>4. ASSUME NEW p \in Peer, Disconnect(p) \/ SendData(p) \/ Heartbeat(p) \/ Ping(p)
      PROVE  Flight'
  <2>1. CASE Disconnect(p)
    BY <1>2, <2>1 DEF Disconnect
  <2>2. CASE SendData(p)
    BY <1>1, <2>2 DEF SendData
  <2>3. CASE Heartbeat(p)
    BY <1>1, <2>3 DEF Heartbeat
  <2>4. CASE Ping(p)
    BY <1>1, <2>4 DEF Ping
  <2> QED
    BY <1>4, <2>1, <2>2, <2>3, <2>4
<1>5. ASSUME NEW p \in Peer, NEW d \in down, Receive(p, d)
      PROVE  Flight'
  <2>1. UNCHANGED <<hub, task>> /\ Rest(d, down) \subseteq down
    BY <1>5, RestShrinks DEF Receive
  <2>2. CASE Accepts(p, d)
    BY <1>1, <1>5, <2>1, <2>2 DEF Receive
  <2>3. CASE ~Accepts(p, d)
    BY <1>2, <1>5, <2>1, <2>3 DEF Receive
  <2> QED
    BY <2>2, <2>3
<1>6. ASSUME NEW d \in up, HubReceive(d)
      PROVE  Flight'
  <2>1. d \in Upward /\ d.port \notin Blocked
    BY <1>0, <1>f DEF TypeOK, Reachable
  <2>2. up' \subseteq up /\ down' = down
    BY <1>6, RestShrinks DEF HubReceive
  <2>3. Reachable' /\ Returned'
    <3>1. \A e \in down : e.room \in Room /\ e.uuid \in Peer
      BY <1>0 DEF TypeOK, Downward
    <3> QED
      BY <1>f, <1>s, <2>2, <3>1 DEF Reachable, Returned
  <2>4. Tasked'
    <3> SUFFICES ASSUME NEW c \in Port, task'[c] # None
                 PROVE  /\ task'[c].port \notin Blocked
                        /\ hub'[task'[c].room][task'[c].uuid] # None
      BY DEF Tasked
    <3>1. CASE task'[c] = task[c]
      <4>1. task[c].room \in Room /\ task[c].uuid \in Peer
        BY <1>0, <3>1 DEF TypeOK, Upward
      <4> QED
        BY <1>f, <1>s, <3>1, <4>1 DEF Tasked
    <3>2. CASE task'[c] = d
      BY <1>0, <1>6, <2>1, <3>2, RegisteredNow
    <3>3. task'[c] = task[c] \/ task'[c] = d
      BY <1>0, <1>6 DEF HubReceive, TypeOK
    <3> QED
      BY <3>1, <3>2, <3>3
  <2>5. Registered'
    BY <1>0, <1>6, <1>f, <2>1, RegisteredNow DEF Registered
  <2> QED
    BY <2>3, <2>4, <2>5 DEF Flight
<1>7. ASSUME NEW c \in Port, HubForward(c)
      PROVE  Flight'
  <2> DEFINE t == task[c]
  <2>1. t # None /\ t \in Upward /\ hub' = hub
    BY <1>0, <1>7 DEF HubForward, TypeOK, driverVars
  <2>2. hub[t.room][t.uuid] # None /\ t.room \in Room
    BY <1>f, <2>1 DEF Tasked, Upward
  <2>3. up' \subseteq up /\ down' \subseteq down \cup Copies(t)
    BY <1>7, TransitLoses DEF HubForward
  <2>4. \A e \in Copies(t) : e.port \notin Blocked /\ e.room = t.room /\ e.uuid = t.uuid
    BY <1>f, <2>2 DEF Copies, Registered
  <2>5. Returned'
    BY <1>f, <2>1, <2>2, <2>3, <2>4 DEF Returned
  <2>6. Reachable' /\ Registered'
    BY <1>f, <2>1, <2>3 DEF Reachable, Registered
  <2>7. Tasked'
    BY <1>0, <1>7, <1>f DEF HubForward, Tasked, TypeOK
  <2> QED
    BY <2>5, <2>6, <2>7 DEF Flight
<1>8. CASE UNCHANGED vars
  BY <1>2, <1>8 DEF vars
<1> QED
  BY <1>3, <1>4, <1>5, <1>6, <1>7, <1>8 DEF Next

-----------------------------------------------------------------------------
(* Between sessions a client keeps nothing of the last one.                *)
Forgets == \A p \in Peer : ~Online(p) => heard[p] = {} /\ ~locked[p]

(* What a driver knows, it knows from datagrams it accepted.               *)
Heeding == HeardIsRegistered /\ NeverHearsItself /\ ActiveIsOpen /\ Forgets

(* The same of one client.                                                 *)
Heeds(x) ==
    /\ Online(x) => \A q \in heard[x] : hub[room[x]][q] # None
    /\ Online(x) => x \notin heard[x]
    /\ Online(x) /\ locked[x] => active[x] \notin Blocked
    /\ ~Online(x) => heard[x] = {} /\ ~locked[x]

LEMMA HeedingEach == Heeding <=> \A x \in Peer : Heeds(x)
  BY DEF Heeding, Heeds, HeardIsRegistered, NeverHearsItself, ActiveIsOpen, Forgets

LEMMA HeedingStep == Typed /\ Flight /\ Heeding /\ [Next]_vars => Heeding'
<1> SUFFICES ASSUME Typed, Flight, Heeding, [Next]_vars, NEW x \in Peer
             PROVE  Heeds(x)'
  BY DEF Heeding, Heeds, HeardIsRegistered, NeverHearsItself, ActiveIsOpen, Forgets
<1>0. TypeOK
  BY DEF Typed
<1>h. Heeds(x)
  BY HeedingEach
<1>s. \A r \in Room, q \in Peer : hub[r][q] # None => hub'[r][q] # None
  BY RegistrationsStay
<1>1. ASSUME room'[x] = room[x], active'[x] = active[x], locked'[x] = locked[x],
             heard'[x] = heard[x]
      PROVE  Heeds(x)'
  <2>1. Online(x) => room[x] \in Room
    BY <1>0 DEF TypeOK, Online
  <2>2. heard[x] \subseteq Peer
    BY <1>0 DEF TypeOK
  <2> QED
    BY <1>1, <1>h, <1>s, <2>1, <2>2 DEF Heeds, Online
<1>2. ASSUME NEW p \in Peer, NEW r \in Room, NEW a \in Addr, Start(p, r, a)
      PROVE  Heeds(x)'
  <2>1. CASE x = p
    BY <1>0, <1>2, <1>h, <2>1 DEF Start, TypeOK, Heeds, Online
  <2>2. CASE x # p
    BY <1>0, <1>1, <1>2, <2>2 DEF Start, TypeOK
  <2> QED
    BY <2>1, <2>2
<1>3. ASSUME NEW p \in Peer, Disconnect(p)
      PROVE  Heeds(x)'
  <2>1. CASE x = p
    BY <1>0, <1>3, <2>1 DEF Disconnect, TypeOK, Heeds, Online
  <2>2. CASE x # p
    BY <1>0, <1>1, <1>3, <2>2 DEF Disconnect, TypeOK
  <2> QED
    BY <2>1, <2>2
<1>4. ASSUME NEW p \in Peer, SendData(p) \/ Heartbeat(p) \/ Ping(p)
      PROVE  Heeds(x)'
  BY <1>1, <1>4 DEF SendData, Heartbeat, Ping, driverVars
<1>5. ASSUME NEW p \in Peer, NEW d \in down, Receive(p, d)
      PROVE  Heeds(x)'
  <2>1. CASE ~Accepts(p, d) \/ x # p
    <3>1. room' = room
      BY <1>5 DEF Receive
    <3>2. CASE ~Accepts(p, d)
      BY <1>1, <1>5, <3>1, <3>2 DEF Receive
    <3>3. CASE Accepts(p, d) /\ x # p
      <4>1. active'[x] = active[x] /\ locked'[x] = locked[x] /\ heard'[x] = heard[x]
        BY <1>0, <1>5, <3>3 DEF Receive, Follow, TypeOK
      <4> QED
        BY <1>1, <3>1, <4>1
    <3> QED
      BY <2>1, <3>2, <3>3
  <2>2. CASE Accepts(p, d) /\ x = p
    <3>1. Online(x) /\ room' = room /\ hub' = hub
      BY <1>5, <2>2 DEF Receive
    <3>2. active'[x] = d.port /\ locked'[x] = TRUE
      BY <1>0, <1>5, <2>2 DEF Receive, Follow, TypeOK
    <3>3. heard'[x] \subseteq heard[x] \cup {d.uuid}
      BY <1>0, <1>5, <2>2 DEF Receive, TypeOK
    <3>4. d.port \notin Blocked /\ hub[d.room][d.uuid] # None
      BY DEF Flight, Returned
    <3>5. d.room = room[x] /\ d.uuid # x
      BY <2>2 DEF Accepts
    <3> QED
      BY <1>h, <3>1, <3>2, <3>3, <3>4, <3>5 DEF Heeds, Online
  <2> QED
    BY <2>1, <2>2
<1>6. ASSUME NEW d \in up, HubReceive(d)
      PROVE  Heeds(x)'
  BY <1>1, <1>6 DEF HubReceive, driverVars
<1>7. ASSUME NEW c \in Port, HubForward(c)
      PROVE  Heeds(x)'
  BY <1>1, <1>7 DEF HubForward, driverVars
<1>8. CASE UNCHANGED vars
  BY <1>1, <1>8 DEF vars
<1> QED
  BY <1>2, <1>3, <1>4, <1>5, <1>6, <1>7, <1>8 DEF Next

-----------------------------------------------------------------------------
RelayInv == Typed /\ Flight /\ Heeding

LEMMA SpecInv == Spec => []RelayInv
<1>1. Init => RelayInv
  <2> SUFFICES ASSUME Init
               PROVE  RelayInv
    OBVIOUS
  <2>1. Typed
    BY DEF Init, Typed, TypeOK, HasSocket, Online
  <2>2. Flight
    BY DEF Init, Flight, Reachable, Tasked, Returned, Registered
  <2>3. Heeding
    BY DEF Init, Heeding, HeardIsRegistered, NeverHearsItself, ActiveIsOpen, Forgets, Online
  <2> QED
    BY <2>1, <2>2, <2>3 DEF RelayInv
<1>2. RelayInv /\ [Next]_vars => RelayInv'
  BY TypedStep, FlightStep, HeedingStep DEF RelayInv
<1> QED
  BY <1>1, <1>2, PTL DEF Spec

(* Nothing crosses rooms, whoever had a client's address before it         *)
(* (process_packet, lib.rs:1675-1689).                                     *)
THEOREM NoCrossing == Spec => []HeardIsRegistered
<1>1. RelayInv => HeardIsRegistered
  BY DEF RelayInv, Heeding
<1> QED
  BY <1>1, SpecInv, PTL

(* No client reports its own voice as somebody else's.                     *)
THEOREM NoEcho == Spec => []NeverHearsItself
<1>1. RelayInv => NeverHearsItself
  BY DEF RelayInv, Heeding
<1> QED
  BY <1>1, SpecInv, PTL

(* The address a driver locked on to lies behind no blocked port, for any  *)
(* firewall and any choice of primary (lib.rs:1697-1704).                  *)
THEOREM LocksOnOpenPort == Spec => []ActiveIsOpen
<1>1. RelayInv => ActiveIsOpen
  BY DEF RelayInv, Heeding
<1> QED
  BY <1>1, SpecInv, PTL
===============================================================================
