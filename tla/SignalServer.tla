---------------------------- MODULE SignalServer ----------------------------
(***************************************************************************)
(* The WebSocket signalling of 4-digit rooms: the server's room map and    *)
(* connection handlers (crates/verio-server/src/main.rs) together with the *)
(* client end of each socket (crates/verio-discovery/src/vps.rs).          *)
(*                                                                         *)
(* A client process owns one uuid for its life and opens a new socket for  *)
(* every room session.  On each socket it sends one Create or Join; when   *)
(* its room tells it to stop it sends Leave and closes.  The server runs   *)
(* one task per socket; the room map is behind one lock, and each message  *)
(* is handled in one critical section that also queues the replies.        *)
(***************************************************************************)
EXTENDS Naturals, FiniteSets, Sequences

CONSTANTS Client,   \* uuids
          Conn,     \* WebSocket connections
          Code,     \* room codes
          NoClient, NoConn, NoCode

ASSUME SignalAssumption ==
    NoClient \notin Client /\ NoConn \notin Conn /\ NoCode \notin Code

VARIABLES
    \* server: the room map
    open,     \* codes that are keys of the map
    rooms,    \* rooms[r][c]: the connection whose sender the entry of c holds
    \* server: one task per connection
    handler,
    curRoom, curPeer,   \* the task's locals
    \* the two directions of the socket
    inbox,    \* client -> server
    outbox,   \* server -> client (the mpsc channel, the send task, TCP)
    \* client
    owner,    \* the uuid of the process that opened the connection
    stage,    \* where the process is with this connection
    code,     \* its room_code, once the server answered
    view      \* room members this connection has reported to the room

serverVars == <<open, rooms, handler, curRoom, curPeer>>
clientVars == <<owner, stage, code, view>>
vars == <<open, rooms, handler, curRoom, curPeer, inbox, outbox,
          owner, stage, code, view>>

Stage == {"new",      \* not opened yet
          "asked",    \* Create or Join sent, reply awaited
          "cancelled",\* the user left before the reply was read
          "waiting",  \* a host blocked in exchange_identities
          "in",       \* in the room
          "leaving",  \* stop flag set, not yet noticed by the listener
          "deserted", \* the user left while the host was still blocked there
          "closed"}   \* socket closed by the client, or lost
Task  == {"none", "run", "ended"}
Blocked == {"asked", "cancelled"}
Reading == {"asked", "cancelled", "waiting", "in", "leaving", "deserted"}

Create      == [type |-> "create"]
Join(r)     == [type |-> "join", room |-> r]
Leave(r)    == [type |-> "leave", room |-> r]
Close       == [type |-> "close"]
ClientMessage == {Create, Close} \cup {Join(r) : r \in Code} \cup {Leave(r) : r \in Code}

Created(r)    == [type |-> "created", room |-> r]
Joined(r, S)  == [type |-> "joined", room |-> r, peers |-> S]
PeerJoined(c) == [type |-> "peer_joined", peer |-> c]
PeerLeft(c)   == [type |-> "peer_left", peer |-> c]
Error         == [type |-> "error"]
ServerMessage == {Error} \cup {Created(r) : r \in Code}
                 \cup {Joined(r, S) : r \in Code, S \in SUBSET Client}
                 \cup {PeerJoined(c) : c \in Client} \cup {PeerLeft(c) : c \in Client}

TypeOK ==
    /\ open \in SUBSET Code
    /\ rooms \in [Code -> [Client -> Conn \cup {NoConn}]]
    /\ handler \in [Conn -> Task]
    /\ curRoom \in [Conn -> Code \cup {NoCode}]
    /\ curPeer \in [Conn -> Client \cup {NoClient}]
    /\ inbox \in [Conn -> Seq(ClientMessage)]
    /\ outbox \in [Conn -> Seq(ServerMessage)]
    /\ owner \in [Conn -> Client \cup {NoClient}]
    /\ stage \in [Conn -> Stage]
    /\ code \in [Conn -> Code \cup {NoCode}]
    /\ view \in [Conn -> SUBSET Client]

Init ==
    /\ open = {}
    /\ rooms = [r \in Code |-> [c \in Client |-> NoConn]]
    /\ handler = [k \in Conn |-> "none"]
    /\ curRoom = [k \in Conn |-> NoCode]
    /\ curPeer = [k \in Conn |-> NoClient]
    /\ inbox = [k \in Conn |-> <<>>]
    /\ outbox = [k \in Conn |-> <<>>]
    /\ owner = [k \in Conn |-> NoClient]
    /\ stage = [k \in Conn |-> "new"]
    /\ code = [k \in Conn |-> NoCode]
    /\ view = [k \in Conn |-> {}]

Members(r) == {c \in Client : rooms[r][c] # NoConn}

-----------------------------------------------------------------------------
(* Client.                                                                 *)

(* VpsSignaling::create / join: connect, send the request.  is_busy()      *)
(* keeps a process from asking again while it is in a room, but neither    *)
(* while the listener of the room it left has yet to notice (or, if a      *)
(* later session took over the room's stop flag, never will), nor while a  *)
(* flow it cancelled is still blocked.                                     *)
Ask(k, c, request) ==
    /\ stage[k] = "new"
    /\ \A j \in Conn : owner[j] = c => stage[j] \in {"cancelled", "leaving", "deserted", "closed"}
    /\ stage' = [stage EXCEPT ![k] = "asked"]
    /\ owner' = [owner EXCEPT ![k] = c]
    /\ handler' = [handler EXCEPT ![k] = "run"]
    /\ inbox' = [inbox EXCEPT ![k] = <<request>>]
    /\ UNCHANGED <<open, rooms, curRoom, curPeer, outbox, code, view>>

AskCreate(k, c)  == Ask(k, c, Create)
AskJoin(k, c, r) == Ask(k, c, Join(r))

(* The client's next read.                                                 *)
Read(k, type) ==
    /\ outbox[k] # <<>> /\ Head(outbox[k]).type = type
    /\ outbox' = [outbox EXCEPT ![k] = Tail(@)]
    /\ UNCHANGED <<serverVars, owner>>

ReadCreated(k) ==
    /\ stage[k] \in Blocked /\ Read(k, "created")
    /\ stage' = [stage EXCEPT ![k] = IF @ = "asked" THEN "waiting" ELSE "deserted"]
    /\ code' = [code EXCEPT ![k] = Head(outbox[k]).room]
    /\ UNCHANGED <<inbox, view>>

(* The flow goes live without a look at the room it was cancelled in.      *)
ReadJoined(k) ==
    /\ stage[k] \in Blocked /\ Read(k, "joined")
    /\ stage' = [stage EXCEPT ![k] = "in"]
    /\ code' = [code EXCEPT ![k] = Head(outbox[k]).room]
    /\ view' = [view EXCEPT ![k] = Head(outbox[k]).peers]
    /\ UNCHANGED inbox

(* "room not found": the session, and with it the socket, is dropped.      *)
ReadError(k) ==
    /\ stage[k] \in Blocked /\ Read(k, "error")
    /\ stage' = [stage EXCEPT ![k] = "closed"]
    /\ inbox' = [inbox EXCEPT ![k] = Append(@, Close)]
    /\ UNCHANGED <<code, view>>

(* exchange_identities ends with the first PeerJoined, also in a flow the  *)
(* user cancelled; later ones are the listener's.                          *)
ReadPeerJoined(k) ==
    /\ stage[k] \in {"waiting", "deserted", "in", "leaving"}
    /\ Read(k, "peer_joined")
    /\ stage' = [stage EXCEPT ![k] = IF @ = "leaving" THEN @ ELSE "in"]
    /\ view' = [view EXCEPT ![k] = @ \cup {Head(outbox[k]).peer}]
    /\ UNCHANGED <<inbox, code>>

ReadPeerLeft(k) ==
    /\ stage[k] \in {"in", "leaving"} /\ Read(k, "peer_left")
    /\ view' = [view EXCEPT ![k] = @ \ {Head(outbox[k]).peer}]
    /\ UNCHANGED <<inbox, stage, code>>

(* teardown_session: the room is free for a new flow at once; the listener *)
(* has a stop flag to notice, a flow still blocked in a read has none.     *)
LeaveRoom(k) ==
    /\ stage[k] \in {"asked", "waiting", "in"}
    /\ stage' = [stage EXCEPT ![k] = CASE @ = "asked"   -> "cancelled"
                                       [] @ = "waiting" -> "deserted"
                                       [] @ = "in"      -> "leaving"]
    /\ UNCHANGED <<serverVars, inbox, outbox, owner, code, view>>

(* Faulty (the variants marked so only show that the properties can fail): *)
(* Leave names the client instead of the room.                             *)
LeaveByUuid(k) ==
    /\ stage[k] = "leaving"
    /\ stage' = [stage EXCEPT ![k] = "closed"]
    /\ inbox' = [inbox EXCEPT ![k] = @ \o <<Leave(owner[k]), Close>>]
    /\ outbox' = [outbox EXCEPT ![k] = <<>>]
    /\ UNCHANGED <<serverVars, owner, code, view>>

(* The listener sends Leave and closes: at most 200 ms later on a plain    *)
(* socket, over TLS not before its next read returns.                      *)
SendLeave(k) ==
    /\ stage[k] = "leaving"
    /\ stage' = [stage EXCEPT ![k] = "closed"]
    /\ inbox' = [inbox EXCEPT ![k] = @ \o <<Leave(code[k]), Close>>]
    /\ outbox' = [outbox EXCEPT ![k] = <<>>]
    /\ UNCHANGED <<serverVars, owner, code, view>>

(* The connection is lost: the server reads some prefix of what was sent   *)
(* and then the end of the stream.                                         *)
Lose(k) ==
    /\ stage[k] \in Reading
    /\ stage' = [stage EXCEPT ![k] = "closed"]
    /\ \E n \in 0..Len(inbox[k]) :
           inbox' = [inbox EXCEPT ![k] = Append(SubSeq(@, 1, n), Close)]
    /\ outbox' = [outbox EXCEPT ![k] = <<>>]
    /\ UNCHANGED <<serverVars, owner, code, view>>

-----------------------------------------------------------------------------
(* Server: handle_socket.  Each action is one turn of its loop.            *)

(* Queue m for the connections in S.  What is sent to a connection whose   *)
(* client no longer reads is dropped with the socket.                      *)
Post(out, S, m) ==
    [j \in Conn |-> IF j \in S /\ stage[j] \in Reading THEN Append(out[j], m) ELSE out[j]]

Conns(r, S) == {rooms[r][c] : c \in S} \ {NoConn}

Receive(k, type) ==
    /\ handler[k] = "run"
    /\ inbox[k] # <<>> /\ Head(inbox[k]).type = type
    /\ inbox' = [inbox EXCEPT ![k] = Tail(@)]
    /\ UNCHANGED clientVars

(* ClientMessage::Create: a fresh code, a room with one member.            *)
HandleCreate(k, r) ==
    /\ Receive(k, "create")
    /\ r \notin open
    /\ open' = open \cup {r}
    /\ rooms' = [rooms EXCEPT ![r] = [c \in Client |-> IF c = owner[k] THEN k ELSE NoConn]]
    /\ curRoom' = [curRoom EXCEPT ![k] = r]
    /\ curPeer' = [curPeer EXCEPT ![k] = owner[k]]
    /\ outbox' = Post(outbox, {k}, Created(r))
    /\ UNCHANGED handler

(* Faulty: the members so far are listed but not told.                     *)
JoinUntold(k) ==
    LET r == Head(inbox[k]).room
    IN  /\ Receive(k, "join")
        /\ r \in open
        /\ rooms' = [rooms EXCEPT ![r][owner[k]] = k]
        /\ curRoom' = [curRoom EXCEPT ![k] = r]
        /\ curPeer' = [curPeer EXCEPT ![k] = owner[k]]
        /\ outbox' = Post(outbox, {k}, Joined(r, Members(r)))
        /\ UNCHANGED <<open, handler>>

(* ClientMessage::Join: the members so far (an older session of the same   *)
(* uuid included) are told and listed; the entry of the uuid is replaced.  *)
HandleJoin(k) ==
    LET r == Head(inbox[k]).room
    IN  /\ Receive(k, "join")
        /\ r \in open
        /\ rooms' = [rooms EXCEPT ![r][owner[k]] = k]
        /\ curRoom' = [curRoom EXCEPT ![k] = r]
        /\ curPeer' = [curPeer EXCEPT ![k] = owner[k]]
        /\ outbox' = Post(Post(outbox, Conns(r, Client), PeerJoined(owner[k])),
                          {k}, Joined(r, Members(r)))
        /\ UNCHANGED <<open, handler>>

HandleJoinUnknown(k) ==
    /\ Receive(k, "join")
    /\ Head(inbox[k]).room \notin open
    /\ outbox' = Post(outbox, {k}, Error)
    /\ UNCHANGED serverVars

(* Faulty: the last member leaves an empty room behind.                    *)
KeepsEmptyRoom(r, c) ==
    IF r \in open
    THEN /\ rooms' = [rooms EXCEPT ![r][c] = NoConn]
         /\ outbox' = Post(outbox, Conns(r, Members(r) \ {c}), PeerLeft(c))
         /\ UNCHANGED open
    ELSE UNCHANGED <<rooms, open, outbox>>

(* remove_peer_from_room: by uuid, whichever session the entry is of.      *)
RemovePeerFromRoom(r, c) ==
    LET rest == Members(r) \ {c}
    IN  IF r \in open
        THEN /\ rooms' = [rooms EXCEPT ![r][c] = NoConn]
             /\ open' = IF rest = {} THEN open \ {r} ELSE open
             /\ outbox' = Post(outbox, Conns(r, rest), PeerLeft(c))
        ELSE UNCHANGED <<rooms, open, outbox>>

Forget(k) ==
    /\ curRoom' = [curRoom EXCEPT ![k] = NoCode]
    /\ curPeer' = [curPeer EXCEPT ![k] = NoClient]

(* ClientMessage::Leave names the room, the task knows the peer.           *)
HandleLeave(k) ==
    LET r == Head(inbox[k]).room
    IN  /\ Receive(k, "leave")
        /\ IF curPeer[k] # NoClient
           THEN RemovePeerFromRoom(r, curPeer[k])
           ELSE UNCHANGED <<rooms, open, outbox>>
        /\ Forget(k)
        /\ UNCHANGED handler

(* Faulty: a task that ends without cleaning up.                           *)
CloseUncleaned(k) ==
    /\ Receive(k, "close")
    /\ Forget(k)
    /\ handler' = [handler EXCEPT ![k] = "ended"]
    /\ UNCHANGED <<rooms, open, outbox>>

(* The end of the stream: clean up after a client that did not leave.      *)
HandleClose(k) ==
    /\ Receive(k, "close")
    /\ IF curRoom[k] # NoCode
       THEN RemovePeerFromRoom(curRoom[k], curPeer[k])
       ELSE UNCHANGED <<rooms, open, outbox>>
    /\ Forget(k)
    /\ handler' = [handler EXCEPT ![k] = "ended"]

-----------------------------------------------------------------------------
ClientNext(k) ==
    \/ \E c \in Client : \/ AskCreate(k, c)
                         \/ \E r \in Code : AskJoin(k, c, r)
    \/ ReadCreated(k) \/ ReadJoined(k) \/ ReadError(k)
    \/ ReadPeerJoined(k) \/ ReadPeerLeft(k)
    \/ LeaveRoom(k) \/ SendLeave(k) \/ Lose(k)

Handle(k) ==
    \/ \E r \in Code : HandleCreate(k, r)
    \/ HandleJoin(k) \/ HandleJoinUnknown(k)
    \/ HandleLeave(k) \/ HandleClose(k)

Next == \E k \in Conn : ClientNext(k) \/ Handle(k)

Spec == Init /\ [][Next]_vars

-----------------------------------------------------------------------------
(* Every entry of the room map belongs to a running task that knows it by  *)
(* exactly that room and uuid, so its cleanup will remove the entry: no    *)
(* ghost can outlive its connection, however sessions of one uuid overlap  *)
(* (handle_socket's locals against the shared map).                        *)
EntriesAreOwned ==
    \A r \in Code, c \in Client, k \in Conn :
        rooms[r][c] = k =>
            handler[k] = "run" /\ curRoom[k] = r /\ curPeer[k] = c

(* A code is taken exactly while its room has members: Create never hands  *)
(* out a code somebody is in, and a room closes with its last member.      *)
OpenHasMembers ==
    \A r \in Code : r \in open <=> \E c \in Client : rooms[r][c] # NoConn

(* A client that is registered and has read everything sent to it lists    *)
(* the members the server lists, itself aside: no interleaving of joins,   *)
(* leaves and lost connections makes a registered listener miss one.       *)
ViewsConverge ==
    \A r \in Code, c \in Client, k \in Conn :
        rooms[r][c] = k /\ stage[k] \in {"waiting", "in"} /\ outbox[k] = <<>>
            => view[k] \ {c} = Members(r) \ {c}

(* main.rs:6 a Join "connects peer to room": whoever joined is listed,     *)
(* through whichever of its sessions, until it leaves.                     *)
JoinedIsListed ==
    \A k \in Conn : stage[k] = "in" => rooms[code[k]][owner[k]] # NoConn
=============================================================================
