------------------------ MODULE SignalServer_proofs ------------------------
(***************************************************************************)
(* Theorems about SignalServer, for any sets of clients, connections and   *)
(* codes.  That every entry of the room map is owned by a running task     *)
(* rests on a protocol between the two ends of a socket that is written    *)
(* down nowhere in the code: a request reaches only a task without a room, *)
(* and Leave names the room the task is in.  That views converge rests on  *)
(* what is queued for a listener: the last word about a client is true.    *)
(***************************************************************************)
EXTENDS SignalServer, SequenceTheorems, TLAPS

Request == {Create} \cup {Join(r) : r \in Code}

(* What may be on its way from the client, for each stage of the client.   *)
NothingAsked(k) ==
    stage[k] = "new" => handler[k] = "none" /\ curRoom[k] = NoCode

RequestFirst(k) ==
    stage[k] \in Blocked =>
        \/ inbox[k] = <<>>
        \/ curRoom[k] = NoCode /\ \E m \in Request : inbox[k] = <<m>>

InRoom(k) ==
    stage[k] \in {"waiting", "in", "leaving", "deserted"} =>
        inbox[k] = <<>> /\ code[k] = curRoom[k] /\ code[k] \in Code

LastWords(k) ==
    stage[k] = "closed" =>
        \/ inbox[k] = <<>>
        \/ inbox[k] = <<Close>>
        \/ curRoom[k] = NoCode /\ \E m \in Request : inbox[k] = <<m, Close>>
        \/ \E r \in Code : inbox[k] = <<Leave(r), Close>> /\ curRoom[k] = r

(* An opened socket has an owner and, while the client reads, a task; a    *)
(* task that holds a room also knows the peer.                             *)
Opened(k) == stage[k] # "new" => owner[k] \in Client
Connected(k) == stage[k] \in Reading => handler[k] = "run"
Named(k) == curRoom[k] # NoCode => curPeer[k] \in Client

(* The answer a client still has to read names the room of its task.       *)
NoStale(k, out, r) ==
    /\ stage[k] = "new" => out[k] = <<>>
    /\ stage[k] \in Blocked =>
         \A n \in DOMAIN out[k] :
            out[k][n].type \in {"created", "joined"} => out[k][n].room = r
AnswerIsCurrent(k) == NoStale(k, outbox, curRoom[k])

Talk(k) == /\ NothingAsked(k) /\ RequestFirst(k) /\ InRoom(k) /\ LastWords(k)
           /\ Opened(k) /\ Connected(k) /\ Named(k)

Protocol == \A k \in Conn : Talk(k) /\ AnswerIsCurrent(k)

-----------------------------------------------------------------------------
(* Sequences of at most two messages, and messages.                        *)
LEMMA ShortSeqs ==
    ASSUME NEW a, NEW b
    PROVE  /\ <<a>> # <<>> /\ Head(<<a>>) = a /\ Tail(<<a>>) = <<>>
           /\ <<a, b>> # <<>> /\ Head(<<a, b>>) = a /\ Tail(<<a, b>>) = <<b>>
           /\ <<>> \o <<a, b>> = <<a, b>>
    OBVIOUS

(* A client that closes appends Close to at most one message.             *)
LEMMA AppendClose ==
    ASSUME NEW m
    PROVE  Append(<<>>, Close) = <<Close>> /\ Append(<<m>>, Close) = <<m, Close>>
<1>1. <<m>> \in Seq({m, Close}) /\ <<m, Close>> \in Seq({m, Close})
    OBVIOUS
<1>2. /\ Append(<<m>>, Close) \in Seq({m, Close})
      /\ Len(Append(<<m>>, Close)) = 2
      /\ Append(<<m>>, Close)[1] = m
      /\ Append(<<m>>, Close)[2] = Close
    BY <1>1, AppendProperties
<1>3. Len(<<m, Close>>) = 2 /\ <<m, Close>>[1] = m /\ <<m, Close>>[2] = Close
    OBVIOUS
<1>4. \A i \in 1..2 : i = 1 \/ i = 2
    OBVIOUS
<1>5. Append(<<m>>, Close) = <<m, Close>>
    BY <1>1, <1>2, <1>3, <1>4, SeqEqual
<1> QED
    BY <1>5

(* What is left when the connection breaks with at most one message on it. *)
LEMMA Cut ==
    ASSUME NEW m, NEW n \in 0..1
    PROVE  Append(SubSeq(<<m>>, 1, n), Close) \in {<<Close>>, <<m, Close>>}
<1>1. SubSeq(<<m>>, 1, 0) = <<>>
    BY SubSeqEmpty
<1>2. <<m>> \in Seq({m}) /\ Len(<<m>>) = 1
    OBVIOUS
<1>3. SubSeq(<<m>>, 1, 1) = <<m>>
    BY <1>2, SubSeqFull
<1>4. n = 0 \/ n = 1
    OBVIOUS
<1> QED
    BY <1>1, <1>3, <1>4, AppendClose

(* Tags and fields of the two kinds of wire messages.                      *)
LEMMA Types ==
    /\ Create.type = "create" /\ Close.type = "close" /\ Error.type = "error"
    /\ \A r : Join(r).type = "join" /\ Leave(r).type = "leave"
              /\ Join(r).room = r /\ Leave(r).room = r
    /\ \A r : Created(r).type = "created" /\ Created(r).room = r
    /\ \A r, S : /\ Joined(r, S).type = "joined" /\ Joined(r, S).room = r
                 /\ Joined(r, S).peers = S
    /\ \A c : /\ PeerJoined(c).type = "peer_joined" /\ PeerLeft(c).type = "peer_left"
              /\ PeerJoined(c).peer = c /\ PeerLeft(c).peer = c
    BY DEF Create, Join, Leave, Close, Created, Joined, PeerJoined, PeerLeft, Error

(* What a client may send (WireClientMessage) ...                          *)
LEMMA Messages ==
    /\ \A m \in Request : m \in ClientMessage /\ m.type \in {"create", "join"}
    /\ Create \in ClientMessage /\ Close \in ClientMessage
    /\ \A r \in Code : Join(r) \in ClientMessage /\ Leave(r) \in ClientMessage
    /\ \A m \in ClientMessage : m.type \in {"join", "leave"} => m.room \in Code
    BY Types DEF Request, ClientMessage

(* ... and what the server may (WireServerMessage).                        *)
LEMMA Answers ==
    /\ Error \in ServerMessage
    /\ \A r \in Code : Created(r) \in ServerMessage
    /\ \A r \in Code, S \in SUBSET Client : Joined(r, S) \in ServerMessage
    /\ \A c \in Client : PeerJoined(c) \in ServerMessage /\ PeerLeft(c) \in ServerMessage
    /\ \A m \in ServerMessage :
          /\ m.type \in {"created", "joined"} => m.room \in Code
          /\ m.type = "joined" => m.peers \in SUBSET Client
          /\ m.type \in {"peer_joined", "peer_left"} => m.peer \in Client
    BY Types DEF ServerMessage

(* What queueing m adds to a channel.                                      *)
LEMMA PostType ==
    ASSUME NEW out \in [Conn -> Seq(ServerMessage)], NEW S, NEW m \in ServerMessage
    PROVE  Post(out, S, m) \in [Conn -> Seq(ServerMessage)]
    BY DEF Post

(* It adds m at the end, and only for the connections in S.                *)
LEMMA PostAdds ==
    ASSUME NEW out \in [Conn -> Seq(ServerMessage)], NEW S, NEW m \in ServerMessage,
           NEW j \in Conn, NEW n \in DOMAIN Post(out, S, m)[j]
    PROVE  \/ n \in DOMAIN out[j] /\ Post(out, S, m)[j][n] = out[j][n]
           \/ j \in S /\ Post(out, S, m)[j][n] = m
    BY DEF Post

-----------------------------------------------------------------------------
(* Every step keeps the variables in their types.                          *)
LEMMA TypeNext == TypeOK /\ Protocol /\ [Next]_vars => TypeOK'
<1> SUFFICES ASSUME TypeOK, Protocol, [Next]_vars PROVE TypeOK'
    OBVIOUS
<1> USE SignalAssumption DEF TypeOK, Stage, Task, Reading, serverVars, clientVars
<1>0. ASSUME NEW k \in Conn, outbox[k] # <<>>
      PROVE  Head(outbox[k]) \in ServerMessage /\ Tail(outbox[k]) \in Seq(ServerMessage)
    BY <1>0
<1>1. ASSUME NEW k \in Conn, NEW c \in Client, AskCreate(k, c) PROVE TypeOK'
    BY <1>1, Messages DEF AskCreate, Ask
<1>2. ASSUME NEW k \in Conn, NEW c \in Client, NEW r \in Code, AskJoin(k, c, r) PROVE TypeOK'
    BY <1>2, Messages DEF AskJoin, Ask
<1>3. ASSUME NEW k \in Conn, ReadCreated(k) PROVE TypeOK'
    BY <1>0, <1>3, Answers DEF ReadCreated, Read
<1>4. ASSUME NEW k \in Conn, ReadJoined(k) PROVE TypeOK'
    BY <1>0, <1>4, Answers DEF ReadJoined, Read
<1>5. ASSUME NEW k \in Conn, ReadError(k) PROVE TypeOK'
    BY <1>0, <1>5, Messages DEF ReadError, Read
<1>6. ASSUME NEW k \in Conn, ReadPeerJoined(k) PROVE TypeOK'
    BY <1>0, <1>6, Answers DEF ReadPeerJoined, Read
<1>7. ASSUME NEW k \in Conn, ReadPeerLeft(k) PROVE TypeOK'
    BY <1>0, <1>7, Answers DEF ReadPeerLeft, Read
<1>8. ASSUME NEW k \in Conn, LeaveRoom(k) PROVE TypeOK'
    BY <1>8 DEF LeaveRoom
<1>9. ASSUME NEW k \in Conn, SendLeave(k) PROVE TypeOK'
  <2>1. code[k] \in Code
    BY <1>9 DEF SendLeave, Protocol, Talk, InRoom
  <2>2. inbox[k] \o <<Leave(code[k]), Close>> \in Seq(ClientMessage)
    BY <2>1, Messages
  <2> QED
    BY <1>9, <2>2 DEF SendLeave
<1>10. ASSUME NEW k \in Conn, Lose(k) PROVE TypeOK'
  <2>1. ASSUME NEW n \in 0..Len(inbox[k])
        PROVE  Append(SubSeq(inbox[k], 1, n), Close) \in Seq(ClientMessage)
    <3>1. \A i \in 1..n : inbox[k][i] \in ClientMessage
      OBVIOUS
    <3>2. SubSeq(inbox[k], 1, n) \in Seq(ClientMessage)
      BY <3>1, SubSeqProperties
    <3> QED
      BY <3>2, Messages
  <2> QED
    BY <1>10, <2>1 DEF Lose
<1>17. ASSUME NEW k \in Conn, NEW type, Receive(k, type)
      PROVE  /\ Head(inbox[k]) \in ClientMessage /\ Head(inbox[k]).type = type
             /\ inbox' \in [Conn -> Seq(ClientMessage)]
             /\ owner[k] \in Client
  <2>1. inbox[k] # <<>> /\ inbox[k] \in Seq(ClientMessage) /\ handler[k] = "run"
    BY <1>17 DEF Receive
  <2>2. Head(inbox[k]) \in ClientMessage /\ Tail(inbox[k]) \in Seq(ClientMessage)
    BY <2>1
  <2>3. owner[k] \in Client
    BY <2>1 DEF Protocol, Talk, Opened, NothingAsked
  <2> QED
    BY <1>17, <2>2, <2>3 DEF Receive
<1>18. ASSUME NEW r \in Code, NEW c \in Client, RemovePeerFromRoom(r, c)
      PROVE  /\ open' \in SUBSET Code
             /\ rooms' \in [Code -> [Client -> Conn \cup {NoConn}]]
             /\ outbox' \in [Conn -> Seq(ServerMessage)]
  <2>1. PeerLeft(c) \in ServerMessage
    BY Answers
  <2>2. Post(outbox, Conns(r, Members(r) \ {c}), PeerLeft(c)) \in [Conn -> Seq(ServerMessage)]
    BY <2>1, PostType
  <2>3. CASE r \in open
    <3>1. rooms' = [rooms EXCEPT ![r][c] = NoConn] /\ (open' = open \ {r} \/ open' = open)
      BY <1>18, <2>3 DEF RemovePeerFromRoom
    <3>2. outbox' = Post(outbox, Conns(r, Members(r) \ {c}), PeerLeft(c))
      BY <1>18, <2>3 DEF RemovePeerFromRoom
    <3> QED
      BY <2>2, <3>1, <3>2
  <2>4. CASE r \notin open
    BY <1>18, <2>4 DEF RemovePeerFromRoom
  <2> QED
    BY <2>3, <2>4
<1>11. ASSUME NEW k \in Conn, NEW r \in Code, HandleCreate(k, r) PROVE TypeOK'
  <2>1. Receive(k, "create")
    BY <1>11 DEF HandleCreate
  <2>2. outbox' \in [Conn -> Seq(ServerMessage)]
    BY <1>11, Answers, PostType DEF HandleCreate
  <2> QED
    BY <1>11, <1>17, <2>1, <2>2 DEF HandleCreate, Receive
<1>12. ASSUME NEW k \in Conn, HandleJoin(k) PROVE TypeOK'
  <2> DEFINE r == Head(inbox[k]).room
  <2>1. Receive(k, "join")
    BY <1>12 DEF HandleJoin
  <2>2. r \in Code /\ owner[k] \in Client
    BY <2>1, <1>17, Messages
  <2>3. Members(r) \in SUBSET Client
    BY DEF Members
  <2>4. Post(outbox, Conns(r, Client), PeerJoined(owner[k])) \in [Conn -> Seq(ServerMessage)]
    BY <2>2, Answers, PostType
  <2>5. outbox' \in [Conn -> Seq(ServerMessage)]
    BY <1>12, <2>2, <2>3, <2>4, Answers, PostType DEF HandleJoin
  <2> QED
    BY <1>12, <1>17, <2>1, <2>2, <2>5 DEF HandleJoin, Receive
<1>13. ASSUME NEW k \in Conn, HandleJoinUnknown(k) PROVE TypeOK'
  <2>1. Receive(k, "join")
    BY <1>13 DEF HandleJoinUnknown
  <2>2. outbox' \in [Conn -> Seq(ServerMessage)]
    BY <1>13, Answers, PostType DEF HandleJoinUnknown
  <2> QED
    BY <1>13, <1>17, <2>1, <2>2 DEF HandleJoinUnknown, Receive
<1>14. ASSUME NEW k \in Conn, HandleLeave(k) PROVE TypeOK'
  <2>1. Receive(k, "leave")
    BY <1>14 DEF HandleLeave
  <2>2. Head(inbox[k]).room \in Code
    BY <2>1, <1>17, Messages
  <2>3. curPeer[k] # NoClient => curPeer[k] \in Client
    OBVIOUS
  <2>4. /\ open' \in SUBSET Code
        /\ rooms' \in [Code -> [Client -> Conn \cup {NoConn}]]
        /\ outbox' \in [Conn -> Seq(ServerMessage)]
    BY <1>14, <1>18, <2>2, <2>3 DEF HandleLeave
  <2> QED
    BY <1>14, <1>17, <2>1, <2>4 DEF HandleLeave, Receive, Forget
<1>15. ASSUME NEW k \in Conn, HandleClose(k) PROVE TypeOK'
  <2>1. Receive(k, "close")
    BY <1>15 DEF HandleClose
  <2>2. curRoom[k] # NoCode => curRoom[k] \in Code /\ curPeer[k] \in Client
    BY DEF Protocol, Talk, Named
  <2>3. /\ open' \in SUBSET Code
        /\ rooms' \in [Code -> [Client -> Conn \cup {NoConn}]]
        /\ outbox' \in [Conn -> Seq(ServerMessage)]
    BY <1>15, <1>18, <2>2 DEF HandleClose
  <2> QED
    BY <1>15, <1>17, <2>1, <2>3 DEF HandleClose, Receive, Forget
<1>16. CASE UNCHANGED vars
    BY <1>16 DEF vars
<1> QED
    BY <1>1, <1>2, <1>3, <1>4, <1>5, <1>6, <1>7, <1>8, <1>9, <1>10, <1>11, <1>12, <1>13,
       <1>14, <1>15, <1>16 DEF Next, ClientNext, Handle

(* A request reaches only a task without a room ...                        *)
LEMMA ReceivedRequest ==
    ASSUME TypeOK, NEW j \in Conn, Talk(j), NEW type \in {"create", "join"}, Receive(j, type)
    PROVE  /\ curRoom[j] = NoCode /\ stage[j] \in {"asked", "cancelled", "closed"}
           /\ inbox'[j] = IF stage[j] \in Blocked THEN <<>> ELSE <<Close>>
           /\ owner[j] \in Client
<1> USE DEF TypeOK
<1>1. /\ handler[j] = "run" /\ inbox[j] # <<>> /\ Head(inbox[j]).type = type
      /\ inbox'[j] = Tail(inbox[j])
    BY DEF Receive
<1>2. stage[j] \in {"asked", "cancelled", "closed"}
    BY <1>1 DEF Talk, NothingAsked, InRoom, Stage
<1>3. CASE stage[j] \in Blocked
    BY <1>1, <1>3, ShortSeqs DEF Talk, RequestFirst, Blocked, Opened
<1>4. CASE stage[j] = "closed"
  <2>1. inbox[j] # <<Close>> /\ \A r \in Code : inbox[j] # <<Leave(r), Close>>
    BY <1>1, ShortSeqs, Types
  <2> QED
    BY <1>1, <1>4, <2>1, ShortSeqs DEF Blocked, Talk, LastWords, Opened
<1> QED
    BY <1>2, <1>3, <1>4 DEF Blocked

(* ... and Leave names the room of its task; both it and the end of the    *)
(* stream come after the client has closed.                                *)
LEMMA ReceivedLast ==
    ASSUME TypeOK, NEW j \in Conn, Talk(j), NEW type \in {"leave", "close"}, Receive(j, type)
    PROVE  /\ stage[j] = "closed"
           /\ inbox'[j] \in {<<>>, <<Close>>}
           /\ type = "leave" => Head(inbox[j]).room = curRoom[j] /\ curRoom[j] \in Code
<1> USE DEF TypeOK
<1>1. /\ handler[j] = "run" /\ inbox[j] # <<>> /\ Head(inbox[j]).type = type
      /\ inbox'[j] = Tail(inbox[j])
    BY DEF Receive
<1>2. stage[j] = "closed"
    BY <1>1, ShortSeqs, Messages DEF Talk, NothingAsked, RequestFirst, Blocked, InRoom, Stage
<1>3. inbox'[j] \in {<<>>, <<Close>>}
    BY <1>1, <1>2, ShortSeqs DEF Talk, LastWords
<1>4. ASSUME type = "leave" PROVE Head(inbox[j]).room = curRoom[j] /\ curRoom[j] \in Code
  <2>1. inbox[j] # <<Close>>
    BY <1>1, <1>4, ShortSeqs, Types
  <2>2. ASSUME NEW m \in Request PROVE inbox[j] # <<m, Close>>
    <3>1. Head(<<m, Close>>) = m /\ m.type # "leave"
      BY ShortSeqs, Messages
    <3> QED
      BY <1>1, <1>4, <3>1
  <2> QED
    BY <1>1, <1>2, <2>1, <2>2, ShortSeqs, Types DEF Talk, LastWords
<1> QED
    BY <1>2, <1>3, <1>4

(* The two ends of socket j keep to the protocol.  Steps about another     *)
(* connection do not touch what Talk(j) is about.                          *)
LEMMA TalkNext ==
    ASSUME TypeOK, Protocol, [Next]_vars, NEW j \in Conn
    PROVE  Talk(j)'
<1> DEFINE Mine == <<stage[j], handler[j], curRoom[j], curPeer[j], inbox[j], code[j], owner[j]>>
<1> USE DEF TypeOK
<1>0. Talk(j)
    BY DEF Protocol
<1>m. CASE UNCHANGED Mine
    BY <1>0, <1>m
       DEF Talk, NothingAsked, RequestFirst, Blocked, InRoom, LastWords, Opened, Connected, Named
<1> USE DEF serverVars, clientVars
<1>1. ASSUME NEW c \in Client, AskCreate(j, c) PROVE Talk(j)'
    BY <1>0, <1>1, SignalAssumption
       DEF AskCreate, Ask, Request, Talk, NothingAsked, RequestFirst, Blocked, InRoom, LastWords,
           Opened, Connected, Named, Reading
<1>2. ASSUME NEW c \in Client, NEW r \in Code, AskJoin(j, c, r) PROVE Talk(j)'
    BY <1>0, <1>2, SignalAssumption
       DEF AskJoin, Ask, Request, Talk, NothingAsked, RequestFirst, Blocked, InRoom, LastWords,
           Opened, Connected, Named, Reading
<1>3. ASSUME ReadCreated(j) \/ ReadJoined(j) PROVE Talk(j)'
  <2>1. /\ stage[j] \in Blocked /\ stage'[j] \in {"waiting", "deserted", "in"}
        /\ Head(outbox[j]).type \in {"created", "joined"} /\ outbox[j] # <<>>
        /\ code'[j] = Head(outbox[j]).room
        /\ UNCHANGED <<handler, curRoom, curPeer, inbox, owner>>
    BY <1>3 DEF ReadCreated, ReadJoined, Read
  <2>2. Head(outbox[j]) \in ServerMessage /\ Head(outbox[j]) = outbox[j][1] /\ 1 \in DOMAIN outbox[j]
    BY <2>1
  <2>3. Head(outbox[j]).room = curRoom[j]
    BY <2>1, <2>2 DEF Protocol, AnswerIsCurrent, NoStale
  <2>4. curRoom[j] \in Code
    BY <2>1, <2>2, <2>3, Answers
  <2>5. inbox[j] = <<>>
    BY <1>0, <2>1, <2>4, SignalAssumption DEF Talk, RequestFirst
  <2> QED
    BY <1>0, <2>1, <2>3, <2>4, <2>5
       DEF Talk, NothingAsked, RequestFirst, Blocked, InRoom, LastWords, Opened, Connected, Named,
           Reading
<1>4. ASSUME ReadError(j) PROVE Talk(j)'
  <2>1. /\ stage[j] \in Blocked /\ stage'[j] = "closed"
        /\ inbox'[j] = Append(inbox[j], Close)
        /\ UNCHANGED <<handler, curRoom, curPeer, code, owner>>
    BY <1>4 DEF ReadError, Read
  <2> QED
    BY <1>0, <2>1, AppendClose
       DEF Talk, NothingAsked, RequestFirst, Blocked, InRoom, LastWords, Opened, Connected, Named,
           Reading
<1>5. ASSUME ReadPeerJoined(j) \/ ReadPeerLeft(j) \/ LeaveRoom(j) PROVE Talk(j)'
    BY <1>0, <1>5
       DEF ReadPeerJoined, ReadPeerLeft, LeaveRoom, Read, Talk, NothingAsked, RequestFirst, Blocked,
           InRoom, LastWords, Opened, Connected, Named, Reading
<1>6. ASSUME SendLeave(j) PROVE Talk(j)'
  <2>1. /\ stage[j] = "leaving" /\ stage'[j] = "closed"
        /\ inbox'[j] = inbox[j] \o <<Leave(code[j]), Close>>
        /\ UNCHANGED <<handler, curRoom, curPeer, code, owner>>
    BY <1>6 DEF SendLeave
  <2>2. inbox[j] = <<>> /\ code[j] = curRoom[j] /\ code[j] \in Code
    BY <1>0, <2>1 DEF Talk, InRoom
  <2>3. inbox'[j] = <<Leave(code[j]), Close>>
    BY <2>1, <2>2, ShortSeqs
  <2> QED
    BY <1>0, <2>1, <2>2, <2>3
       DEF Talk, NothingAsked, RequestFirst, Blocked, InRoom, LastWords, Opened, Connected, Named,
           Reading
<1>7. ASSUME Lose(j) PROVE Talk(j)'
  <2>1. PICK n \in 0..Len(inbox[j]) : inbox'[j] = Append(SubSeq(inbox[j], 1, n), Close)
    BY <1>7 DEF Lose
  <2>2. /\ stage[j] \in Reading /\ stage'[j] = "closed"
        /\ UNCHANGED <<handler, curRoom, curPeer, code, owner>>
    BY <1>7 DEF Lose
  <2>3. CASE inbox[j] = <<>>
    <3>1. n = 0 /\ SubSeq(inbox[j], 1, 0) = <<>> /\ Append(<<>>, Close) = <<Close>>
      BY <2>3, SubSeqEmpty
    <3>2. inbox'[j] = <<Close>>
      BY <2>1, <3>1
    <3> QED
      BY <1>0, <2>2, <3>2
         DEF Talk, NothingAsked, RequestFirst, Blocked, InRoom, LastWords, Opened, Connected, Named,
             Reading
  <2>4. CASE inbox[j] # <<>>
    <3>1. curRoom[j] = NoCode /\ \E m \in Request : inbox[j] = <<m>>
      BY <1>0, <2>2, <2>4 DEF Talk, RequestFirst, Blocked, InRoom, Reading
    <3>2. PICK m \in Request : inbox[j] = <<m>>
      BY <3>1
    <3>3. n \in 0..1
      BY <3>2
    <3>4. inbox'[j] \in {<<Close>>, <<m, Close>>}
      BY <2>1, <3>2, <3>3, Cut
    <3> QED
      BY <1>0, <2>2, <3>1, <3>4
         DEF Talk, NothingAsked, RequestFirst, Blocked, InRoom, LastWords, Opened, Connected, Named,
             Reading
  <2> QED
    BY <2>3, <2>4
<1>8. ASSUME NEW r \in Code, HandleCreate(j, r) PROVE Talk(j)'
  <2>1. Receive(j, "create")
    BY <1>8 DEF HandleCreate
  <2> QED
    BY <1>0, <1>8, <2>1, ReceivedRequest
       DEF HandleCreate, Receive, Talk, NothingAsked, RequestFirst, Blocked, InRoom, LastWords,
           Opened, Connected, Named, Reading
<1>9. ASSUME HandleJoin(j) \/ HandleJoinUnknown(j) PROVE Talk(j)'
  <2>1. Receive(j, "join")
    BY <1>9 DEF HandleJoin, HandleJoinUnknown
  <2> QED
    BY <1>0, <1>9, <2>1, ReceivedRequest
       DEF HandleJoin, HandleJoinUnknown, Receive, Talk, NothingAsked, RequestFirst, Blocked,
           InRoom, LastWords, Opened, Connected, Named, Reading
<1>10. ASSUME HandleLeave(j) \/ HandleClose(j) PROVE Talk(j)'
  <2>1. PICK type \in {"leave", "close"} : Receive(j, type)
    BY <1>10 DEF HandleLeave, HandleClose
  <2>2. UNCHANGED <<stage, owner, code>> /\ curRoom'[j] = NoCode
    BY <1>10 DEF HandleLeave, HandleClose, Receive, Forget
  <2> QED
    BY <1>0, <2>1, <2>2, ReceivedLast
       DEF Talk, NothingAsked, RequestFirst, Blocked, InRoom, LastWords, Opened, Connected, Named,
           Reading
<1>11. ASSUME NEW k \in Conn, k # j, ClientNext(k) \/ Handle(k) PROVE UNCHANGED Mine
    BY <1>11
       DEF ClientNext, Handle, AskCreate, AskJoin, Ask, ReadCreated, ReadJoined, ReadError,
           ReadPeerJoined, ReadPeerLeft, Read,
      LeaveRoom, SendLeave, Lose, HandleCreate, HandleJoin, HandleJoinUnknown, HandleLeave, HandleClose, Receive, Forget
<1>12. UNCHANGED vars => UNCHANGED Mine
    BY DEF vars
<1> QED
    BY <1>m, <1>1, <1>2, <1>3, <1>4, <1>5, <1>6, <1>7, <1>8, <1>9, <1>11, <1>12, <1>10
       DEF Next, ClientNext, Handle

(* Queueing m leaves no stale answer unless m is one.                      *)
LEMMA PostFresh ==
    ASSUME NEW out \in [Conn -> Seq(ServerMessage)], NEW S, NEW m \in ServerMessage,
           NEW j \in Conn, NEW r, NoStale(j, out, r),
           j \in S /\ m.type \in {"created", "joined"} => m.room = r
    PROVE  NoStale(j, Post(out, S, m), r)
<1>1. stage[j] = "new" => Post(out, S, m)[j] = out[j]
    BY DEF Post, Reading
<1> QED
    BY <1>1, PostAdds DEF NoStale

(* No step makes an answer stale that its client still has to read.        *)
LEMMA AnswerNext ==
    ASSUME TypeOK, Protocol, [Next]_vars, NEW j \in Conn
    PROVE  AnswerIsCurrent(j)'
<1> USE DEF TypeOK
<1>0. Talk(j) /\ NoStale(j, outbox, curRoom[j])
    BY DEF Protocol, AnswerIsCurrent
<1>1. CASE UNCHANGED <<stage[j], outbox[j], curRoom[j]>>
    BY <1>0, <1>1 DEF AnswerIsCurrent, NoStale
<1>2. ASSUME stage'[j] \notin {"new", "asked", "cancelled"} PROVE AnswerIsCurrent(j)'
    BY <1>2 DEF AnswerIsCurrent, NoStale, Blocked
<1>3. ASSUME NEW c \in Client, AskCreate(j, c) \/ \E r \in Code : AskJoin(j, c, r)
      PROVE  AnswerIsCurrent(j)'
    BY <1>0, <1>3 DEF AskCreate, AskJoin, Ask, AnswerIsCurrent, NoStale
<1>4. ASSUME UNCHANGED stage, NoStale(j, outbox', curRoom'[j]) PROVE AnswerIsCurrent(j)'
    BY <1>4 DEF AnswerIsCurrent, NoStale
<1>5. ASSUME curRoom[j] = NoCode PROVE \A r : NoStale(j, outbox, r)
  <2>1. \A n \in DOMAIN outbox[j] : outbox[j][n] \in ServerMessage
    OBVIOUS
  <2> QED
    BY <1>0, <1>5, <2>1, Answers, SignalAssumption DEF NoStale
<1>6. ASSUME NEW k \in Conn, NEW r \in Code, HandleCreate(k, r) PROVE AnswerIsCurrent(j)'
  <2>1. Receive(k, "create") /\ outbox' = Post(outbox, {k}, Created(r)) /\ UNCHANGED stage
        /\ curRoom' = [curRoom EXCEPT ![k] = r]
    BY <1>6 DEF HandleCreate, Receive, clientVars
  <2>2. Created(r) \in ServerMessage /\ Created(r).room = r
    BY Answers, Types
  <2>3. CASE k = j
    <3>1. curRoom[j] = NoCode /\ curRoom'[j] = r
      BY <1>0, <2>1, <2>3, ReceivedRequest
    <3> QED
      BY <1>4, <1>5, <2>1, <2>2, <3>1, PostFresh
  <2>4. CASE k # j
    BY <1>0, <1>4, <2>1, <2>2, <2>4, PostFresh
  <2> QED
    BY <2>3, <2>4
<1>7. ASSUME NEW k \in Conn, HandleJoin(k) PROVE AnswerIsCurrent(j)'
  <2> DEFINE r == Head(inbox[k]).room
             told == Post(outbox, Conns(r, Client), PeerJoined(owner[k]))
  <2>1. Receive(k, "join") /\ outbox' = Post(told, {k}, Joined(r, Members(r))) /\ UNCHANGED stage
        /\ curRoom' = [curRoom EXCEPT ![k] = r] /\ r \in open
    BY <1>7 DEF HandleJoin, Receive, clientVars
  <2>2. curRoom[k] = NoCode /\ owner[k] \in Client
    BY <2>1, ReceivedRequest DEF Protocol
  <2>3. /\ PeerJoined(owner[k]) \in ServerMessage
        /\ PeerJoined(owner[k]).type \notin {"created", "joined"}
        /\ Joined(r, Members(r)) \in ServerMessage /\ Joined(r, Members(r)).room = r
    BY <2>1, <2>2, Answers, Types DEF Members
  <2>4. told \in [Conn -> Seq(ServerMessage)]
    BY <2>3, PostType
  <2>5. NoStale(j, outbox, curRoom'[j]) /\ (k = j => curRoom'[j] = r)
    BY <1>0, <1>5, <2>1, <2>2
  <2>6. NoStale(j, told, curRoom'[j])
    BY <2>3, <2>5, PostFresh
  <2>7. NoStale(j, outbox', curRoom'[j])
    BY <2>1, <2>3, <2>4, <2>5, <2>6, PostFresh
  <2> QED
    BY <1>4, <2>1, <2>7
<1>8. ASSUME NEW k \in Conn, HandleJoinUnknown(k) PROVE AnswerIsCurrent(j)'
  <2>1. outbox' = Post(outbox, {k}, Error) /\ UNCHANGED <<stage, curRoom>>
    BY <1>8 DEF HandleJoinUnknown, Receive, clientVars, serverVars
  <2>2. Error \in ServerMessage /\ Error.type \notin {"created", "joined"}
    BY Answers, Types
  <2> QED
    BY <1>0, <1>4, <2>1, <2>2, PostFresh
<1>9. ASSUME NEW k \in Conn, HandleLeave(k) \/ HandleClose(k) PROVE AnswerIsCurrent(j)'
  <2>1. /\ UNCHANGED stage
        /\ curRoom' = [curRoom EXCEPT ![k] = NoCode]
        /\ \E type \in {"leave", "close"} : Receive(k, type)
        /\ \/ UNCHANGED outbox
           \/ \E c \in Client : \E S : outbox' = Post(outbox, S, PeerLeft(c))
    BY <1>9 DEF HandleLeave, HandleClose, Receive, Forget, clientVars, RemovePeerFromRoom,
                Protocol, Talk, Named
  <2>2. CASE k = j
    <3>1. stage'[j] = "closed"
      BY <2>1, <2>2, <1>0, ReceivedLast
    <3> QED
      BY <1>2, <3>1
  <2>3. CASE k # j
    <3>1. \A c \in Client : PeerLeft(c) \in ServerMessage
                           /\ PeerLeft(c).type \notin {"created", "joined"}
      BY Answers, Types
    <3>2. CASE UNCHANGED outbox
      BY <1>0, <1>4, <2>1, <2>3, <3>2 DEF NoStale
    <3>3. ASSUME NEW c \in Client, NEW S, outbox' = Post(outbox, S, PeerLeft(c))
          PROVE  NoStale(j, outbox', curRoom[j])
      BY <1>0, <3>1, <3>3, PostFresh
    <3> QED
      BY <1>4, <2>1, <2>3, <3>2, <3>3
  <2> QED
    BY <2>2, <2>3
<1>10. ASSUME NEW k \in Conn, ClientNext(k)
       PROVE  \/ UNCHANGED <<stage[j], outbox[j], curRoom[j]>>
              \/ stage'[j] \notin {"new", "asked", "cancelled"}
              \/ LeaveRoom(j)
              \/ \E c \in Client : AskCreate(j, c) \/ \E r \in Code : AskJoin(j, c, r)
  <2> USE DEF Read, serverVars
  <2>1. CASE k # j
    BY <1>10, <2>1 DEF ClientNext, AskCreate, AskJoin, Ask, ReadCreated, ReadJoined, ReadError,
         ReadPeerJoined, ReadPeerLeft, LeaveRoom, SendLeave, Lose
  <2>2. CASE k = j
    <3>1. CASE \E c \in Client : AskCreate(j, c) \/ \E r \in Code : AskJoin(j, c, r)
      BY <3>1
    <3>2. CASE ReadCreated(j) \/ ReadJoined(j) \/ ReadError(j) \/ ReadPeerJoined(j)
      BY <3>2 DEF ReadCreated, ReadJoined, ReadError, ReadPeerJoined
    <3>3. CASE ReadPeerLeft(j) \/ SendLeave(j) \/ Lose(j)
      BY <3>3 DEF ReadPeerLeft, SendLeave, Lose
    <3> QED
      BY <1>10, <2>2, <3>1, <3>2, <3>3 DEF ClientNext
  <2> QED
    BY <2>1, <2>2
<1>11. UNCHANGED vars => UNCHANGED <<stage[j], outbox[j], curRoom[j]>>
    BY DEF vars
<1>12. ASSUME LeaveRoom(j) PROVE AnswerIsCurrent(j)'
    BY <1>0, <1>12 DEF LeaveRoom, serverVars, AnswerIsCurrent, NoStale, Blocked
<1> QED
    BY <1>1, <1>2, <1>3, <1>6, <1>7, <1>8, <1>9, <1>10, <1>11, <1>12 DEF Next, Handle

(* Types and protocol hold in every reachable state.                       *)
LEMMA TypedProtocol == Spec => [](TypeOK /\ Protocol)
<1>1. Init => TypeOK /\ Protocol
    BY SignalAssumption
       DEF Init, TypeOK, Stage, Task, Reading, Protocol, Talk, NothingAsked, RequestFirst, Blocked, InRoom,
           LastWords, Opened, Connected, Named, AnswerIsCurrent, NoStale
<1>2. TypeOK /\ Protocol /\ [Next]_vars => TypeOK' /\ Protocol'
    BY TypeNext, TalkNext, AnswerNext DEF Protocol
<1> QED
    BY <1>1, <1>2, PTL DEF Spec

(* Type correctness, for every set of clients, connections and codes.      *)
THEOREM TypeCorrect == Spec => []TypeOK
    BY TypedProtocol, PTL

-----------------------------------------------------------------------------
(* The room map.                                                           *)

(* What remove_peer_from_room does to entries and codes.                   *)
LEMMA Removal ==
    ASSUME TypeOK, OpenHasMembers, NEW r \in Code, NEW c \in Client, RemovePeerFromRoom(r, c)
    PROVE  /\ \A q \in Code, d \in Client :
                rooms'[q][d] = IF q = r /\ d = c THEN NoConn ELSE rooms[q][d]
           /\ OpenHasMembers'
<1> USE DEF TypeOK
<1>1. \A q \in Code, d \in Client :
          rooms'[q][d] = IF q = r /\ d = c THEN NoConn ELSE rooms[q][d]
  <2>1. CASE r \in open
    BY <2>1 DEF RemovePeerFromRoom
  <2>2. CASE r \notin open
    BY <2>2 DEF RemovePeerFromRoom, OpenHasMembers
  <2> QED
    BY <2>1, <2>2
<1>2. open' = IF r \in open /\ Members(r) \ {c} = {} THEN open \ {r} ELSE open
    BY DEF RemovePeerFromRoom
<1>3. ASSUME NEW q \in Code PROVE (q \in open <=> \E d \in Client : rooms[q][d] # NoConn)'
  <2>1. q \in open <=> \E d \in Client : rooms[q][d] # NoConn
    BY DEF OpenHasMembers
  <2>2. CASE q # r
    BY <1>1, <1>2, <2>1, <2>2
  <2>3. CASE q = r /\ Members(r) \ {c} = {}
    <3>1. q \notin open' /\ \A d \in Client : d # c => rooms[r][d] = NoConn
      BY <1>2, <2>3 DEF Members
    <3> QED
      BY <1>1, <2>3, <3>1
  <2>4. CASE q = r /\ Members(r) \ {c} # {}
    <3>1. PICK d \in Client : d # c /\ rooms[r][d] # NoConn
      BY <2>4 DEF Members
    <3>2. rooms'[r][d] # NoConn
      BY <1>1, <3>1
    <3> QED
      BY <1>2, <2>1, <2>4, <3>1, <3>2
  <2> QED
    BY <2>2, <2>3, <2>4
<1> QED
    BY <1>1, <1>3 DEF OpenHasMembers

(* EntriesAreOwned for one entry ...                                       *)
LEMMA Owner ==
    ASSUME EntriesAreOwned, NEW r \in Code, NEW c \in Client, NEW k \in Conn, rooms[r][c] = k
    PROVE  handler[k] = "run" /\ curRoom[k] = r /\ curPeer[k] = c
    BY DEF EntriesAreOwned

(* ... and its converse: a task without a room owns none.                  *)
LEMMA Roomless ==
    ASSUME EntriesAreOwned, NEW k \in Conn, curRoom[k] = NoCode, NEW r \in Code, NEW c \in Client
    PROVE  rooms[r][c] # k
    BY SignalAssumption DEF EntriesAreOwned

(* Every turn of handle_socket keeps the map consistent.                   *)
LEMMA MapNext ==
    ASSUME TypeOK, Protocol, EntriesAreOwned, OpenHasMembers, [Next]_vars
    PROVE  EntriesAreOwned' /\ OpenHasMembers'
<1> USE SignalAssumption
<1>1. CASE UNCHANGED <<rooms, open, curRoom, curPeer>>
           /\ \A k \in Conn : handler[k] = "run" => handler'[k] = "run"
    BY <1>1 DEF EntriesAreOwned, OpenHasMembers
<1>2. ASSUME NEW k \in Conn, curRoom[k] = NoCode, NEW r \in Code, NEW c \in Client
      PROVE  rooms[r][c] # k
    BY <1>2, Roomless
<1>3. ASSUME NEW k \in Conn, NEW r \in Code, HandleCreate(k, r)
      PROVE  EntriesAreOwned' /\ OpenHasMembers'
  <2>1. Receive(k, "create") /\ r \notin open /\ handler[k] = "run"
    BY <1>3 DEF HandleCreate, Receive
  <2>2. curRoom[k] = NoCode /\ owner[k] \in Client
    BY <2>1, ReceivedRequest DEF Protocol
  <2>3. /\ \A q \in Code, d \in Client :
              rooms'[q][d] = IF q = r THEN (IF d = owner[k] THEN k ELSE NoConn) ELSE rooms[q][d]
        /\ open' = open \cup {r} /\ UNCHANGED handler
        /\ \A j \in Conn : curRoom'[j] = IF j = k THEN r ELSE curRoom[j]
        /\ \A j \in Conn : curPeer'[j] = IF j = k THEN owner[k] ELSE curPeer[j]
    BY <1>3 DEF HandleCreate, TypeOK
  <2>4. EntriesAreOwned'
    BY <1>2, <2>1, <2>2, <2>3 DEF EntriesAreOwned
  <2>5. OpenHasMembers'
    <3>1. rooms'[r][owner[k]] = k /\ k # NoConn
      BY <2>2, <2>3
    <3>2. \A q \in Code : q # r => \A d \in Client : rooms'[q][d] = rooms[q][d]
      BY <2>3
    <3> QED
      BY <2>2, <2>3, <3>1, <3>2 DEF OpenHasMembers
  <2> QED
    BY <2>4, <2>5
<1>4. ASSUME NEW k \in Conn, HandleJoin(k) PROVE EntriesAreOwned' /\ OpenHasMembers'
  <2> DEFINE r == Head(inbox[k]).room
  <2>1. Receive(k, "join") /\ r \in open /\ r \in Code /\ handler[k] = "run"
    BY <1>4, Messages DEF HandleJoin, Receive, TypeOK
  <2>2. curRoom[k] = NoCode /\ owner[k] \in Client
    BY <2>1, ReceivedRequest DEF Protocol
  <2>3. /\ \A q \in Code, d \in Client :
              rooms'[q][d] = IF q = r /\ d = owner[k] THEN k ELSE rooms[q][d]
        /\ UNCHANGED <<open, handler>>
        /\ \A j \in Conn : curRoom'[j] = IF j = k THEN r ELSE curRoom[j]
        /\ \A j \in Conn : curPeer'[j] = IF j = k THEN owner[k] ELSE curPeer[j]
    BY <1>4, <2>1, <2>2 DEF HandleJoin, TypeOK
  <2> HIDE DEF r
  <2>4. EntriesAreOwned'
    BY <1>2, <2>1, <2>2, <2>3 DEF EntriesAreOwned
  <2>5. OpenHasMembers'
    BY <2>1, <2>2, <2>3 DEF OpenHasMembers
  <2> QED
    BY <2>4, <2>5
<1>5. ASSUME NEW k \in Conn, curRoom[k] # NoCode,
             RemovePeerFromRoom(curRoom[k], curPeer[k]),
             \A j \in Conn \ {k} : /\ handler'[j] = handler[j] /\ curRoom'[j] = curRoom[j]
                                    /\ curPeer'[j] = curPeer[j]
      PROVE  EntriesAreOwned' /\ OpenHasMembers'
  <2>1. curRoom[k] \in Code /\ curPeer[k] \in Client
    BY <1>5 DEF Protocol, Talk, Named, TypeOK
  <2>2. /\ \A q \in Code, d \in Client :
              rooms'[q][d] = IF q = curRoom[k] /\ d = curPeer[k] THEN NoConn ELSE rooms[q][d]
        /\ OpenHasMembers'
    BY <1>5, <2>1, Removal
  <2>3. ASSUME NEW q \in Code, NEW d \in Client, NEW j \in Conn, rooms'[q][d] = j
        PROVE  handler'[j] = "run" /\ curRoom'[j] = q /\ curPeer'[j] = d
    <3>1. rooms[q][d] = j /\ ~(q = curRoom[k] /\ d = curPeer[k])
      BY <2>2, <2>3
    <3>2. handler[j] = "run" /\ curRoom[j] = q /\ curPeer[j] = d
      BY <3>1, Owner
    <3> QED
      BY <1>5, <3>1, <3>2
  <2> QED
    BY <2>2, <2>3 DEF EntriesAreOwned
<1>6. ASSUME NEW k \in Conn, curRoom[k] = NoCode, UNCHANGED <<rooms, open>>,
             \A j \in Conn \ {k} : /\ handler'[j] = handler[j] /\ curRoom'[j] = curRoom[j]
                                    /\ curPeer'[j] = curPeer[j]
      PROVE  EntriesAreOwned' /\ OpenHasMembers'
    BY <1>6, Roomless DEF EntriesAreOwned, OpenHasMembers
<1>7. ASSUME NEW k \in Conn, HandleLeave(k) PROVE EntriesAreOwned' /\ OpenHasMembers'
  <2>1. Receive(k, "leave") /\ Forget(k) /\ UNCHANGED handler
    BY <1>7 DEF HandleLeave
  <2>2. Head(inbox[k]).room = curRoom[k] /\ curRoom[k] \in Code
    BY <2>1, ReceivedLast DEF Protocol
  <2>3. curRoom[k] # NoCode /\ curPeer[k] # NoClient
    BY <2>2 DEF Protocol, Talk, Named
  <2>4. RemovePeerFromRoom(curRoom[k], curPeer[k])
    BY <1>7, <2>2, <2>3 DEF HandleLeave
  <2> QED
    BY <1>5, <2>1, <2>3, <2>4 DEF Forget, TypeOK
<1>8. ASSUME NEW k \in Conn, HandleClose(k) PROVE EntriesAreOwned' /\ OpenHasMembers'
    BY <1>5, <1>6, <1>8 DEF HandleClose, Forget, Receive, TypeOK
<1>9. ASSUME NEW k \in Conn, ClientNext(k)
      PROVE  UNCHANGED <<rooms, open, curRoom, curPeer>>
             /\ \A j \in Conn : handler[j] = "run" => handler'[j] = "run"
  <2>1. CASE \E c \in Client : AskCreate(k, c) \/ \E r \in Code : AskJoin(k, c, r)
    BY <2>1 DEF AskCreate, AskJoin, Ask, TypeOK
  <2>2. CASE ReadCreated(k) \/ ReadJoined(k) \/ ReadError(k) \/ ReadPeerJoined(k) \/ ReadPeerLeft(k)
    BY <2>2
       DEF ReadCreated, ReadJoined, ReadError, ReadPeerJoined, ReadPeerLeft, Read,
           serverVars
  <2>3. CASE LeaveRoom(k) \/ SendLeave(k) \/ Lose(k)
    BY <2>3 DEF LeaveRoom, SendLeave, Lose, serverVars
  <2> QED
    BY <1>9, <2>1, <2>2, <2>3 DEF ClientNext
<1>10. ASSUME NEW k \in Conn, HandleJoinUnknown(k)
       PROVE  UNCHANGED <<rooms, open, curRoom, curPeer, handler>>
    BY <1>10 DEF HandleJoinUnknown, serverVars
<1>11. CASE UNCHANGED vars
    BY <1>1, <1>11 DEF vars
<1> QED
    BY <1>1, <1>3, <1>4, <1>7, <1>8, <1>9, <1>10, <1>11 DEF Next, Handle

(* The map is consistent in every reachable state.                         *)
LEMMA MapSpec == Spec => [](EntriesAreOwned /\ OpenHasMembers)
<1>1. Init => EntriesAreOwned /\ OpenHasMembers
    BY SignalAssumption DEF Init, EntriesAreOwned, OpenHasMembers
<1>2. TypeOK /\ Protocol /\ EntriesAreOwned /\ OpenHasMembers /\ [Next]_vars
          => EntriesAreOwned' /\ OpenHasMembers'
    BY MapNext
<1> QED
    BY <1>1, <1>2, TypedProtocol, PTL DEF Spec

(* No entry of the room map outlives its connection, however the sessions  *)
(* of one uuid overlap (handle_socket, remove_peer_from_room).             *)
THEOREM EntriesOwned == Spec => []EntriesAreOwned
    BY MapSpec, PTL

(* A code is taken exactly while its room has members.                     *)
THEOREM OpenRoomsHaveMembers == Spec => []OpenHasMembers
    BY MapSpec, PTL

-----------------------------------------------------------------------------
(* What the clients are told.                                              *)

(* A message that settles, for its reader, whether d is a member, and how. *)
About(m, d) ==
    \/ m.type \in {"created", "joined"}
    \/ m.type \in {"peer_joined", "peer_left"} /\ m.peer = d
Adds(m, d) == m.type = "peer_joined" \/ (m.type = "joined" /\ d \in m.peers)

(* Who lists v and still has q to read will list d just when d is in S:    *)
(* the last word q has on d says so, or q has none and v is right.         *)
ToldBy(q, v, d, S) ==
    \/ (\A n \in DOMAIN q : ~About(q[n], d)) /\ (d \in v <=> d \in S)
    \/ \E n \in DOMAIN q :
          /\ About(q[n], d) /\ (Adds(q[n], d) <=> d \in S)
          /\ \A m \in DOMAIN q : m > n => ~About(q[m], d)

(* Every registered client that still reads is being told of the others.   *)
Informed ==
    \A r \in Code, c \in Client, k \in Conn :
        rooms[r][c] = k /\ stage[k] \in Reading =>
            \A d \in Client \ {c} : ToldBy(outbox[k], view[k], d, Members(r))

(* A client lists nobody before it has its answer.                         *)
Unseen == \A k \in Conn : stage[k] \in {"new", "asked", "cancelled"} => view[k] = {}

(* With nothing left to read, v is right.                                  *)
LEMMA ToldEmpty ==
    ASSUME NEW v, NEW d, NEW S, ToldBy(<<>>, v, d, S)
    PROVE  d \in v <=> d \in S
    BY DEF ToldBy

(* The word just queued is the last.                                       *)
LEMMA ToldLast ==
    ASSUME NEW q \in Seq(ServerMessage), NEW m \in ServerMessage, NEW v, NEW d, NEW S,
           About(m, d), Adds(m, d) <=> d \in S
    PROVE  ToldBy(Append(q, m), v, d, S)
<1>1. /\ Len(q) \in Nat /\ Append(q, m)[Len(q) + 1] = m
      /\ DOMAIN Append(q, m) = 1 .. Len(q) + 1
    BY AppendProperties
<1> QED
    BY <1>1 DEF ToldBy

(* Other messages change nothing.                                          *)
LEMMA ToldOther ==
    ASSUME NEW q \in Seq(ServerMessage), NEW m \in ServerMessage, NEW v, NEW d, NEW S,
           ~About(m, d), ToldBy(q, v, d, S)
    PROVE  ToldBy(Append(q, m), v, d, S)
<1>1. /\ Len(q) \in Nat /\ Append(q, m)[Len(q) + 1] = m
      /\ DOMAIN Append(q, m) = 1 .. Len(q) + 1 /\ DOMAIN q = 1 .. Len(q)
      /\ \A i \in 1 .. Len(q) : Append(q, m)[i] = q[i]
    BY AppendProperties
<1>2. CASE (\A n \in DOMAIN q : ~About(q[n], d)) /\ (d \in v <=> d \in S)
  <2>1. \A n \in DOMAIN Append(q, m) : ~About(Append(q, m)[n], d)
    BY <1>1, <1>2
  <2> QED
    BY <1>2, <2>1 DEF ToldBy
<1>3. ASSUME NEW n \in DOMAIN q, About(q[n], d), Adds(q[n], d) <=> d \in S,
             \A i \in DOMAIN q : i > n => ~About(q[i], d)
      PROVE  ToldBy(Append(q, m), v, d, S)
  <2>1. n \in DOMAIN Append(q, m) /\ Append(q, m)[n] = q[n]
    BY <1>1
  <2>2. \A i \in DOMAIN Append(q, m) : i > n => ~About(Append(q, m)[i], d)
    BY <1>1, <1>3
  <2> QED
    BY <1>3, <2>1, <2>2 DEF ToldBy
<1> QED
    BY <1>2, <1>3 DEF ToldBy

(* Reading the first message moves what it says from q to v.               *)
LEMMA ToldRead ==
    ASSUME NEW q \in Seq(ServerMessage), q # <<>>, NEW v, NEW w, NEW d, NEW S,
           ToldBy(q, v, d, S),
           About(Head(q), d) => (d \in w <=> Adds(Head(q), d)),
           ~About(Head(q), d) => (d \in w <=> d \in v)
    PROVE  ToldBy(Tail(q), w, d, S)
<1>1. /\ Len(q) \in Nat \ {0} /\ Head(q) = q[1] /\ DOMAIN q = 1 .. Len(q)
      /\ Len(Tail(q)) = Len(q) - 1 /\ DOMAIN Tail(q) = 1 .. Len(q) - 1
      /\ \A i \in 1 .. Len(q) - 1 : Tail(q)[i] = q[i + 1]
    BY HeadTailProperties
<1>2. \A i \in DOMAIN Tail(q) : i + 1 \in DOMAIN q /\ i + 1 > 1 /\ Tail(q)[i] = q[i + 1]
    BY <1>1
<1>3. CASE (\A n \in DOMAIN q : ~About(q[n], d)) /\ (d \in v <=> d \in S)
  <2>1. 1 \in DOMAIN q
    BY <1>1
  <2> QED
    BY <1>1, <1>2, <1>3, <2>1 DEF ToldBy
<1>4. ASSUME NEW n \in DOMAIN q, About(q[n], d), Adds(q[n], d) <=> d \in S,
             \A i \in DOMAIN q : i > n => ~About(q[i], d)
      PROVE  ToldBy(Tail(q), w, d, S)
  <2>1. CASE n = 1
    <3>1. \A i \in DOMAIN Tail(q) : ~About(Tail(q)[i], d)
      BY <1>2, <1>4, <2>1
    <3> QED
      BY <1>1, <1>4, <2>1, <3>1 DEF ToldBy
  <2>2. CASE n # 1
    <3>1. n - 1 \in DOMAIN Tail(q) /\ Tail(q)[n - 1] = q[n]
      BY <1>1, <2>2
    <3>2. \A i \in DOMAIN Tail(q) : i > n - 1 => ~About(Tail(q)[i], d)
      <4>1. \A i \in DOMAIN Tail(q) : i > n - 1 => i + 1 > n
        BY <1>1
      <4> QED
        BY <1>2, <1>4, <4>1
    <3> QED
      BY <1>4, <3>1, <3>2 DEF ToldBy
  <2> QED
    BY <2>1, <2>2
<1> QED
    BY <1>3, <1>4 DEF ToldBy

(* What each kind of message says.                                         *)
LEMMA Words ==
    /\ \A r, d : About(Created(r), d) /\ ~Adds(Created(r), d)
    /\ \A r, T, d : About(Joined(r, T), d) /\ (Adds(Joined(r, T), d) <=> d \in T)
    /\ \A c, d : About(PeerJoined(c), d) <=> c = d
    /\ \A c : Adds(PeerJoined(c), c)
    /\ \A c, d : About(PeerLeft(c), d) <=> c = d
    /\ \A c : ~Adds(PeerLeft(c), c)
    BY Types DEF About, Adds

(* Before its answer a client only waits.                                  *)
LEMMA UnseenNext ==
    ASSUME TypeOK, Unseen, [Next]_vars
    PROVE  Unseen'
<1> USE DEF Unseen, TypeOK
<1>1. ASSUME NEW k \in Conn, Handle(k) PROVE UNCHANGED <<stage, view>>
    BY <1>1 DEF Handle, HandleCreate, HandleJoin, HandleJoinUnknown, HandleLeave,
                HandleClose, Receive, clientVars
<1>2. ASSUME NEW k \in Conn, NEW c \in Client,
             AskCreate(k, c) \/ \E r \in Code : AskJoin(k, c, r)
      PROVE  Unseen'
    BY <1>2 DEF AskCreate, AskJoin, Ask
<1>3. ASSUME NEW k \in Conn, ReadCreated(k) \/ ReadJoined(k) \/ ReadError(k)
      PROVE  Unseen'
    BY <1>3 DEF ReadCreated, ReadJoined, ReadError, Read
<1>4. ASSUME NEW k \in Conn, ReadPeerJoined(k) \/ ReadPeerLeft(k) PROVE Unseen'
    BY <1>4 DEF ReadPeerJoined, ReadPeerLeft, Read
<1>5. ASSUME NEW k \in Conn, LeaveRoom(k) \/ SendLeave(k) \/ Lose(k) PROVE Unseen'
    BY <1>5 DEF LeaveRoom, SendLeave, Lose
<1>6. CASE UNCHANGED vars
    BY <1>6 DEF vars
<1> QED
    BY <1>1, <1>2, <1>3, <1>4, <1>5, <1>6 DEF Next, ClientNext

(* A client reads one message, or does something that leaves what it lists *)
(* and what it has to read alone; the room map stays as it is.             *)
LEMMA InformedClient ==
    ASSUME TypeOK, Protocol, EntriesAreOwned, Unseen, Informed, NEW k \in Conn, ClientNext(k)
    PROVE  Informed'
<1> USE DEF TypeOK
<1>0. /\ UNCHANGED rooms /\ \A r \in Code : Members(r)' = Members(r)
      /\ \A j \in Conn \ {k} : /\ stage'[j] = stage[j] /\ view'[j] = view[j]
                                /\ outbox'[j] = outbox[j]
  <2>1. UNCHANGED rooms
    BY DEF ClientNext, AskCreate, AskJoin, Ask, ReadCreated, ReadJoined, ReadError,
           ReadPeerJoined, ReadPeerLeft, Read, LeaveRoom, SendLeave, Lose, serverVars
  <2>2. \A j \in Conn \ {k} : stage'[j] = stage[j] /\ view'[j] = view[j] /\ outbox'[j] = outbox[j]
    <3>1. CASE \E c \in Client : AskCreate(k, c) \/ \E r \in Code : AskJoin(k, c, r)
      BY <3>1 DEF AskCreate, AskJoin, Ask
    <3>2. CASE ReadCreated(k) \/ ReadJoined(k) \/ ReadError(k)
      BY <3>2 DEF ReadCreated, ReadJoined, ReadError, Read
    <3>3. CASE ReadPeerJoined(k) \/ ReadPeerLeft(k)
      BY <3>3 DEF ReadPeerJoined, ReadPeerLeft, Read
    <3>4. CASE LeaveRoom(k) \/ SendLeave(k) \/ Lose(k)
      BY <3>4 DEF LeaveRoom, SendLeave, Lose
    <3> QED
      BY <3>1, <3>2, <3>3, <3>4 DEF ClientNext
  <2> QED
    BY <2>1, <2>2 DEF Members
<1> SUFFICES ASSUME NEW r \in Code, NEW c \in Client, rooms[r][c] = k, stage'[k] \in Reading,
                    NEW d \in Client \ {c}
             PROVE  ToldBy(outbox'[k], view'[k], d, Members(r))
  <2>1. ASSUME NEW r \in Code, NEW c \in Client, NEW j \in Conn, rooms'[r][c] = j,
               stage'[j] \in Reading, NEW d \in Client \ {c}
        PROVE  ToldBy(outbox'[j], view'[j], d, Members(r)')
    <3>1. rooms[r][c] = j /\ Members(r)' = Members(r)
      BY <1>0, <2>1
    <3>2. CASE j = k
      BY <2>1, <3>1, <3>2
    <3>3. CASE j # k
      BY <1>0, <2>1, <3>1, <3>3 DEF Informed
    <3> QED
      BY <3>2, <3>3
  <2> QED
    BY <2>1 DEF Informed
<1>1. CASE \E b \in Client : AskCreate(k, b) \/ \E q \in Code : AskJoin(k, b, q)
  <2>1. stage[k] = "new"
    BY <1>1 DEF AskCreate, AskJoin, Ask
  <2>2. curRoom[k] = NoCode
    BY <2>1 DEF Protocol, Talk, NothingAsked
  <2> QED
    BY <2>2, Roomless
<1>2. ASSUME stage[k] \in Reading
      PROVE  ToldBy(outbox[k], view[k], d, Members(r))
    BY <1>2 DEF Informed
<1>3. ASSUME NEW type, Read(k, type), stage[k] \in Reading,
             About(Head(outbox[k]), d) => (d \in view'[k] <=> Adds(Head(outbox[k]), d)),
             ~About(Head(outbox[k]), d) => (d \in view'[k] <=> d \in view[k])
      PROVE  ToldBy(outbox'[k], view'[k], d, Members(r))
  <2>1. outbox[k] # <<>> /\ outbox'[k] = Tail(outbox[k]) /\ outbox[k] \in Seq(ServerMessage)
    BY <1>3 DEF Read
  <2> QED
    BY <1>2, <1>3, <2>1, ToldRead
<1>4. CASE ReadCreated(k)
  <2>1. /\ Read(k, "created") /\ stage[k] \in Blocked /\ view'[k] = view[k] /\ view[k] = {}
        /\ Head(outbox[k]).type = "created"
    BY <1>4 DEF ReadCreated, Read, Unseen, Blocked
  <2> QED
    BY <1>3, <2>1 DEF Blocked, Reading, About, Adds
<1>5. CASE ReadJoined(k)
  <2>1. /\ Read(k, "joined") /\ stage[k] \in Blocked /\ view'[k] = Head(outbox[k]).peers
        /\ Head(outbox[k]).type = "joined"
    BY <1>5 DEF ReadJoined, Read
  <2> QED
    BY <1>3, <2>1 DEF Blocked, Reading, About, Adds
<1>6. CASE ReadPeerJoined(k)
  <2>1. /\ Read(k, "peer_joined") /\ stage[k] \in Reading
        /\ view'[k] = view[k] \cup {Head(outbox[k]).peer}
        /\ Head(outbox[k]).type = "peer_joined"
    BY <1>6 DEF ReadPeerJoined, Read, Reading
  <2> QED
    BY <1>3, <2>1 DEF About, Adds
<1>7. CASE ReadPeerLeft(k)
  <2>1. /\ Read(k, "peer_left") /\ stage[k] \in Reading
        /\ view'[k] = view[k] \ {Head(outbox[k]).peer}
        /\ Head(outbox[k]).type = "peer_left"
    BY <1>7 DEF ReadPeerLeft, Read, Reading
  <2> QED
    BY <1>3, <2>1 DEF About, Adds
<1>8. CASE LeaveRoom(k)
  <2>1. stage[k] \in Reading /\ outbox'[k] = outbox[k] /\ view'[k] = view[k]
    BY <1>8 DEF LeaveRoom, Reading
  <2> QED
    BY <1>2, <2>1
<1>9. CASE ReadError(k) \/ SendLeave(k) \/ Lose(k)
    BY <1>9 DEF ReadError, SendLeave, Lose, Reading
<1> QED
    BY <1>1, <1>4, <1>5, <1>6, <1>7, <1>8, <1>9 DEF ClientNext

(* What the others in room r are sent when one of its entries changes.     *)
LEMMA InformedRest ==
    ASSUME TypeOK, EntriesAreOwned, Informed, NEW r \in Code, NEW c \in Client,
           NEW S, NEW m \in ServerMessage,
           UNCHANGED <<stage, view>>,
           \A q \in Code, d \in Client : ~(q = r /\ d = c) => rooms'[q][d] = rooms[q][d],
           \A d \in Client \ {c}, j \in Conn : rooms[r][d] = j => j \in S,
           S \subseteq {rooms[r][d] : d \in Client},
           \A d \in Client : About(m, d) <=> d = c,
           Adds(m, c) <=> rooms'[r][c] # NoConn,
           NEW q \in Code, NEW b \in Client, ~(q = r /\ b = c),
           NEW k \in Conn, rooms[q][b] = k, stage[k] \in Reading,
           NEW d \in Client \ {b}
    PROVE  ToldBy(Post(outbox, S, m)[k], view'[k], d, Members(q)')
<1>1. ToldBy(outbox[k], view[k], d, Members(q)) /\ outbox[k] \in Seq(ServerMessage)
    BY DEF Informed, TypeOK
<1>2. /\ Post(outbox, S, m)[k] = IF k \in S THEN Append(outbox[k], m) ELSE outbox[k]
      /\ view'[k] = view[k]
    BY DEF Post
<1>3. k \in S <=> q = r
    BY DEF EntriesAreOwned
<1>4. CASE q = r
  <2>1. Post(outbox, S, m)[k] = Append(outbox[k], m)
    BY <1>2, <1>3, <1>4
  <2>2. CASE d = c
    <3>1. About(m, d) /\ (Adds(m, d) <=> d \in Members(q)')
      BY <1>4, <2>2 DEF Members
    <3> QED
      BY <1>1, <1>2, <2>1, <3>1, ToldLast
  <2>3. CASE d # c
    <3>1. ~About(m, d) /\ (d \in Members(q)' <=> d \in Members(q))
      BY <2>3 DEF Members
    <3>2. ToldBy(outbox[k], view[k], d, Members(q)')
      BY <1>1, <3>1 DEF ToldBy
    <3> QED
      BY <1>1, <1>2, <2>1, <3>1, <3>2, ToldOther
  <2> QED
    BY <2>2, <2>3
<1>5. CASE q # r
  <2>1. Members(q)' = Members(q)
    BY <1>5 DEF Members
  <2> QED
    BY <1>1, <1>2, <1>3, <1>5, <2>1
<1> QED
    BY <1>4, <1>5

(* A new room: its only member is told that there is nobody else.          *)
LEMMA InformedCreate ==
    ASSUME TypeOK, Protocol, EntriesAreOwned, OpenHasMembers, Informed,
           NEW k \in Conn, NEW r \in Code, HandleCreate(k, r)
    PROVE  Informed'
<1> USE SignalAssumption
<1>1. Receive(k, "create") /\ r \notin open /\ UNCHANGED <<stage, view>>
    BY DEF HandleCreate, Receive, clientVars
<1>2. curRoom[k] = NoCode /\ owner[k] \in Client
    BY <1>1, ReceivedRequest DEF Protocol
<1>3. \A d \in Client : rooms[r][d] = NoConn
    BY <1>1 DEF OpenHasMembers
<1>4. \A q \in Code, d \in Client :
          rooms'[q][d] = IF q = r THEN (IF d = owner[k] THEN k ELSE NoConn) ELSE rooms[q][d]
    BY DEF HandleCreate, TypeOK
<1>5. \A j \in Conn : outbox'[j] = IF j = k /\ stage[j] \in Reading
                                   THEN Append(outbox[j], Created(r)) ELSE outbox[j]
    BY DEF HandleCreate, Post
<1> SUFFICES ASSUME NEW q \in Code, NEW b \in Client, NEW j \in Conn, rooms'[q][b] = j,
                    stage[j] \in Reading, NEW d \in Client \ {b}
             PROVE  ToldBy(outbox'[j], view[j], d, Members(q)')
    BY <1>1 DEF Informed
<1>6. CASE q = r
  <2>1. j = k /\ b = owner[k] /\ d \notin Members(q)'
    BY <1>4, <1>6 DEF Members
  <2>2. outbox'[j] = Append(outbox[j], Created(r)) /\ Created(r) \in ServerMessage
    BY <1>5, <2>1, Answers
  <2>3. About(Created(r), d) /\ (Adds(Created(r), d) <=> d \in Members(q)')
    BY <2>1, Words
  <2>4. outbox[j] \in Seq(ServerMessage)
    BY DEF TypeOK
  <2> QED
    BY <2>2, <2>3, <2>4, ToldLast
<1>7. CASE q # r
  <2>1. rooms[q][b] = j /\ j # k /\ Members(q)' = Members(q)
    BY <1>2, <1>4, <1>7, Roomless DEF Members
  <2> QED
    BY <1>5, <2>1 DEF Informed
<1> QED
    BY <1>6, <1>7

(* The newcomer is told of the members, and they of it.                    *)
LEMMA InformedJoin ==
    ASSUME TypeOK, Protocol, EntriesAreOwned, Informed, NEW k \in Conn, HandleJoin(k)
    PROVE  Informed'
<1> USE SignalAssumption
<1> DEFINE r == Head(inbox[k]).room
           c == owner[k]
           told == Post(outbox, Conns(r, Client), PeerJoined(c))
<1>1. Receive(k, "join") /\ UNCHANGED <<stage, view>>
    BY DEF HandleJoin, Receive, clientVars
<1>2. curRoom[k] = NoCode /\ c \in Client
    BY <1>1, ReceivedRequest DEF Protocol
<1>3. r \in Code
    BY <1>1, Messages DEF Receive, TypeOK
<1>4. \A q \in Code, d \in Client :
          rooms'[q][d] = IF q = r /\ d = c THEN k ELSE rooms[q][d]
    BY <1>3, <1>2 DEF HandleJoin, TypeOK
<1>5. outbox' = Post(told, {k}, Joined(r, Members(r)))
    BY DEF HandleJoin
<1>6. /\ Joined(r, Members(r)) \in ServerMessage /\ PeerJoined(c) \in ServerMessage
      /\ told \in [Conn -> Seq(ServerMessage)]
  <2>1. Joined(r, Members(r)) \in ServerMessage /\ PeerJoined(c) \in ServerMessage
    BY <1>2, <1>3, Answers DEF Members
  <2> QED
    BY <2>1, PostType DEF TypeOK
<1>c. /\ \A d \in Client \ {c}, j \in Conn : rooms[r][d] = j => j \in Conns(r, Client)
      /\ Conns(r, Client) \subseteq {rooms[r][d] : d \in Client}
    BY DEF Conns
<1>w. \A d \in Client : About(PeerJoined(c), d) <=> d = c
    BY Words
<1>a. Adds(PeerJoined(c), c) <=> rooms'[r][c] # NoConn
    BY <1>2, <1>3, <1>4, Words
<1> HIDE DEF r, c
<1> SUFFICES ASSUME NEW q \in Code, NEW b \in Client, NEW j \in Conn, rooms'[q][b] = j,
                    stage[j] \in Reading, NEW d \in Client \ {b}
             PROVE  ToldBy(outbox'[j], view[j], d, Members(q)')
    BY <1>1 DEF Informed
<1>7. CASE q = r /\ b = c
  <2>1. j = k /\ (d \in Members(q)' <=> d \in Members(r))
    BY <1>4, <1>7 DEF Members
  <2>2. outbox'[j] = Append(told[j], Joined(r, Members(r))) /\ told[j] \in Seq(ServerMessage)
    BY <1>5, <1>6, <2>1 DEF Post
  <2> QED
    BY <1>6, <2>1, <2>2, Words, ToldLast
<1>8. CASE ~(q = r /\ b = c)
  <2>1. rooms[q][b] = j /\ j # k
    BY <1>2, <1>4, <1>8, Roomless
  <2>2. outbox'[j] = told[j]
    BY <1>5, <2>1 DEF Post
  <2>3. \A p \in Code, e \in Client : ~(p = r /\ e = c) => rooms'[p][e] = rooms[p][e]
    BY <1>4
  <2>4. ToldBy(told[j], view'[j], d, Members(q)')
    BY <1>1, <1>2, <1>3, <1>6, <1>8, <1>a, <1>c, <1>w, <2>1, <2>3, InformedRest
  <2> QED
    BY <1>1, <2>2, <2>4
<1> QED
    BY <1>7, <1>8

(* Those who stay are told that c is gone.                                 *)
LEMMA InformedRemove ==
    ASSUME TypeOK, EntriesAreOwned, Informed, NEW r \in Code, NEW c \in Client,
           RemovePeerFromRoom(r, c), UNCHANGED <<stage, view>>
    PROVE  Informed'
<1> USE SignalAssumption
<1> DEFINE rest == Conns(r, Members(r) \ {c})
<1>1. CASE r \notin open
  <2>1. UNCHANGED <<rooms, outbox>>
    BY <1>1 DEF RemovePeerFromRoom
  <2> QED
    BY <2>1 DEF Informed, Members
<1>2. CASE r \in open
  <2>1. /\ \A q \in Code, d \in Client :
              rooms'[q][d] = IF q = r /\ d = c THEN NoConn ELSE rooms[q][d]
        /\ outbox' = Post(outbox, rest, PeerLeft(c))
    BY <1>2 DEF RemovePeerFromRoom, TypeOK
  <2>2. /\ \A d \in Client \ {c}, j \in Conn : rooms[r][d] = j => j \in rest
        /\ rest \subseteq {rooms[r][d] : d \in Client}
    BY DEF Conns, Members
  <2>3. /\ PeerLeft(c) \in ServerMessage
        /\ \A d \in Client : About(PeerLeft(c), d) <=> d = c
        /\ Adds(PeerLeft(c), c) <=> rooms'[r][c] # NoConn
    BY <2>1, Answers, Words
  <2>4. \A q \in Code, d \in Client : ~(q = r /\ d = c) => rooms'[q][d] = rooms[q][d]
    BY <2>1
  <2> HIDE DEF rest
  <2>5. ASSUME NEW q \in Code, NEW b \in Client, NEW j \in Conn, rooms'[q][b] = j,
               stage[j] \in Reading, NEW d \in Client \ {b}
        PROVE  ToldBy(outbox'[j], view'[j], d, Members(q)')
    <3>1. rooms[q][b] = j /\ ~(q = r /\ b = c)
      BY <2>1, <2>5
    <3>2. ToldBy(Post(outbox, rest, PeerLeft(c))[j], view'[j], d, Members(q)')
      BY <2>2, <2>3, <2>4, <2>5, <3>1, InformedRest
    <3> QED
      BY <2>1, <3>2
  <2> QED
    BY <2>5 DEF Informed
<1> QED
    BY <1>1, <1>2

(* Every turn of either side keeps the registered clients informed.        *)
LEMMA InformedNext ==
    ASSUME TypeOK, Protocol, EntriesAreOwned, OpenHasMembers, Unseen, Informed, [Next]_vars
    PROVE  Informed'
<1>0. ASSUME NEW k \in Conn, NEW type, Receive(k, type) PROVE UNCHANGED <<stage, view>>
    BY <1>0 DEF Receive, clientVars
<1>1. CASE UNCHANGED <<stage, view, rooms, outbox>>
    BY <1>1 DEF Informed, Members
<1>2. ASSUME NEW k \in Conn, HandleJoinUnknown(k) PROVE Informed'
  <2>1. Receive(k, "join") /\ UNCHANGED rooms /\ curRoom[k] = NoCode
    BY <1>2, ReceivedRequest DEF HandleJoinUnknown, serverVars, Protocol
  <2>2. \A j \in Conn : j # k => outbox'[j] = outbox[j]
    BY <1>2 DEF HandleJoinUnknown, Post
  <2>3. \A r \in Code, c \in Client : rooms[r][c] # k
    BY <2>1, Roomless
  <2> QED
    BY <1>0, <2>1, <2>2, <2>3 DEF Informed, Members
<1>3. ASSUME NEW k \in Conn, HandleLeave(k) PROVE Informed'
  <2>1. Receive(k, "leave") /\ UNCHANGED <<stage, view>>
    BY <1>0, <1>3 DEF HandleLeave
  <2>2. Head(inbox[k]).room \in Code
    BY <2>1, ReceivedLast DEF Protocol
  <2>3. curPeer[k] # NoClient => curPeer[k] \in Client
    BY DEF TypeOK
  <2>4. CASE curPeer[k] # NoClient
    BY <1>3, <2>1, <2>2, <2>3, <2>4, InformedRemove DEF HandleLeave
  <2>5. CASE curPeer[k] = NoClient
    BY <1>1, <1>3, <2>1, <2>5 DEF HandleLeave
  <2> QED
    BY <2>4, <2>5
<1>4. ASSUME NEW k \in Conn, HandleClose(k) PROVE Informed'
  <2>1. Receive(k, "close") /\ UNCHANGED <<stage, view>>
    BY <1>0, <1>4 DEF HandleClose
  <2>2. curRoom[k] # NoCode => curRoom[k] \in Code /\ curPeer[k] \in Client
    BY DEF TypeOK, Protocol, Talk, Named
  <2>3. CASE curRoom[k] # NoCode
    BY <1>4, <2>1, <2>2, <2>3, InformedRemove DEF HandleClose
  <2>4. CASE curRoom[k] = NoCode
    BY <1>1, <1>4, <2>1, <2>4 DEF HandleClose
  <2> QED
    BY <2>3, <2>4
<1>5. CASE UNCHANGED vars
    BY <1>1, <1>5 DEF vars
<1> QED
    BY <1>2, <1>3, <1>4, <1>5, InformedClient, InformedCreate, InformedJoin DEF Next, Handle

(* A registered client that has read everything lists the members of its   *)
(* room, however joins, leaves, lost connections and overlapping sessions  *)
(* of one uuid interleave (handle_socket; the client's                     *)
(* exchange_identities and run_listener).                                  *)
THEOREM RegisteredViewsConverge == Spec => []ViewsConverge
<1>1. Init => Unseen /\ Informed
    BY SignalAssumption DEF Init, Unseen, Informed
<1>2. TypeOK /\ Informed => ViewsConverge
  <2> SUFFICES ASSUME TypeOK, Informed, NEW r \in Code, NEW c \in Client, NEW k \in Conn,
                      rooms[r][c] = k, stage[k] \in {"waiting", "in"}, outbox[k] = <<>>
               PROVE  view[k] \ {c} = Members(r) \ {c}
    BY DEF ViewsConverge
  <2>1. \A d \in Client \ {c} : ToldBy(<<>>, view[k], d, Members(r))
    BY DEF Informed, Reading
  <2>2. \A d \in Client \ {c} : d \in view[k] <=> d \in Members(r)
    BY <2>1, ToldEmpty
  <2>3. view[k] \subseteq Client /\ Members(r) \subseteq Client
    BY DEF TypeOK, Members
  <2> QED
    BY <2>2, <2>3
<1>3. TypeOK /\ Protocol /\ EntriesAreOwned /\ OpenHasMembers /\ Unseen /\ Informed
          /\ [Next]_vars => Unseen' /\ Informed'
    BY UnseenNext, InformedNext
<1> QED
    BY <1>1, <1>2, <1>3, TypedProtocol, MapSpec, PTL DEF Spec

-----------------------------------------------------------------------------
(* JoinedIsListed fails because a process may be back in a room before the *)
(* server has cleaned up after its last session, and that cleanup then     *)
(* removes the new entry.  That is the only way: it holds wherever a       *)
(* client opens a connection only when the tasks of its earlier ones have  *)
(* ended.                                                                  *)
TakesTurn ==
    \A k \in Conn : stage[k] = "new" /\ stage'[k] # "new" =>
        \A j \in Conn : owner[j] = owner'[k] => handler[j] = "ended"

(* Then no two tasks serve one client, ...                                 *)
OneTask ==
    \A j, k \in Conn : j # k /\ handler[j] = "run" /\ handler[k] = "run" => owner[j] # owner[k]

(* ... and a task that holds a room is the one that room lists.            *)
HoldersListed ==
    \A k \in Conn : curRoom[k] # NoCode =>
        handler[k] = "run" /\ curPeer[k] = owner[k] /\ rooms[curRoom[k]][owner[k]] = k

(* A new task serves a client whose other tasks have ended.                *)
LEMMA OneTaskNext ==
    ASSUME TypeOK, Protocol, OneTask, [Next /\ TakesTurn]_vars
    PROVE  OneTask'
<1> USE DEF TypeOK, OneTask
<1>1. ASSUME NEW k \in Conn, Handle(k)
      PROVE  UNCHANGED owner /\ \A j \in Conn : handler'[j] = "run" => handler[j] = "run"
    BY <1>1 DEF Handle, HandleCreate, HandleJoin, HandleJoinUnknown, HandleLeave,
                HandleClose, Receive, clientVars, serverVars
<1>2. ASSUME NEW k \in Conn, NEW c \in Client, NEW m, Ask(k, c, m), TakesTurn
      PROVE  OneTask'
  <2>1. /\ owner'[k] = c /\ \A j \in Conn \ {k} : owner'[j] = owner[j]
        /\ \A j \in Conn \ {k} : handler'[j] = handler[j]
        /\ stage[k] = "new" /\ stage'[k] = "asked"
    BY <1>2 DEF Ask
  <2>2. \A j \in Conn \ {k} : owner[j] = c => handler[j] # "run"
    BY <1>2, <2>1 DEF TakesTurn
  <2>3. ASSUME NEW i \in Conn, NEW j \in Conn, i # j, handler'[i] = "run", handler'[j] = "run"
        PROVE  owner'[i] # owner'[j]
    <3>1. CASE i = k
      BY <2>1, <2>2, <2>3, <3>1
    <3>2. CASE j = k
      BY <2>1, <2>2, <2>3, <3>2
    <3>3. CASE i # k /\ j # k
      BY <2>1, <2>3, <3>3
    <3> QED
      BY <3>1, <3>2, <3>3
  <2> QED
    BY <2>3
<1>3. ASSUME NEW k \in Conn, ReadCreated(k) \/ ReadJoined(k) \/ ReadError(k)
                              \/ ReadPeerJoined(k) \/ ReadPeerLeft(k)
      PROVE  UNCHANGED <<owner, handler>>
    BY <1>3 DEF ReadCreated, ReadJoined, ReadError, ReadPeerJoined, ReadPeerLeft, Read, serverVars
<1>4. ASSUME NEW k \in Conn, LeaveRoom(k) \/ SendLeave(k) \/ Lose(k)
      PROVE  UNCHANGED <<owner, handler>>
    BY <1>4 DEF LeaveRoom, SendLeave, Lose, serverVars
<1>5. CASE UNCHANGED vars
    BY <1>5 DEF vars
<1>6. ASSUME NEW k \in Conn, ClientNext(k), TakesTurn PROVE OneTask'
    BY <1>2, <1>3, <1>4, <1>6 DEF ClientNext, AskCreate, AskJoin
<1>7. ASSUME NEW k \in Conn, Handle(k) PROVE OneTask'
    BY <1>1, <1>7
<1> QED
    BY <1>5, <1>6, <1>7 DEF Next

(* The cleanup of k cannot hit the entry of another task: that would need  *)
(* the same uuid.                                                          *)
LEMMA HoldersRemoval ==
    ASSUME TypeOK, Protocol, OpenHasMembers, OneTask, HoldersListed, NEW k \in Conn,
           curRoom[k] # NoCode, RemovePeerFromRoom(curRoom[k], curPeer[k]), Forget(k),
           UNCHANGED owner, \A j \in Conn \ {k} : handler'[j] = handler[j]
    PROVE  HoldersListed'
<1>1. curRoom[k] \in Code /\ curPeer[k] \in Client /\ curPeer[k] = owner[k] /\ handler[k] = "run"
    BY DEF TypeOK, Protocol, Talk, Named, HoldersListed
<1>2. \A q \in Code, d \in Client :
          rooms'[q][d] = IF q = curRoom[k] /\ d = curPeer[k] THEN NoConn ELSE rooms[q][d]
    BY <1>1, Removal
<1>3. /\ curRoom'[k] = NoCode
      /\ \A j \in Conn \ {k} : curRoom'[j] = curRoom[j] /\ curPeer'[j] = curPeer[j]
    BY DEF Forget, TypeOK
<1>4. ASSUME NEW j \in Conn, curRoom'[j] # NoCode
      PROVE  handler'[j] = "run" /\ curPeer'[j] = owner[j] /\ rooms'[curRoom'[j]][owner[j]] = j
  <2>1. j # k /\ handler[j] = "run" /\ curRoom'[j] = curRoom[j] /\ curPeer'[j] = curPeer[j]
        /\ curPeer[j] = owner[j] /\ rooms[curRoom[j]][owner[j]] = j
    BY <1>3, <1>4 DEF HoldersListed
  <2>2. owner[j] # owner[k]
    BY <1>1, <2>1 DEF OneTask
  <2>3. curRoom[j] \in Code /\ owner[j] \in Client
    BY <1>4, <2>1 DEF TypeOK, Protocol, Talk, Named
  <2> QED
    BY <1>1, <1>2, <2>1, <2>2, <2>3
<1> QED
    BY <1>4 DEF HoldersListed

(* Every step keeps the holders listed.                                    *)
LEMMA HoldersNext ==
    ASSUME TypeOK, Protocol, EntriesAreOwned, OpenHasMembers, OneTask, HoldersListed, [Next]_vars
    PROVE  HoldersListed'
<1> USE SignalAssumption
<1>0. ASSUME UNCHANGED <<rooms, curRoom, curPeer>>,
             \A k \in Conn : curRoom[k] # NoCode => owner'[k] = owner[k],
             \A k \in Conn : handler[k] = "run" => handler'[k] = "run"
      PROVE  HoldersListed'
    BY <1>0 DEF HoldersListed
<1>1. ASSUME NEW k \in Conn, NEW r \in Code, HandleCreate(k, r) PROVE HoldersListed'
  <2>1. Receive(k, "create") /\ r \notin open /\ handler[k] = "run" /\ UNCHANGED <<owner, handler>>
    BY <1>1 DEF HandleCreate, Receive, clientVars
  <2>2. owner[k] \in Client
    BY <2>1, ReceivedRequest DEF Protocol
  <2>3. /\ \A q \in Code, d \in Client :
              rooms'[q][d] = IF q = r THEN (IF d = owner[k] THEN k ELSE NoConn) ELSE rooms[q][d]
        /\ \A j \in Conn : curRoom'[j] = IF j = k THEN r ELSE curRoom[j]
        /\ \A j \in Conn : curPeer'[j] = IF j = k THEN owner[k] ELSE curPeer[j]
    BY <1>1 DEF HandleCreate, TypeOK
  <2>4. ASSUME NEW j \in Conn \ {k}, curRoom[j] # NoCode
        PROVE  curRoom[j] \in Code /\ curRoom[j] # r /\ owner[j] \in Client
    <3>1. curRoom[j] \in Code /\ owner[j] \in Client /\ rooms[curRoom[j]][owner[j]] = j
      BY <2>4 DEF TypeOK, Protocol, Talk, Named, HoldersListed
    <3> QED
      BY <2>1, <3>1 DEF OpenHasMembers
  <2> QED
    BY <2>1, <2>2, <2>3, <2>4 DEF HoldersListed
<1>2. ASSUME NEW k \in Conn, HandleJoin(k) PROVE HoldersListed'
  <2> DEFINE r == Head(inbox[k]).room
  <2>1. /\ Receive(k, "join") /\ r \in Code /\ handler[k] = "run" /\ UNCHANGED <<owner, handler>>
    BY <1>2, Messages DEF HandleJoin, Receive, TypeOK, clientVars
  <2>2. owner[k] \in Client
    BY <2>1, ReceivedRequest DEF Protocol
  <2>3. /\ \A q \in Code, d \in Client :
              rooms'[q][d] = IF q = r /\ d = owner[k] THEN k ELSE rooms[q][d]
        /\ \A j \in Conn : curRoom'[j] = IF j = k THEN r ELSE curRoom[j]
        /\ \A j \in Conn : curPeer'[j] = IF j = k THEN owner[k] ELSE curPeer[j]
    BY <1>2, <2>1, <2>2 DEF HandleJoin, TypeOK
  <2> HIDE DEF r
  <2>4. ASSUME NEW j \in Conn \ {k}, curRoom[j] # NoCode
        PROVE  curRoom[j] \in Code /\ owner[j] # owner[k] /\ owner[j] \in Client
    BY <2>1, <2>4 DEF TypeOK, Protocol, Talk, Named, HoldersListed, OneTask
  <2> QED
    BY <2>1, <2>2, <2>3, <2>4 DEF HoldersListed
<1>3. ASSUME NEW k \in Conn, HandleJoinUnknown(k) PROVE HoldersListed'
    BY <1>0, <1>3 DEF HandleJoinUnknown, Receive, serverVars, clientVars
<1>4. ASSUME NEW k \in Conn, HandleLeave(k) PROVE HoldersListed'
  <2>1. Receive(k, "leave") /\ Forget(k) /\ UNCHANGED <<handler, owner>>
    BY <1>4 DEF HandleLeave, Receive, clientVars
  <2>2. Head(inbox[k]).room = curRoom[k] /\ curRoom[k] \in Code
    BY <2>1, ReceivedLast DEF Protocol
  <2>3. curRoom[k] # NoCode /\ curPeer[k] # NoClient
    BY <2>2 DEF Protocol, Talk, Named
  <2>4. RemovePeerFromRoom(curRoom[k], curPeer[k])
    BY <1>4, <2>2, <2>3 DEF HandleLeave
  <2> QED
    BY <2>1, <2>3, <2>4, HoldersRemoval
<1>5. ASSUME NEW k \in Conn, HandleClose(k) PROVE HoldersListed'
  <2>1. /\ Forget(k) /\ UNCHANGED owner /\ \A j \in Conn \ {k} : handler'[j] = handler[j]
    BY <1>5 DEF HandleClose, Receive, clientVars, TypeOK
  <2>2. CASE curRoom[k] # NoCode
    BY <1>5, <2>1, <2>2, HoldersRemoval DEF HandleClose
  <2>3. CASE curRoom[k] = NoCode
    <3>1. UNCHANGED rooms
      BY <1>5, <2>3 DEF HandleClose
    <3> QED
      BY <2>1, <2>3, <3>1 DEF HoldersListed, Forget, TypeOK
  <2> QED
    BY <2>2, <2>3
<1>6. ASSUME NEW k \in Conn, NEW c \in Client, NEW m, Ask(k, c, m) PROVE HoldersListed'
  <2>1. curRoom[k] = NoCode
    BY <1>6 DEF Ask, Protocol, Talk, NothingAsked
  <2>2. /\ UNCHANGED <<rooms, curRoom, curPeer>>
        /\ \A j \in Conn \ {k} : owner'[j] = owner[j]
        /\ \A j \in Conn : handler[j] = "run" => handler'[j] = "run"
    BY <1>6 DEF Ask, TypeOK
  <2> QED
    BY <1>0, <2>1, <2>2
<1>7. ASSUME NEW k \in Conn, ReadCreated(k) \/ ReadJoined(k) \/ ReadError(k)
                              \/ ReadPeerJoined(k) \/ ReadPeerLeft(k)
      PROVE  UNCHANGED <<owner, serverVars>>
    BY <1>7 DEF ReadCreated, ReadJoined, ReadError, ReadPeerJoined, ReadPeerLeft, Read
<1>8. ASSUME NEW k \in Conn, LeaveRoom(k) \/ SendLeave(k) \/ Lose(k)
      PROVE  UNCHANGED <<owner, serverVars>>
    BY <1>8 DEF LeaveRoom, SendLeave, Lose
<1>9. CASE UNCHANGED <<owner, serverVars>>
    BY <1>0, <1>9 DEF serverVars
<1>10. CASE UNCHANGED vars
    BY <1>9, <1>10 DEF vars, serverVars
<1>11. ASSUME NEW k \in Conn, ClientNext(k) PROVE HoldersListed'
    BY <1>6, <1>7, <1>8, <1>9, <1>11 DEF ClientNext, AskCreate, AskJoin
<1> QED
    BY <1>1, <1>2, <1>3, <1>4, <1>5, <1>10, <1>11 DEF Next, Handle

(* main.rs:6 holds of clients that take turns: whoever joined a room is    *)
(* listed in it until it leaves (handle_socket, remove_peer_from_room).    *)
THEOREM JoinedStaysListed == Spec /\ [][TakesTurn]_vars => []JoinedIsListed
<1>1. Init => OneTask /\ HoldersListed
    BY DEF Init, OneTask, HoldersListed
<1>2. TypeOK /\ Protocol /\ HoldersListed => JoinedIsListed
    BY SignalAssumption DEF JoinedIsListed, HoldersListed, Protocol, Talk, InRoom
<1>3. TypeOK /\ Protocol /\ EntriesAreOwned /\ OpenHasMembers /\ OneTask /\ HoldersListed
          /\ [Next]_vars /\ [TakesTurn]_vars => OneTask' /\ HoldersListed'
  <2>1. [Next]_vars /\ [TakesTurn]_vars => [Next /\ TakesTurn]_vars
    OBVIOUS
  <2> QED
    BY <2>1, OneTaskNext, HoldersNext
<1> QED
    BY <1>1, <1>2, <1>3, TypedProtocol, MapSpec, PTL DEF Spec

(* Nor does such a server hand out a code that a task still speaks for,    *)
(* and what a listener that has read everything shows is its room.         *)
NoStaleTask == \A k \in Conn : curRoom[k] # NoCode => curRoom[k] \in open

ShowsItsRoom ==
    \A k \in Conn : stage[k] = "in" /\ outbox[k] = <<>> =>
        view[k] \ {owner[k]} = Members(code[k]) \ {owner[k]}

(* With clients that take turns a listener is never left with a roster     *)
(* that is not its room's (run_listener), and no code is free, for Create  *)
(* to give to others, that a task will still remove its peer from          *)
(* (handle_socket, remove_peer_from_room).                                 *)
THEOREM TurnsKeepRoomsApart == Spec /\ [][TakesTurn]_vars => [](NoStaleTask /\ ShowsItsRoom)
<1>1. Init => OneTask /\ HoldersListed
    BY DEF Init, OneTask, HoldersListed
<1>2. TypeOK /\ Protocol /\ EntriesAreOwned /\ OpenHasMembers /\ OneTask /\ HoldersListed
          /\ [Next]_vars /\ [TakesTurn]_vars => OneTask' /\ HoldersListed'
  <2>1. [Next]_vars /\ [TakesTurn]_vars => [Next /\ TakesTurn]_vars
    OBVIOUS
  <2> QED
    BY <2>1, OneTaskNext, HoldersNext
<1>3. TypeOK /\ Protocol /\ OpenHasMembers /\ HoldersListed => NoStaleTask
  <2> SUFFICES ASSUME TypeOK, Protocol, OpenHasMembers, HoldersListed,
                      NEW k \in Conn, curRoom[k] # NoCode
               PROVE  curRoom[k] \in open
    BY DEF NoStaleTask
  <2>1. curRoom[k] \in Code /\ owner[k] \in Client
    BY DEF TypeOK, Protocol, Talk, Named, HoldersListed
  <2>2. rooms[curRoom[k]][owner[k]] # NoConn
    BY SignalAssumption DEF HoldersListed
  <2> QED
    BY <2>1, <2>2 DEF OpenHasMembers
<1>4. TypeOK /\ Protocol /\ HoldersListed /\ ViewsConverge => ShowsItsRoom
  <2> SUFFICES ASSUME TypeOK, Protocol, HoldersListed, ViewsConverge,
                      NEW k \in Conn, stage[k] = "in", outbox[k] = <<>>
               PROVE  view[k] \ {owner[k]} = Members(code[k]) \ {owner[k]}
    BY DEF ShowsItsRoom
  <2>1. code[k] \in Code /\ owner[k] \in Client
    BY DEF Protocol, Talk, InRoom, Opened
  <2>2. rooms[code[k]][owner[k]] = k
    BY <2>1, SignalAssumption DEF HoldersListed, Protocol, Talk, InRoom
  <2> QED
    BY <2>1, <2>2 DEF ViewsConverge
<1> QED
    BY <1>1, <1>2, <1>3, <1>4, TypedProtocol, MapSpec, RegisteredViewsConverge, PTL DEF Spec
=============================================================================
