------------------------- MODULE DirectCall_proofs -------------------------
(***************************************************************************)
(* Proofs about DirectCall, for any number of clients and connections.     *)
(* Roles are fixed by the two uuids: an end that waits for an answer is    *)
(* owned by the larger, one that waits for an offer by the smaller.  What  *)
(* a client shows has an end of its own behind it that can still change it.*)
(***************************************************************************)
EXTENDS DirectCall, SequenceTheorems, TLAPS

Frame == {"id", "offer", "answer"}

(* The variables, and what an end that is in use belongs to.               *)
Types ==
    /\ state \in [Client -> {"idle", "connecting", "connected"}]
    /\ active \in [Client -> End \cup {None}]
    /\ owner \in [End -> Client \cup {None}]
    /\ at \in [End -> Place]
    /\ linked \subseteq End
    /\ \A x \in End : at[x] # "none" => owner[x] \in Client /\ owner[Other(x)] \in Client
    /\ \A k \in Conn : at[<<k, "dial">>] = "none" => at[<<k, "accept">>] = "none"

Wires == wire \in [End -> Seq(Frame)]

Roles ==
    \A x \in End :
        /\ at[x] = "answer" => owner[x] > owner[Other(x)]
        /\ at[x] = "offer" => owner[Other(x)] > owner[x]
        /\ at[x] = "ready" => owner[x] # owner[Other(x)]

CallInv == Types /\ Wires /\ Roles

LEMMA Ends ==
  ASSUME NEW x \in End
  PROVE  /\ Other(x) \in End /\ Other(x) # x /\ Other(Other(x)) = x
         /\ x[1] \in Conn
         /\ x = <<x[1], "dial">> \/ x = <<x[1], "accept">>
<1>1. PICK k \in Conn, w \in {"dial", "accept"} : x = <<k, w>>
  BY DEF End
<1>2. CASE w = "dial"
  BY <1>1, <1>2 DEF End, Other
<1>3. CASE w = "accept"
  BY <1>1, <1>3 DEF End, Other
<1> QED
  BY <1>1, <1>2, <1>3

-----------------------------------------------------------------------------
(* Streams carry frames.                                                   *)
LEMMA TransferType ==
  ASSUME Wires, NEW x \in End, NEW n \in {0, 1}, NEW q \in Seq(Frame), Transfer(x, n, q),
         n <= Len(wire[x])
  PROVE  Wires'
<1>1. Other(x) \in End /\ Other(x) # x
  BY Ends
<1>2. wire[x] \in Seq(Frame) /\ wire[Other(x)] \in Seq(Frame)
  BY <1>1 DEF Wires
<1>3. SubSeq(wire[x], n + 1, Len(wire[x])) \in Seq(Frame)
  <2>1. n + 1 \in Int /\ Len(wire[x]) \in Int
        /\ \A i \in n + 1 .. Len(wire[x]) : wire[x][i] \in Frame
    BY <1>2
  <2> QED
    BY <2>1, SubSeqProperties
<1>4. wire[Other(x)] \o q \in Seq(Frame) /\ <<>> \in Seq(Frame)
  BY <1>2, ConcatProperties, EmptySeq
<1> QED
  BY <1>1, <1>3, <1>4 DEF Wires, Transfer

LEMMA WireStep == CallInv /\ [Next]_vars => Wires'
<1> SUFFICES ASSUME CallInv, [Next]_vars PROVE Wires'
  OBVIOUS
<1>h. Wires
  BY DEF CallInv
<1>q. <<>> \in Seq(Frame) /\ <<"id">> \in Seq(Frame) /\ <<"offer">> \in Seq(Frame)
      /\ <<"answer">> \in Seq(Frame)
  BY DEF Frame
<1>l. ASSUME NEW x \in End PROVE Len(wire[x]) \in Nat /\ (wire[x] # <<>> => 1 <= Len(wire[x]))
  <2>1. wire[x] \in Seq(Frame)
    BY <1>h DEF Wires
  <2> QED
    BY <2>1, EmptySeq, LenProperties
<1>1. ASSUME NEW x \in End, Connect(x) \/ Accept(x) PROVE Wires'
  <2>1. 0 <= Len(wire[x]) /\ Transfer(x, 0, <<"id">>)
    BY <1>l, <1>1 DEF Connect, Accept
  <2> QED
    BY <1>h, <1>q, <2>1, TransferType
<1>2. ASSUME NEW x \in End,
             BecomeOfferer(x) \/ BecomeAnswerer(x) \/ ReadOffer(x) \/ ReadAnswer(x)
      PROVE  Wires'
  <2>1. 1 <= Len(wire[x])
    BY <1>l, <1>2 DEF BecomeOfferer, BecomeAnswerer, ReadOffer, ReadAnswer, Receive
  <2> QED
    BY <1>h, <1>q, <1>2, <2>1, TransferType
       DEF BecomeOfferer, BecomeAnswerer, ReadOffer, ReadAnswer
<1>3. ASSUME NEW x \in End, AcceptBusy(x) \/ SignalFail(x) PROVE Wires'
  <2>1. wire' = [wire EXCEPT ![x] = <<>>]
    BY <1>3 DEF AcceptBusy, SignalFail
  <2> QED
    BY <1>h, <1>q, <2>1 DEF Wires
<1>4. CASE UNCHANGED wire
  BY <1>h, <1>4 DEF Wires
<1> QED
  BY <1>1, <1>2, <1>3, <1>4
     DEF Next, FlowStep, Dial, Activate, Leave, LinkUp, DriverDisconnects, DriverFails,
         PumpDisconnected, vars

-----------------------------------------------------------------------------
(* A teardown changes the place of the session in `active` only.           *)
LEMMA TeardownMoves ==
  ASSUME Types, NEW c \in Client
  PROVE  /\ AfterTeardown(c) \in [End -> Place]
         /\ \A x \in End :
               \/ AfterTeardown(c)[x] = at[x]
               \/ at[x] = "live" /\ AfterTeardown(c)[x] = "told"
<1>1. at \in [End -> Place] /\ "told" \in Place
  BY DEF Types, Place, Running
<1>2. ASSUME NEW x \in End
      PROVE  \/ AfterTeardown(c)[x] = at[x]
             \/ at[x] = "live" /\ AfterTeardown(c)[x] = "told"
  <2>1. AfterTeardown(c)[x] = IF x = active[c] /\ at[x] = "live" THEN "told" ELSE at[x]
    BY DEF AfterTeardown
  <2> QED
    BY <2>1
<1>3. AfterTeardown(c) \in [End -> Place]
  <2>1. ASSUME NEW x \in End
        PROVE  (IF x = active[c] /\ at[x] = "live" THEN "told" ELSE at[x]) \in Place
    BY <1>1
  <2> QED
    BY <2>1 DEF AfterTeardown
<1> QED
  BY <1>2, <1>3

(* What a step does to the place of each end, and to its owner.            *)
Moved ==
    /\ at' \in [End -> Place]
    /\ owner' = owner
    /\ \A x \in End :
          /\ at[x] = "none" => at'[x] = "none" \/ (x[2] = "accept" /\ at[Other(x)] # "none")
          /\ at[x] # "none" => at'[x] # "none"
          /\ \/ at'[x] = at[x]
             \/ at'[x] \notin {"offer", "answer", "ready"}
             \/ at'[x] = "answer" /\ owner[x] > owner[Other(x)]
             \/ at'[x] = "offer" /\ ~(owner[x] > owner[Other(x)]) /\ owner[x] # owner[Other(x)]
             \/ at'[x] = "ready" /\ at[x] \in {"offer", "answer"}

LEMMA MovedKeeps ==
  ASSUME CallInv, Moved,
         state' \in [Client -> {"idle", "connecting", "connected"}],
         active' \in [Client -> End \cup {None}],
         linked' \subseteq End,
         \A x \in End : at[x] = "none" /\ at'[x] # "none" => at[Other(x)] # "none"
  PROVE  Types' /\ Roles'
<1>1. /\ Types /\ Roles /\ Client \subseteq Nat
  BY CallAssumption DEF CallInv
<1>2. ASSUME NEW x \in End, at'[x] # "none"
      PROVE  owner'[x] \in Client /\ owner'[Other(x)] \in Client
  <2>1. at[x] # "none" \/ at[Other(x)] # "none"
    BY <1>2
  <2>2. Other(x) \in End /\ Other(Other(x)) = x
    BY Ends
  <2> QED
    BY <1>1, <2>1, <2>2 DEF Types, Moved
<1>3. ASSUME NEW k \in Conn, at'[<<k, "dial">>] = "none"
      PROVE  at'[<<k, "accept">>] = "none"
  <2>1. <<k, "dial">> \in End /\ <<k, "accept">> \in End /\ Other(<<k, "accept">>) = <<k, "dial">>
    BY DEF End, Other
  <2>2. at[<<k, "dial">>] = "none"
    BY <1>3, <2>1 DEF Moved
  <2> QED
    BY <1>1, <2>1, <2>2 DEF Types, Moved
<1>4. Types'
  BY <1>1, <1>2, <1>3 DEF Types, Moved
<1>5. ASSUME NEW x \in End, at'[x] \in {"offer", "answer", "ready"}
      PROVE  /\ at'[x] = "answer" => owner'[x] > owner'[Other(x)]
             /\ at'[x] = "offer" => owner'[Other(x)] > owner'[x]
             /\ at'[x] = "ready" => owner'[x] # owner'[Other(x)]
  <2>1. owner[x] \in Nat /\ owner[Other(x)] \in Nat /\ owner' = owner
    BY <1>1, <1>2, <1>5 DEF Moved
  <2> QED
    BY <1>1, <1>5, <2>1 DEF Roles, Moved
<1> QED
  BY <1>4, <1>5 DEF Roles

LEMMA StepKeeps == CallInv /\ [Next]_vars => Types' /\ Roles'
<1> SUFFICES ASSUME CallInv, [Next]_vars PROVE Types' /\ Roles'
  OBVIOUS
<1>h. Types /\ Roles /\ Client \subseteq Nat
  BY CallAssumption DEF CallInv
<1>1. ASSUME NEW c \in Client, NEW d \in Client, NEW k \in Conn, Dial(c, k, d)
      PROVE  Types' /\ Roles'
  <2> DEFINE x == <<k, "dial">>
  <2>1. /\ x \in End /\ Other(x) \in End /\ Other(x) # x /\ Other(x) = <<k, "accept">>
        /\ at[x] = "none" /\ at[Other(x)] = "none"
    BY <1>1, <1>h DEF Dial, End, Other, Types
  <2>2. /\ owner' = [owner EXCEPT ![x] = c, ![Other(x)] = d]
        /\ at' = [at EXCEPT ![x] = "dialing"]
        /\ state' = [state EXCEPT ![c] = "connecting"] /\ UNCHANGED <<active, linked>>
    BY <1>1 DEF Dial, Enter
  <2> HIDE DEF x
  <2>3. ASSUME NEW y \in End
        PROVE  /\ at'[y] = IF y = x THEN "dialing" ELSE at[y]
               /\ y # x /\ y # Other(x) =>
                     owner'[y] = owner[y] /\ owner'[Other(y)] = owner[Other(y)]
               /\ at'[y] # "none" => owner'[y] \in Client /\ owner'[Other(y)] \in Client
    <3>1. Other(y) \in End /\ Other(Other(y)) = y
      BY Ends
    <3>2. Other(Other(x)) = x
      BY <2>1, Ends
    <3>3. owner'[x] = c /\ owner'[Other(x)] = d
      BY <1>h, <2>1, <2>2 DEF Types
    <3> QED
      BY <1>h, <2>1, <2>2, <3>1, <3>2, <3>3 DEF Types
  <2>4. ASSUME NEW j \in Conn, at'[<<j, "dial">>] = "none" PROVE at'[<<j, "accept">>] = "none"
    <3>1. <<j, "dial">> \in End /\ <<j, "accept">> \in End /\ <<j, "accept">> # x
      BY DEF End, x
    <3>2. at[<<j, "dial">>] = "none"
      BY <2>1, <2>3, <2>4, <3>1
    <3> QED
      BY <1>h, <2>3, <3>1, <3>2 DEF Types
  <2>5. at' \in [End -> Place] /\ owner' \in [End -> Client \cup {None}]
    BY <1>h, <2>2 DEF Types, Place, Handshake
  <2>6. Types'
    BY <1>h, <2>2, <2>3, <2>4, <2>5 DEF Types
  <2>7. Roles'
    BY <1>h, <2>1, <2>3 DEF Roles
  <2> QED
    BY <2>6, <2>7
<1>2. ASSUME NEW x \in End, FlowStep(x) \/ LinkUp(x) \/ DriverDisconnects(x)
                             \/ DriverFails(x) \/ PumpDisconnected(x)
      PROVE  Types' /\ Roles'
  <2>0. /\ Other(x) \in End /\ Other(x) # x /\ Other(Other(x)) = x
        /\ at \in [End -> Place] /\ (at[x] # "none" => owner[x] \in Client)
    BY <1>h, Ends DEF Types
  <2>1. CASE Connect(x)
    <3>1. at' = [at EXCEPT ![x] = "hello", ![Other(x)] = "queued"] /\ at[x] = "dialing"
          /\ UNCHANGED <<state, active, owner, linked>>
      BY <2>1 DEF Connect
    <3>2. at[Other(x)] = "none" => Other(x)[2] = "accept"
      <4>1. CASE x = <<x[1], "dial">>
        BY <4>1 DEF Other
      <4>2. CASE x = <<x[1], "accept">>
        <5>1. Other(x) = <<x[1], "dial">> /\ x[1] \in Conn
          BY <4>2, Ends DEF Other
        <5> QED
          BY <1>h, <3>1, <4>2, <5>1 DEF Types
      <4> QED
        BY <4>1, <4>2, Ends
    <3>3. Moved
      BY <2>0, <3>1, <3>2 DEF Moved, Place, Handshake
    <3> QED
      BY <1>h, <2>0, <3>1, <3>3, MovedKeeps DEF Types
  <2>2. CASE Accept(x) \/ AcceptBusy(x) \/ Activate(x) \/ BecomeOfferer(x) \/ BecomeAnswerer(x)
             \/ ReadOffer(x) \/ ReadAnswer(x) \/ DriverDisconnects(x) \/ DriverFails(x)
    <3>1. PICK q \in Place :
             /\ at' = [at EXCEPT ![x] = q] /\ at[x] # "none" /\ q # "none"
             /\ \/ q \notin {"offer", "answer", "ready"}
                \/ q = "answer" /\ owner[x] > owner[Other(x)]
                \/ q = "offer" /\ ~(owner[x] > owner[Other(x)]) /\ owner[x] # owner[Other(x)]
                \/ q = "ready" /\ at[x] \in {"offer", "answer"}
      BY <2>2 DEF Accept, AcceptBusy, Activate, BecomeOfferer, BecomeAnswerer, ReadOffer,
                  ReadAnswer, DriverDisconnects, DriverFails, Place, Handshake, Running, Offers
    <3>2. UNCHANGED owner
      BY <2>2 DEF Accept, AcceptBusy, Activate, BecomeOfferer, BecomeAnswerer, ReadOffer,
                  ReadAnswer, DriverDisconnects, DriverFails
    <3>3. /\ state' \in [Client -> {"idle", "connecting", "connected"}]
          /\ active' \in [Client -> End \cup {None}]
          /\ linked' \subseteq End
      BY <1>h, <2>2 DEF Types, Enter, Accept, AcceptBusy, Activate, BecomeOfferer,
                        BecomeAnswerer, ReadOffer, ReadAnswer, DriverDisconnects, DriverFails
    <3>4. Moved /\ \A y \in End : at[y] = "none" => at'[y] = "none"
      BY <2>0, <3>1, <3>2 DEF Moved
    <3> QED
      BY <3>3, <3>4, MovedKeeps
  <2>3. CASE LinkUp(x)
    <3>1. UNCHANGED <<at, owner, active>> /\ linked' \subseteq End
          /\ state' \in [Client -> {"idle", "connecting", "connected"}]
      BY <1>h, <2>3 DEF LinkUp, Types, Enter
    <3>2. Moved
      BY <2>0, <3>1 DEF Moved
    <3> QED
      BY <1>h, <3>1, <3>2, MovedKeeps DEF Types
  <2>4. CASE SignalFail(x) \/ PumpDisconnected(x)
    <3>1. /\ at' = [AfterTeardown(owner[x]) EXCEPT ![x] = "gone"]
          /\ at[x] # "none" /\ Teardown(owner[x]) /\ UNCHANGED <<owner, linked>>
      BY <2>4 DEF SignalFail, PumpDisconnected, Handshake
    <3>2. Moved /\ \A y \in End : at[y] = "none" => at'[y] = "none"
      BY <1>h, <2>0, <3>1, TeardownMoves DEF Moved, Place
    <3> QED
      BY <1>h, <3>1, <3>2, MovedKeeps DEF Types, Teardown, Enter
  <2> QED
    BY <1>2, <2>1, <2>2, <2>3, <2>4 DEF FlowStep
<1>3. ASSUME NEW c \in Client, Leave(c) PROVE Types' /\ Roles'
  <2>1. at' = AfterTeardown(c) /\ Teardown(c) /\ UNCHANGED <<owner, linked>>
    BY <1>3 DEF Leave
  <2>2. Moved /\ \A y \in End : at[y] = "none" => at'[y] = "none"
    BY <1>h, <2>1, TeardownMoves DEF Moved
  <2> QED
    BY <1>h, <2>1, <2>2, MovedKeeps DEF Types, Teardown, Enter
<1>4. CASE UNCHANGED vars
  BY <1>h, <1>4 DEF vars, Types, Roles
<1> QED
  BY <1>1, <1>2, <1>3, <1>4 DEF Next

LEMMA InitCall == Init => CallInv
<1> SUFFICES ASSUME Init PROVE CallInv
  OBVIOUS
<1>1. Types
  BY DEF Init, Types, Place, End
<1>2. Wires
  BY EmptySeq DEF Init, Wires
<1>3. Roles
  BY DEF Init, Roles
<1> QED
  BY <1>1, <1>2, <1>3 DEF CallInv

LEMMA CallInvHolds == Spec => []CallInv
<1>1. CallInv /\ [Next]_vars => CallInv'
  BY StepKeeps, WireStep DEF CallInv
<1> QED
  BY <1>1, InitCall, PTL DEF Spec

(* The rooms, ends and streams keep their types: in particular a teardown  *)
(* disconnects only a session there is.                                    *)
THEOREM TypeCorrect == Spec => []TypeOK
<1>1. CallInv => TypeOK
  BY DEF CallInv, Types, Wires, Frame, TypeOK
<1> QED
  BY <1>1, CallInvHolds, PTL

(* The role rule of exchange_identities: whoever dialled, the two ends of  *)
(* a stream never both wait for an offer or both for an answer.            *)
THEOREM AgreedRolesHold == Spec => []AgreedRoles
<1>1. CallInv => AgreedRoles
  <2> SUFFICES ASSUME CallInv, NEW x \in End
               PROVE  /\ ~(at[x] = "offer" /\ at[Other(x)] = "offer")
                      /\ ~(at[x] = "answer" /\ at[Other(x)] = "answer")
                      /\ at[x] = "ready" /\ at[Other(x)] = "ready"
                            => owner[x] # owner[Other(x)]
    BY DEF AgreedRoles
  <2>1. Other(x) \in End /\ Other(Other(x)) = x
    BY Ends
  <2>2. at[x] # "none" => owner[x] \in Nat /\ owner[Other(x)] \in Nat
    BY CallAssumption DEF CallInv, Types
  <2> QED
    BY <2>1, <2>2 DEF CallInv, Roles
<1> QED
  BY <1>1, CallInvHolds, PTL

-----------------------------------------------------------------------------
(* What a client shows, and what stands behind it: an end of its own that  *)
(* can still change it.                                                    *)
Waits == Handshake \ {"queued"}

ConnectingIsOwned ==
    \A c \in Client : state[c] = "connecting" => \E x \in End : owner[x] = c /\ at[x] \in Waits

ConnectedIsOwned ==
    \A c \in Client : state[c] = "connected" =>
        \E x \in End : owner[x] = c /\ at[x] \in Running \cup {"ended"}

(* The handle in `active` is of a session of this client that was not told *)
(* to disconnect and whose pump still runs.                                *)
HeldIsLive ==
    \A c \in Client : active[c] # None => owner[active[c]] = c /\ at[active[c]] \in {"live", "ended"}

(* Nobody has heard of a connection that is being dialled.                 *)
Unanswered == \A x \in End : at[x] = "dialing" => at[Other(x)] = "none"

OwnedInv == ConnectingIsOwned /\ ConnectedIsOwned /\ HeldIsLive /\ Unanswered

(* A step that moves ends within their part of the call.                   *)
LEMMA OwnedStays ==
  ASSUME Types, OwnedInv, UNCHANGED <<state, active, owner>>,
         \A x \in End : /\ at[x] \in Waits => at'[x] \in Waits
                        /\ at[x] \in Running \cup {"ended"} => at'[x] \in Running \cup {"ended"}
                        /\ at[x] \in {"live", "ended"} => at'[x] \in {"live", "ended"},
         Unanswered'
  PROVE  OwnedInv'
<1>1. ConnectingIsOwned' /\ ConnectedIsOwned'
  BY DEF OwnedInv, ConnectingIsOwned, ConnectedIsOwned
<1>2. HeldIsLive'
  BY DEF OwnedInv, HeldIsLive, Types
<1> QED
  BY <1>1, <1>2 DEF OwnedInv

(* A step that changes what client c shows: the ends of the others do not  *)
(* move, and what c shows then has an end behind it.                       *)
LEMMA OwnedMoves ==
  ASSUME Types, OwnedInv, NEW c \in Client,
         UNCHANGED owner,
         \A d \in Client \ {c} : state'[d] = state[d] /\ active'[d] = active[d],
         \A x \in End : at'[x] # at[x] => owner[x] = c,
         state'[c] = "connecting" => \E x \in End : owner[x] = c /\ at'[x] \in Waits,
         state'[c] = "connected" => \E x \in End : owner[x] = c /\ at'[x] \in Running \cup {"ended"},
         active'[c] # None => owner[active'[c]] = c /\ at'[active'[c]] \in {"live", "ended"},
         \A x \in End : at[x] = "none" => at'[x] = "none",
         \A x \in End : at'[x] = "dialing" => at[x] = "dialing"
  PROVE  OwnedInv'
<1>1. ConnectingIsOwned'
  BY DEF OwnedInv, ConnectingIsOwned
<1>2. ConnectedIsOwned'
  BY DEF OwnedInv, ConnectedIsOwned
<1>3. HeldIsLive'
  <2>1. ASSUME NEW d \in Client, active'[d] # None, d # c
        PROVE  owner'[active'[d]] = d /\ at'[active'[d]] \in {"live", "ended"}
    <3>1. active[d] \in End /\ owner[active[d]] = d /\ at[active[d]] \in {"live", "ended"}
      BY <2>1 DEF OwnedInv, HeldIsLive, Types
    <3> QED
      BY <2>1, <3>1
  <2> QED
    BY <2>1 DEF HeldIsLive
<1>4. Unanswered'
  BY Ends DEF OwnedInv, Unanswered
<1> QED
  BY <1>1, <1>2, <1>3, <1>4 DEF OwnedInv

(* A teardown touches the ends of its own client only.                     *)
LEMMA OwnedTeardown ==
  ASSUME Types, OwnedInv, NEW c \in Client, Teardown(c), UNCHANGED owner,
         \/ at' = AfterTeardown(c)
         \/ \E x \in End : /\ owner[x] = c /\ at[x] # "none"
                           /\ at' = [AfterTeardown(c) EXCEPT ![x] = "gone"]
  PROVE  OwnedInv'
<1>1. /\ state'[c] = "idle" /\ active'[c] = None
      /\ \A d \in Client \ {c} : state'[d] = state[d] /\ active'[d] = active[d]
  BY DEF Teardown, Enter, Types
<1>2. ASSUME NEW y \in End
      PROVE  \/ at'[y] = at[y]
             \/ y = active[c] /\ at[y] = "live" /\ at'[y] = "told"
             \/ owner[y] = c /\ at[y] # "none" /\ at'[y] = "gone"
  BY DEF AfterTeardown
<1>3. ASSUME NEW y \in End, at'[y] # at[y]
      PROVE  owner[y] = c /\ at[y] # "none" /\ at'[y] \in {"told", "gone"}
  <2>1. y = active[c] => owner[y] = c
    BY CallAssumption DEF OwnedInv, HeldIsLive, End
  <2> QED
    BY <1>2, <1>3, <2>1
<1> QED
  BY <1>1, <1>3, OwnedMoves

(* Every step keeps it so.                                                 *)
LEMMA OwnedNext ==
  ASSUME Types, OwnedInv, [Next]_vars
  PROVE  OwnedInv'
<1>t. /\ at \in [End -> Place] /\ owner \in [End -> Client \cup {None}]
      /\ state \in [Client -> {"idle", "connecting", "connected"}]
      /\ active \in [Client -> End \cup {None}]
      /\ \A x \in End : at[x] # "none" => owner[x] \in Client
  BY DEF Types
<1>u. Unanswered
  BY DEF OwnedInv
<1> USE DEF Waits, Handshake, Running
<1>1. ASSUME NEW c \in Client, NEW d \in Client, NEW k \in Conn, Dial(c, k, d) PROVE OwnedInv'
  <2> DEFINE x == <<k, "dial">>
  <2>1. /\ x \in End /\ Other(x) \in End /\ Other(x) # x /\ Other(Other(x)) = x
        /\ at[x] = "none" /\ at[Other(x)] = "none"
    BY <1>1 DEF Dial, End, Other, Types
  <2>2. /\ owner' = [owner EXCEPT ![x] = c, ![Other(x)] = d]
        /\ at' = [at EXCEPT ![x] = "dialing"]
        /\ state' = [state EXCEPT ![c] = "connecting"] /\ UNCHANGED active
    BY <1>1 DEF Dial, Enter
  <2> HIDE DEF x
  <2>3. /\ owner'[x] = c /\ at'[x] = "dialing" /\ at'[Other(x)] = "none"
        /\ \A y \in End : y # x /\ y # Other(x) => owner'[y] = owner[y] /\ at'[y] = at[y]
    BY <1>t, <2>1, <2>2
  <2>4. /\ state'[c] = "connecting"
        /\ \A e \in Client \ {c} : state'[e] = state[e]
    BY <1>t, <2>2
  <2>5. ConnectingIsOwned'
    BY <2>1, <2>3, <2>4 DEF OwnedInv, ConnectingIsOwned
  <2>6. ConnectedIsOwned'
    BY <2>1, <2>3, <2>4 DEF OwnedInv, ConnectedIsOwned
  <2>7. HeldIsLive'
    <3>1. ASSUME NEW e \in Client, active[e] # None
          PROVE  /\ active[e] \in End /\ active[e] # x /\ active[e] # Other(x)
                 /\ owner[active[e]] = e /\ at[active[e]] \in {"live", "ended"}
      BY <1>t, <2>1, <3>1 DEF OwnedInv, HeldIsLive
    <3>2. ASSUME NEW e \in Client, active'[e] # None
          PROVE  owner'[active'[e]] = e /\ at'[active'[e]] \in {"live", "ended"}
      <4>1. active'[e] = active[e]
        BY <2>2
      <4>2. owner'[active[e]] = owner[active[e]] /\ at'[active[e]] = at[active[e]]
        BY <2>3, <3>1, <3>2, <4>1
      <4> QED
        BY <3>1, <3>2, <4>1, <4>2
    <3> QED
      BY <3>2 DEF HeldIsLive
  <2>8. Unanswered'
    <3>1. ASSUME NEW y \in End, at'[y] = "dialing" PROVE at'[Other(y)] = "none"
      <4>1. CASE y = x
        BY <2>3, <4>1
      <4>2. CASE y # x
        <5>1. y # Other(x) /\ Other(y) # x /\ at[y] = "dialing" /\ Other(y) \in End
              /\ Other(y) # Other(x)
          BY <2>1, <2>3, <3>1, <4>2, Ends
        <5> QED
          BY <1>u, <2>3, <5>1 DEF Unanswered
      <4> QED
        BY <4>1, <4>2
    <3> QED
      BY <3>1 DEF Unanswered
  <2> QED
    BY <2>5, <2>6, <2>7, <2>8 DEF OwnedInv
<1>2. ASSUME NEW x \in End, Connect(x) PROVE OwnedInv'
  <2>1. /\ Other(x) \in End /\ Other(x) # x /\ Other(Other(x)) = x
        /\ at[x] = "dialing" /\ at[Other(x)] = "none"
        /\ at' = [at EXCEPT ![x] = "hello", ![Other(x)] = "queued"]
        /\ UNCHANGED <<state, active, owner>>
    BY <1>2, <1>u, Ends DEF Connect, Unanswered
  <2>2. /\ at'[x] = "hello" /\ at'[Other(x)] = "queued"
        /\ \A y \in End : y # x /\ y # Other(x) => at'[y] = at[y]
    BY <1>t, <2>1
  <2>3. Unanswered'
    BY <1>u, <2>1, <2>2, Ends DEF Unanswered
  <2> QED
    BY <2>1, <2>2, <2>3, OwnedStays
<1>3. ASSUME NEW x \in End, \/ AcceptBusy(x) \/ BecomeOfferer(x) \/ BecomeAnswerer(x)
                            \/ ReadOffer(x) \/ ReadAnswer(x)
                            \/ DriverDisconnects(x) \/ DriverFails(x)
      PROVE  OwnedInv'
  <2>1. PICK q \in {"gone", "answer", "offer", "ready", "ended"} :
           /\ at' = [at EXCEPT ![x] = q]
           /\ \/ at[x] = "queued" /\ q = "gone"
              \/ at[x] \in {"hello", "offer", "answer"} /\ q \in {"answer", "offer", "ready"}
              \/ at[x] \in Running /\ q = "ended"
           /\ UNCHANGED <<state, active, owner>>
    BY <1>3 DEF AcceptBusy, BecomeOfferer, BecomeAnswerer, ReadOffer, ReadAnswer,
                DriverDisconnects, DriverFails
  <2>2. at'[x] = q /\ \A y \in End \ {x} : at'[y] = at[y]
    BY <1>t, <2>1
  <2>3. Unanswered'
    BY <1>u, <2>1, <2>2, Ends DEF Unanswered
  <2> QED
    BY <2>1, <2>2, <2>3, OwnedStays
<1>4. ASSUME NEW x \in End, Accept(x) \/ Activate(x) \/ LinkUp(x) PROVE OwnedInv'
  <2> DEFINE c == owner[x]
  <2>1. at[x] # "none" /\ c \in Client /\ UNCHANGED owner
    BY <1>4, <1>t DEF Accept, Activate, LinkUp
  <2>2. PICK q \in {"hello", "live", "told"} :
           /\ at'[x] = q /\ \A y \in End \ {x} : at'[y] = at[y]
           /\ \/ state'[c] = "connecting" /\ q = "hello" /\ at[x] = "queued"
              \/ state'[c] = "connected" /\ q \in Running
    BY <1>4, <1>t, <2>1 DEF Accept, Activate, LinkUp, Enter
  <2>3. /\ \A d \in Client \ {c} : state'[d] = state[d] /\ active'[d] = active[d]
    BY <1>4, <1>t, <2>1 DEF Accept, Activate, LinkUp, Enter
  <2>4. active'[c] # None => owner[active'[c]] = c /\ at'[active'[c]] \in {"live", "ended"}
    <3>1. CASE Activate(x)
      BY <1>t, <2>1, <3>1 DEF Activate
    <3>2. CASE Accept(x) \/ LinkUp(x)
      <4>1. UNCHANGED active /\ \/ at[x] = "queued"
                                \/ at'[x] = at[x]
        BY <1>4, <3>2 DEF Accept, LinkUp
      <4>2. active[c] # None =>
               active[c] \in End /\ owner[active[c]] = c /\ at[active[c]] \in {"live", "ended"}
        BY <1>t, <2>1 DEF OwnedInv, HeldIsLive
      <4> QED
        BY <2>2, <4>1, <4>2
    <3> QED
      BY <1>4, <3>1, <3>2
  <2> HIDE DEF c
  <2>5. owner[x] = c
    BY DEF c
  <2> QED
    BY <2>1, <2>2, <2>3, <2>4, <2>5, OwnedMoves
<1>5. ASSUME NEW x \in End, SignalFail(x) \/ PumpDisconnected(x) PROVE OwnedInv'
  <2>1. /\ at[x] # "none" /\ Teardown(owner[x]) /\ UNCHANGED owner
        /\ at' = [AfterTeardown(owner[x]) EXCEPT ![x] = "gone"]
    BY <1>5 DEF SignalFail, PumpDisconnected
  <2> QED
    BY <1>t, <2>1, OwnedTeardown
<1>6. ASSUME NEW c \in Client, Leave(c) PROVE OwnedInv'
    BY <1>6, OwnedTeardown DEF Leave
<1>7. CASE UNCHANGED vars
  BY <1>7 DEF vars, OwnedInv, ConnectingIsOwned, ConnectedIsOwned, HeldIsLive, Unanswered
<1> QED
  BY <1>1, <1>2, <1>3, <1>4, <1>5, <1>6, <1>7 DEF Next, FlowStep

(* A client shows Connecting or Connected only while an end of its own is  *)
(* there to end that state, and holds the handle of a session whose pump   *)
(* will take it away: the safety half of NothingHangs, for any number of   *)
(* clients dialling one another (run_connect_direct, run_accept_direct,    *)
(* fail, activate_session, spawn_transport_pump).                          *)
THEOREM NobodyIsStranded == Spec => [](ConnectingIsOwned /\ ConnectedIsOwned /\ HeldIsLive)
<1>1. Init => OwnedInv
  BY DEF Init, OwnedInv, ConnectingIsOwned, ConnectedIsOwned, HeldIsLive, Unanswered
<1>2. CallInv /\ OwnedInv /\ [Next]_vars => OwnedInv'
  BY OwnedNext DEF CallInv
<1>3. OwnedInv => ConnectingIsOwned /\ ConnectedIsOwned /\ HeldIsLive
  BY DEF OwnedInv
<1> QED
  BY <1>1, <1>2, <1>3, CallInvHolds, PTL DEF Spec
=============================================================================
