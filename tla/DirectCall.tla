----------------------------- MODULE DirectCall -----------------------------
(***************************************************************************)
(* Direct calls between clients, without a server: one dials the signalling*)
(* port of another, both exchange identities and SDP over that TCP stream, *)
(* and go live (crates/verio-discovery/src/lib.rs, run_signaling_session   *)
(* and its callers in crates/verio-app/src/room.rs).                       *)
(* A connection has two ends, <<k, "dial">> and <<k, "accept">>: each is   *)
(* first a flow thread, then a transport driver with its event pump.       *)
(* Clients are numbers, their numbers the uuids.  Peer cards and the other *)
(* flows are RoomSession's; ICE, DTLS and SCTP are the library's.          *)
(***************************************************************************)
EXTENDS Naturals, Sequences

CONSTANTS Client,  \* numbers, ordered as uuids are
          Conn,    \* TCP connections, used once each and in the order of their numbers
          None

ASSUME CallAssumption ==
    /\ Client \subseteq Nat /\ Conn \subseteq Nat
    /\ None \notin Client /\ None \notin Conn \X {"dial", "accept"}

End == Conn \X {"dial", "accept"}
Other(x) == <<x[1], IF x[2] = "dial" THEN "accept" ELSE "dial">>

VARIABLES
    state,    \* per client, RoomState
    active,   \* per client, the end whose handle `active` holds
    owner,    \* the client an end belongs to
    at,       \* how far the end is
    wire,     \* frames on their way to the end
    linked    \* the ends whose driver has seen ICE and DTLS come up

vars == <<state, active, owner, at, wire, linked>>

Handshake == {"dialing", "queued", "hello", "offer", "answer", "ready"}
Running   == {"live", "told"}   \* "told": Disconnect is in the driver's channel
Place     == {"none"} \cup Handshake \cup Running \cup {"ended", "gone"}

TypeOK ==
    /\ state \in [Client -> {"idle", "connecting", "connected"}]
    /\ active \in [Client -> End \cup {None}]
    /\ owner \in [End -> Client \cup {None}]
    /\ at \in [End -> Place]
    /\ wire \in [End -> Seq({"id", "offer", "answer"})]
    /\ linked \subseteq End

Init ==
    /\ state = [c \in Client |-> "idle"]
    /\ active = [c \in Client |-> None]
    /\ owner = [x \in End |-> None]
    /\ at = [x \in End |-> "none"]
    /\ wire = [x \in End |-> <<>>]
    /\ linked = {}

-----------------------------------------------------------------------------
IsBusy(c) == state[c] \in {"connecting", "connected"}

Enter(c, s) == state' = [state EXCEPT ![c] = s]

(* End x reads n frames of its stream and writes those of q to the other.  *)
(* What is written to an end that has dropped the stream is lost.          *)
Transfer(x, n, q) ==
    wire' = [wire EXCEPT ![x] = SubSeq(@, n + 1, Len(@)),
                         ![Other(x)] = IF at[Other(x)] = "gone" THEN <<>> ELSE @ \o q]

(* Faulty (the variants marked so only show that the properties can fail): *)
(* a handle is disconnected even when there is none.                       *)
AfterTeardownUnchecked(c) ==
    [x \in End \cup {active[c]} |-> IF x = active[c] THEN "told" ELSE at[x]]

(* What ends are at after teardown_session at c: the session held in       *)
(* `active`, if its driver runs, is told to disconnect.                    *)
AfterTeardown(c) ==
    [x \in End |-> IF x = active[c] /\ at[x] = "live" THEN "told" ELSE at[x]]

(* teardown_session and set_state(Idle).                                   *)
Teardown(c) ==
    /\ Enter(c, "idle")
    /\ active' = [active EXCEPT ![c] = None]

-----------------------------------------------------------------------------
(* run_connect_direct: refuse when busy, else dial.                        *)
Dial(c, k, d) ==
    LET x == <<k, "dial">>
    IN  /\ at[x] = "none" /\ ~IsBusy(c)
        /\ \A j \in Conn : j < k => at[<<j, "dial">>] # "none"
        /\ Enter(c, "connecting")
        /\ owner' = [owner EXCEPT ![x] = c, ![Other(x)] = d]
        /\ at' = [at EXCEPT ![x] = "dialing"]
        /\ UNCHANGED <<active, wire, linked>>

(* DirectSession::connect succeeds, the listener of the other client hands *)
(* the stream to a worker; the dialler writes its identity.                *)
Connect(x) ==
    /\ at[x] = "dialing"
    /\ at' = [at EXCEPT ![x] = "hello", ![Other(x)] = "queued"]
    /\ Transfer(x, 0, <<"id">>)
    /\ UNCHANGED <<state, active, owner, linked>>

(* run_accept_direct: drop the stream when busy, else write the identity.  *)
AcceptBusy(x) ==
    /\ at[x] = "queued" /\ IsBusy(owner[x])
    /\ at' = [at EXCEPT ![x] = "gone"]
    /\ wire' = [wire EXCEPT ![x] = <<>>]
    /\ UNCHANGED <<state, active, owner, linked>>

Accept(x) ==
    /\ at[x] = "queued" /\ ~IsBusy(owner[x])
    /\ Enter(owner[x], "connecting")
    /\ at' = [at EXCEPT ![x] = "hello"]
    /\ Transfer(x, 0, <<"id">>)
    /\ UNCHANGED <<active, owner, linked>>

(* read_frame: the next frame of the stream.                               *)
Receive(x, f) == wire[x] # <<>> /\ Head(wire[x]) = f

(* Faulty: whoever accepts waits for the offer.                            *)
OffersDialling(x) == x[2] = "dial" /\ owner[x] > owner[Other(x)]

(* exchange_identities: the larger uuid makes the offer.                   *)
Offers(x) == owner[x] > owner[Other(x)]

BecomeOfferer(x) ==
    /\ at[x] = "hello" /\ Receive(x, "id") /\ Offers(x)
    /\ at' = [at EXCEPT ![x] = "answer"]
    /\ Transfer(x, 1, <<"offer">>)
    /\ UNCHANGED <<state, active, owner, linked>>

(* With its own uuid a client refuses to go on: that is SignalFail.        *)
BecomeAnswerer(x) ==
    /\ at[x] = "hello" /\ Receive(x, "id")
    /\ ~Offers(x) /\ owner[x] # owner[Other(x)]
    /\ at' = [at EXCEPT ![x] = "offer"]
    /\ Transfer(x, 1, <<>>)
    /\ UNCHANGED <<state, active, owner, linked>>

ReadOffer(x) ==
    /\ at[x] = "offer" /\ Receive(x, "offer")
    /\ at' = [at EXCEPT ![x] = "ready"]
    /\ Transfer(x, 1, <<"answer">>)
    /\ UNCHANGED <<state, active, owner, linked>>

ReadAnswer(x) ==
    /\ at[x] = "answer" /\ Receive(x, "answer")
    /\ at' = [at EXCEPT ![x] = "ready"]
    /\ Transfer(x, 1, <<>>)
    /\ UNCHANGED <<state, active, owner, linked>>

(* Faulty: only the connect has a time-out.                                *)
SignalFailDialling(x) ==
    /\ at[x] = "dialing"
    /\ Teardown(owner[x])
    /\ at' = [AfterTeardown(owner[x]) EXCEPT ![x] = "gone"]
    /\ wire' = [wire EXCEPT ![x] = <<>>]
    /\ UNCHANGED <<owner, linked>>

(* The connect is refused or takes 5 s, a read takes 10 s or finds the     *)
(* stream closed, the session cannot be set up: fail() tears down whatever *)
(* session the client has by now.                                          *)
SignalFail(x) ==
    /\ at[x] \in Handshake \ {"queued"}
    /\ Teardown(owner[x])
    /\ at' = [AfterTeardown(owner[x]) EXCEPT ![x] = "gone"]
    /\ wire' = [wire EXCEPT ![x] = <<>>]
    /\ UNCHANGED <<owner, linked>>

(* activate_session, whatever has become of the state meanwhile.           *)
Activate(x) ==
    /\ at[x] = "ready"
    /\ Enter(owner[x], "connected")
    /\ active' = [active EXCEPT ![owner[x]] = x]
    /\ at' = [at EXCEPT ![x] = "live"]
    /\ UNCHANGED <<owner, wire, linked>>

(* The Leave command.                                                      *)
Leave(c) ==
    /\ Teardown(c)
    /\ at' = AfterTeardown(c)
    /\ UNCHANGED <<owner, wire, linked>>

-----------------------------------------------------------------------------
(* The driver of an end, and its pump.                                     *)

(* ICE and DTLS come up while the driver at the other end runs too; the    *)
(* pump makes Connected of it, even after Leave.                           *)
LinkUp(x) ==
    /\ at[x] \in Running /\ at[Other(x)] \in Running /\ x \notin linked
    /\ linked' = linked \cup {x}
    /\ Enter(owner[x], "connected")
    /\ UNCHANGED <<active, owner, at, wire>>

DriverDisconnects(x) ==
    /\ at[x] = "told"
    /\ at' = [at EXCEPT ![x] = "ended"]
    /\ linked' = linked \ {x}
    /\ UNCHANGED <<state, active, owner, wire>>

(* The remote closes the channels, ICE stays disconnected for 30 s, the    *)
(* socket fails.                                                           *)
DriverFails(x) ==
    /\ at[x] \in Running
    /\ at' = [at EXCEPT ![x] = "ended"]
    /\ linked' = linked \ {x}
    /\ UNCHANGED <<state, active, owner, wire>>

(* The Disconnected event tears down whatever session the client has.      *)
PumpDisconnected(x) ==
    /\ at[x] = "ended"
    /\ Teardown(owner[x])
    /\ at' = [AfterTeardown(owner[x]) EXCEPT ![x] = "gone"]
    /\ UNCHANGED <<owner, wire, linked>>

-----------------------------------------------------------------------------
FlowStep(x) ==
    \/ Connect(x) \/ AcceptBusy(x) \/ Accept(x)
    \/ BecomeOfferer(x) \/ BecomeAnswerer(x) \/ ReadOffer(x) \/ ReadAnswer(x)
    \/ SignalFail(x) \/ Activate(x)

Next ==
    \/ \E c, d \in Client, k \in Conn : Dial(c, k, d)
    \/ \E x \in End : FlowStep(x)
    \/ \E c \in Client : Leave(c)
    \/ \E x \in End : LinkUp(x) \/ DriverDisconnects(x) \/ DriverFails(x)
                        \/ PumpDisconnected(x)

Spec == Init /\ [][Next]_vars

(* Every blocking call of a flow has a time-out, drivers look at their     *)
(* commands every 10 ms, and ICE with nobody at the other end is given up. *)
AloneFails(x) == at[Other(x)] \notin Running /\ DriverFails(x)

FairSpec ==
    /\ Spec
    /\ \A x \in End :
          WF_vars(FlowStep(x)) /\ WF_vars(DriverDisconnects(x)) /\ WF_vars(AloneFails(x))

-----------------------------------------------------------------------------
(* The two ends of a stream never take the same part: they do not both     *)
(* wait for an offer, nor both for an answer, whoever dialled whom; and    *)
(* when both have finished, one offered and the other answered.            *)
AgreedRoles ==
    \A x \in End :
        /\ ~(at[x] = "offer" /\ at[Other(x)] = "offer")
        /\ ~(at[x] = "answer" /\ at[Other(x)] = "answer")
        /\ at[x] = "ready" /\ at[Other(x)] = "ready" => owner[x] # owner[Other(x)]

(* No flow waits for ever for a peer that was busy, dropped the stream or  *)
(* dialled at the same moment, and no end stays live when the other failed *)
(* or left.                                                                *)
NothingHangs ==
    \A x \in End :
        /\ at[x] \in Handshake ~> at[x] \notin Handshake
        /\ at[x] = "live" /\ at[Other(x)] \in {"ended", "gone"} ~> at[x] # "live"
=============================================================================
