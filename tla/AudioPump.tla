----------------------------- MODULE AudioPump -----------------------------
(***************************************************************************)
(* Outgoing voice, from the processing thread to the session's driver      *)
(* (crates/verio-app/src/room.rs, crates/verio-transport/src/lib.rs):      *)
(*   - the permanent channel net_out, which the processing thread fills    *)
(*     whether or not there is a session;                                  *)
(*   - the audio pumps, threads that look up the active handle, wait up to *)
(*     250 ms for a frame with the receiver locked, and send it to the     *)
(*     handle they looked up.  The program starts two of them:             *)
(*     RoomManager::new and the Tauri setup both call spawn_audio_pump;    *)
(*   - room flows that put a session live, replace it or drop it.          *)
(* A frame is its number in capture order.  The slot `net_out` always      *)
(* holds a receiver and RoomManager keeps a sender, so the branches for an *)
(* empty slot and for a disconnected channel are not reached.              *)
(***************************************************************************)
EXTENDS Naturals, Sequences

CONSTANTS Pump,       \* the audio pump threads
          Session,    \* transport sessions, each activated at most once
          NoSession, NoPump, Waiting,
          MaxFrames   \* bound: frames captured

ASSUME PumpAssumption ==
    /\ NoSession \notin Session /\ Waiting \notin Session /\ NoPump \notin Pump
    /\ MaxFrames \in Nat

VARIABLES
    captured,  \* frames the processing thread has put into the channel
    netOut,    \* the channel
    holder,    \* the pump that holds the lock of the receiver, or NoPump
    active,    \* the session whose handle is in `active`, or NoSession
    pump,      \* each pump's place in its loop
    handle,    \* the handle it cloned
    frame,     \* the frame it took
    queue,     \* per session, the <<u, f>> its driver was sent, in order: pump u,
               \* of which the driver knows nothing, and frame f
    \* history
    past,      \* sessions that were active
    fate,      \* the session each frame was sent to, or Waiting
    strayed    \* <<u, s>>: pump u sent to session s when s was not active any more

roomVars == <<active, past>>
vars == <<captured, netOut, holder, active, pump, handle, frame, queue, past, fate, strayed>>

Frame == 1 .. MaxFrames

TypeOK ==
    /\ captured \in 0 .. MaxFrames
    /\ netOut \in Seq(Frame)
    /\ holder \in Pump \cup {NoPump}
    /\ active \in Session \cup {NoSession} /\ past \subseteq Session
    /\ pump \in [Pump -> {"look", "lock", "recv", "send"}]
    /\ handle \in [Pump -> Session \cup {NoSession}]
    /\ frame \in [Pump -> 0 .. MaxFrames]
    /\ queue \in [Session -> Seq(Pump \X Frame)]
    /\ fate \in [1 .. captured -> Session \cup {Waiting}]
    /\ strayed \subseteq Pump \X Session

Init ==
    /\ captured = 0 /\ netOut = <<>> /\ holder = NoPump
    /\ active = NoSession /\ past = {}
    /\ pump = [u \in Pump |-> "look"]
    /\ handle = [u \in Pump |-> NoSession]
    /\ frame = [u \in Pump |-> 0]
    /\ queue = [s \in Session |-> <<>>]
    /\ fate = [f \in {} |-> Waiting]
    /\ strayed = {}

-----------------------------------------------------------------------------
(* The processing thread: every packet that passed the gate is sent to the *)
(* channel, session or not.                                                *)
Capture ==
    /\ captured < MaxFrames
    /\ captured' = captured + 1
    /\ netOut' = Append(netOut, captured + 1)
    /\ fate' = [f \in 1 .. captured + 1 |-> IF f \in 1 .. captured THEN fate[f] ELSE Waiting]
    /\ UNCHANGED <<holder, roomVars, pump, handle, frame, queue, strayed>>

(* activate_session, which may overwrite a live handle, and                *)
(* teardown_session.                                                       *)
Activate(s) ==
    /\ s # active /\ s \notin past
    /\ active' = s
    /\ past' = past \cup ({active} \ {NoSession})
    /\ UNCHANGED <<captured, netOut, holder, pump, handle, frame, queue, fate, strayed>>

Teardown ==
    /\ active # NoSession
    /\ active' = NoSession
    /\ past' = past \cup {active}
    /\ UNCHANGED <<captured, netOut, holder, pump, handle, frame, queue, fate, strayed>>

-----------------------------------------------------------------------------
(* An audio pump.                                                          *)

Goto(u, step) == pump' = [pump EXCEPT ![u] = step]

(* Faulty (the variants marked so only show that the properties can fail): *)
(* no session is not noticed.                                              *)
LookBlind(u) ==
    /\ pump[u] = "look"
    /\ handle' = [handle EXCEPT ![u] = active]
    /\ Goto(u, "lock")
    /\ UNCHANGED <<captured, netOut, holder, roomVars, frame, queue, fate, strayed>>

(* Without a session it sleeps 100 ms and looks again.                     *)
Look(u) ==
    /\ pump[u] = "look" /\ active # NoSession
    /\ handle' = [handle EXCEPT ![u] = active]
    /\ Goto(u, "lock")
    /\ UNCHANGED <<captured, netOut, holder, roomVars, frame, queue, fate, strayed>>

Lock(u) ==
    /\ pump[u] = "lock" /\ holder = NoPump
    /\ holder' = u
    /\ Goto(u, "recv")
    /\ UNCHANGED <<captured, netOut, roomVars, handle, frame, queue, fate, strayed>>

(* Faulty: the newest frame is taken.                                      *)
TakeNewest(u) ==
    /\ pump[u] = "recv" /\ netOut # <<>>
    /\ frame' = [frame EXCEPT ![u] = netOut[Len(netOut)]]
    /\ netOut' = SubSeq(netOut, 1, Len(netOut) - 1)
    /\ holder' = NoPump
    /\ Goto(u, "send")
    /\ UNCHANGED <<captured, roomVars, handle, queue, fate, strayed>>

(* recv_timeout returns a frame and the guard of the lock is dropped.      *)
Take(u) ==
    /\ pump[u] = "recv" /\ netOut # <<>>
    /\ frame' = [frame EXCEPT ![u] = Head(netOut)]
    /\ netOut' = Tail(netOut)
    /\ holder' = NoPump
    /\ Goto(u, "send")
    /\ UNCHANGED <<captured, roomVars, handle, queue, fate, strayed>>

(* Faulty: the time-out returns with the receiver still locked.            *)
TimeoutLocked(u) ==
    /\ pump[u] = "recv" /\ netOut = <<>>
    /\ handle' = [handle EXCEPT ![u] = NoSession]
    /\ Goto(u, "look")
    /\ UNCHANGED <<captured, netOut, holder, roomVars, frame, queue, fate, strayed>>

Timeout(u) ==
    /\ pump[u] = "recv" /\ netOut = <<>>
    /\ holder' = NoPump
    /\ handle' = [handle EXCEPT ![u] = NoSession]
    /\ Goto(u, "look")
    /\ UNCHANGED <<captured, netOut, roomVars, frame, queue, fate, strayed>>

(* Faulty: the handle is looked up once and kept.                          *)
SendKeeping(u) ==
    /\ pump[u] = "send"
    /\ queue' = [queue EXCEPT ![handle[u]] = Append(@, <<u, frame[u]>>)]
    /\ fate' = [fate EXCEPT ![frame[u]] = handle[u]]
    /\ strayed' = IF handle[u] = active THEN strayed ELSE strayed \cup {<<u, handle[u]>>}
    /\ frame' = [frame EXCEPT ![u] = 0]
    /\ Goto(u, "lock")
    /\ UNCHANGED <<captured, netOut, holder, roomVars, handle>>

(* handle.send_audio: into the driver's channel, whose messages a driver   *)
(* that has ended does not read any more.                                  *)
Send(u) ==
    /\ pump[u] = "send"
    /\ queue' = [queue EXCEPT ![handle[u]] = Append(@, <<u, frame[u]>>)]
    /\ fate' = [fate EXCEPT ![frame[u]] = handle[u]]
    /\ strayed' = IF handle[u] = active THEN strayed ELSE strayed \cup {<<u, handle[u]>>}
    /\ handle' = [handle EXCEPT ![u] = NoSession]
    /\ frame' = [frame EXCEPT ![u] = 0]
    /\ Goto(u, "look")
    /\ UNCHANGED <<captured, netOut, holder, roomVars>>

PumpStep(u) == Look(u) \/ Lock(u) \/ Take(u) \/ Timeout(u) \/ Send(u)

Next ==
    \/ Capture
    \/ \E s \in Session : Activate(s)
    \/ Teardown
    \/ \E u \in Pump : PumpStep(u)

Spec == Init /\ [][Next]_vars

(* The operating system schedules every pump, and recv_timeout returns.    *)
PumpFairness == \A u \in Pump : WF_vars(PumpStep(u))

-----------------------------------------------------------------------------
(* The pumps keep what FrameRoute promises: each frame goes to at most one *)
(* session, and the handle a pump holds while it waits costs at most one   *)
(* frame per pump for every session that is left or replaced.              *)
Route == INSTANCE FrameRoute WITH Sender <- Pump, current <- active

Routed == Route!Spec

(* A driver gets the frames of one pump in the order they were captured,   *)
(* and numbers them so.  (The frames of different pumps may overtake each  *)
(* other: with two pumps the driver numbers speech out of order.)          *)
OwnOrder ==
    \A s \in Session : \A i, j \in 1 .. Len(queue[s]) :
        i < j /\ queue[s][i][1] = queue[s][j][1] => queue[s][i][2] < queue[s][j][2]

(* Every frame captured before or during a session is handed over unless   *)
(* the room is left: no pump can hold the receiver for good while another  *)
(* has a session to serve.                                                 *)
FrameHanded ==
    \A f \in Frame :
        f <= captured /\ active # NoSession
        ~> active = NoSession \/ (f <= captured /\ fate[f] # Waiting)
=============================================================================
