------------------------------ MODULE Presence ------------------------------
(***************************************************************************)
(* What a client tells its peers about its switches: TransmitGate, and the *)
(* two threads that send State messages (ui/src-tauri/src/lib.rs) -        *)
(*   - the UI thread, when it has handled a mute, deafen or push-to-talk   *)
(*     command or changed the music: send_room_state loads the switches,   *)
(*     then waits for the room lock;                                       *)
(*   - forward_events, for every SpeakingChanged: it takes the room lock   *)
(*     and loads the switches under it.                                    *)
(* Sessions come and go; a new one has been told nothing.                  *)
(***************************************************************************)
EXTENDS TransmitGate

VARIABLES
    ui,    \* "idle", or "send": waiting for the room lock with the switches
           \* loaded, which nobody else can change meanwhile
    fwd,   \* "idle", or holding the room lock with the mute switch loaded:
           \* "muted" or "open"
    told   \* the last State put into the channel of the active session, if any

presenceVars == <<ui, fwd, told>>

State == [muted : BOOLEAN, deafened : BOOLEAN]

PresenceTypeOK ==
    /\ TypeOK
    /\ ui \in {"idle", "send"}
    /\ fwd \in {"idle", "muted", "open"}
    /\ told \in {{}} \cup {{s} : s \in State}

PresenceInit == Init /\ ui = "idle" /\ fwd = "idle" /\ told = {}

-----------------------------------------------------------------------------
(* send_state: into the channel of the active session, if there is one.    *)
SendState(m, d) ==
    \/ told' = {[muted |-> m, deafened |-> d]}
    \/ told = {} /\ told' = {}

(* The handlers that end with send_room_state, ...                         *)
Announce ==
    /\ ui = "idle" /\ ui' = "send"
    /\ \/ ToggleMute \/ Deafen \/ Undeafen
       \/ \E x \in {registered} \cap Key : KeyDown(x) \/ KeyUp(x)
       \/ Music /\ UNCHANGED loop_track
    /\ UNCHANGED <<fwd, told>>

(* ... and what else the UI thread and the OS do.                          *)
Quietly ==
    /\ ui = "idle"
    /\ \/ \E x \in Key \ {registered} : KeyDown(x) \/ KeyUp(x)
       \/ \E x \in Key \cup {NoKey} : SetHotkey(x)
       \/ SetHotkeyFails
       \/ \E lb \in Loopback, step \in {"off", "chunk"} : RestartPipeline(lb, step)
       \/ Music /\ UNCHANGED <<loaded, playing>>
    /\ UNCHANGED presenceVars

(* Faulty (shows that ToldIsTrue can fail): the UI thread does not wait    *)
(* for the forwarder to leave the room lock.                               *)
UiSendUnlocked ==
    /\ ui = "send" /\ ui' = "idle"
    /\ SendState(muted, deafened)
    /\ UNCHANGED <<vars, fwd>>

(* The UI thread gets the room lock.                                       *)
UiSend ==
    /\ ui = "send" /\ fwd = "idle"
    /\ ui' = "idle"
    /\ SendState(muted, deafened)
    /\ UNCHANGED <<vars, fwd>>

(* SpeakingChanged: lock the room and load is_muted, load is_deafened and  *)
(* send.                                                                   *)
FwdLock ==
    /\ fwd = "idle" /\ fwd' = (IF muted THEN "muted" ELSE "open")
    /\ UNCHANGED <<vars, ui, told>>

FwdSend ==
    /\ fwd # "idle" /\ fwd' = "idle"
    /\ SendState(fwd = "muted", deafened)
    /\ UNCHANGED <<vars, ui>>

(* The session ends, or another one replaces it.                           *)
SessionEnds ==
    /\ fwd = "idle" /\ told' = {}
    /\ UNCHANGED <<vars, ui, fwd>>

PresenceNext ==
    \/ Announce \/ Quietly \/ UiSend
    \/ FwdLock \/ FwdSend \/ SessionEnds
    \/ ProcessingNext /\ UNCHANGED presenceVars

PresenceSpec == PresenceInit /\ [][PresenceNext]_<<vars, presenceVars>>

-----------------------------------------------------------------------------
(* What the peers were told of the switches last is right whenever the UI  *)
(* thread has finished its command, wherever the forwarder's messages fall *)
(* between the toggle and the UI's own message.                            *)
ToldIsTrue == ui = "idle" => told \subseteq {[muted |-> muted, deafened |-> deafened]}
=============================================================================
