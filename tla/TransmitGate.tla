---------------------------- MODULE TransmitGate ----------------------------
(***************************************************************************)
(* What decides whether the microphone is on the air:                      *)
(*   - TxState, five atomics (crates/verio-app/src/hotkeys.rs);            *)
(*   - the UI thread, which runs the Tauri commands and the shortcut       *)
(*     handler that store to them (ui/src-tauri/src/lib.rs);               *)
(*   - MusicSource and the PROCESSING thread, which loads them for every   *)
(*     10 ms chunk (crates/verio-app/src/pipeline.rs).                     *)
(* A handler of the UI thread is one step: no load of the processing       *)
(* thread tells a state between two of its stores from the states around   *)
(* it (toggle_deafen stores one atomic the thread loads for the mic,       *)
(* set_ptt_mode clears ptt_held once the mode is off and it is no longer   *)
(* loaded).  The processing thread is split at every load.  One chunk is   *)
(* one Opus frame, so each chunk that passes the gate leaves as a packet.  *)
(***************************************************************************)
EXTENDS Naturals

CONSTANTS Key,       \* key combinations push-to-talk can be bound to
          NoKey,     \* no binding: voice activity
          Loopback   \* values the loopback setting takes

ASSUME GateAssumption == NoKey \notin Key /\ Loopback \subseteq BOOLEAN

VARIABLES
    muted, deafened, ptt_held, ptt_mode, pre_deafen_muted,   \* TxState
    ptt,         \* settings: the push-to-talk binding
    registered,  \* the binding the OS reports presses and releases of
    down,        \* keys physically held
    loaded, playing, loop_track,    \* MusicSource
    loopback,    \* of the running pipeline
    pc,          \* PROCESSING thread: its place in the loop over chunks
    music_active, using_music, mic, \* its locals; mic = the mic contributes
    sent,        \* what the current chunk put on the network channel
    \* history of the current chunk: what held at every moment since it began
    mutedAll,    \* muted
    upAll,       \* push-to-talk mode, key not held
    lost         \* a release went unreported since the key was last reported

txVars    == <<muted, deafened, ptt_held, ptt_mode, pre_deafen_muted>>
keyVars   == <<ptt, registered, down, lost>>
musicVars == <<loaded, playing, loop_track>>
procVars  == <<pc, music_active, using_music, mic, sent>>
vars == <<muted, deafened, ptt_held, ptt_mode, pre_deafen_muted,
          ptt, registered, down, lost, loaded, playing, loop_track, loopback,
          pc, music_active, using_music, mic, sent, mutedAll, upAll>>

Step   == {"off", "chunk", "pull", "mix_muted", "mix_mode", "mix_held",
           "gate", "gate_mode", "gate_held", "send"}
Packet == [mic : BOOLEAN, music : BOOLEAN]
None   == [mic |-> FALSE, music |-> FALSE]

TypeOK ==
    /\ muted \in BOOLEAN /\ deafened \in BOOLEAN
    /\ ptt_held \in BOOLEAN /\ ptt_mode \in BOOLEAN /\ pre_deafen_muted \in BOOLEAN
    /\ ptt \in Key \cup {NoKey} /\ registered \in Key \cup {NoKey}
    /\ down \in SUBSET Key /\ lost \in BOOLEAN
    /\ loaded \in BOOLEAN /\ playing \in BOOLEAN /\ loop_track \in BOOLEAN
    /\ loopback \in Loopback
    /\ pc \in Step
    /\ music_active \in BOOLEAN /\ using_music \in BOOLEAN /\ mic \in BOOLEAN
    /\ sent \in Packet
    /\ mutedAll \in BOOLEAN /\ upAll \in BOOLEAN

(* After start-up: restart_pipeline was run once, and register_hotkeys may *)
(* have failed.                                                            *)
Init ==
    /\ muted = FALSE /\ deafened = FALSE /\ pre_deafen_muted = FALSE
    /\ ptt \in Key \cup {NoKey} /\ registered \in {ptt, NoKey}
    /\ ptt_mode = (ptt # NoKey) /\ ptt_held = FALSE
    /\ down = {} /\ lost = FALSE
    /\ loaded = FALSE /\ playing = FALSE /\ loop_track \in BOOLEAN
    /\ loopback \in Loopback
    /\ pc = "chunk"
    /\ music_active = FALSE /\ using_music = FALSE /\ mic = FALSE
    /\ sent = None /\ mutedAll = FALSE /\ upAll = FALSE

-----------------------------------------------------------------------------
(* UI thread.                                                              *)

(* What the history keeps when the atomics change.                         *)
Watch == /\ mutedAll' = (mutedAll /\ muted')
         /\ upAll' = (upAll /\ ptt_mode' /\ ~ptt_held')

ToggleMute ==
    /\ muted' = ~muted
    /\ UNCHANGED <<ptt_held, ptt_mode>> /\ Watch
    /\ UNCHANGED <<deafened, pre_deafen_muted, keyVars, musicVars, loopback, procVars>>

(* toggle_deafen, turning it on: remember, deafen, mute.                   *)
Deafen ==
    /\ ~deafened
    /\ pre_deafen_muted' = muted
    /\ deafened' = TRUE
    /\ muted' = TRUE
    /\ UNCHANGED <<ptt_held, ptt_mode>> /\ Watch
    /\ UNCHANGED <<keyVars, musicVars, loopback, procVars>>

(* Turning it off restores.                                                *)
Undeafen ==
    /\ deafened
    /\ deafened' = FALSE
    /\ muted' = pre_deafen_muted
    /\ UNCHANGED <<ptt_held, ptt_mode>> /\ Watch
    /\ UNCHANGED <<pre_deafen_muted, keyVars, musicVars, loopback, procVars>>

(* set_ptt_mode.                                                           *)
SetPttMode(on) ==
    /\ ptt_mode' = on
    /\ ptt_held' = (ptt_held /\ on)
    /\ UNCHANGED muted /\ Watch

(* Faulty (the variants marked so only show that the properties can fail): *)
(* a release that clears nothing.                                          *)
ReleaseIgnored(x) ==
    /\ x \in down
    /\ down' = down \ {x}
    /\ lost' = (lost /\ x # registered)
    /\ UNCHANGED <<muted, ptt_held, ptt_mode, mutedAll, upAll>>
    /\ UNCHANGED <<deafened, pre_deafen_muted, ptt, registered,
                   musicVars, loopback, procVars>>

(* A key goes down or up; the OS reports it if the binding is registered.  *)
KeyDown(x) ==
    /\ x \notin down
    /\ down' = down \cup {x}
    /\ ptt_held' = (ptt_held \/ x = registered)
    /\ lost' = (lost /\ x # registered)
    /\ UNCHANGED <<muted, ptt_mode>> /\ Watch
    /\ UNCHANGED <<deafened, pre_deafen_muted, ptt, registered,
                   musicVars, loopback, procVars>>

KeyUp(x) ==
    /\ x \in down
    /\ down' = down \ {x}
    /\ ptt_held' = (ptt_held /\ x # registered)
    /\ lost' = (lost /\ x # registered)
    /\ UNCHANGED <<muted, ptt_mode>> /\ Watch
    /\ UNCHANGED <<deafened, pre_deafen_muted, ptt, registered,
                   musicVars, loopback, procVars>>

(* Faulty: the old binding is not unregistered, so there are two.          *)
RegistersBoth(x) ==
    /\ registered' = IF registered \in {NoKey, x} THEN x ELSE {registered, x}
    /\ ptt' = x
    /\ SetPttMode(x # NoKey)
    /\ lost' = (ptt_held' /\ lost)
    /\ UNCHANGED <<deafened, pre_deafen_muted, down,
                   musicVars, loopback, procVars>>

(* set_hotkey("ptt", x): the old binding is unregistered, the new one      *)
(* registered, and only then saved.                                        *)
SetHotkey(x) ==
    /\ registered' = x
    /\ ptt' = x
    /\ SetPttMode(x # NoKey)
    /\ lost' = (ptt_held' /\ (lost \/ (x # registered /\ registered \in down)))
    /\ UNCHANGED <<deafened, pre_deafen_muted, down,
                   musicVars, loopback, procVars>>

(* Registration refused, e.g. taken by another application: the old        *)
(* binding is gone, the settings keep it.  (prepare_hotkey_capture does    *)
(* the same before the UI captures a new one.)                             *)
SetHotkeyFails ==
    /\ registered' = NoKey
    /\ lost' = (lost \/ (ptt_held /\ registered \in down))
    /\ UNCHANGED <<txVars, ptt, down, musicVars, loopback, procVars,
                   mutedAll, upAll>>

(* restart_pipeline waits for the processing thread to finish its chunks;  *)
(* the new pipeline may fail to open its devices.                          *)
RestartPipeline(lb, step) ==
    /\ pc \in {"off", "chunk"}
    /\ SetPttMode(ptt # NoKey)
    /\ loopback' = lb
    /\ pc' = step
    /\ sent' = None
    /\ lost' = (lost /\ ptt_held')
    /\ UNCHANGED <<deafened, pre_deafen_muted, ptt,
                   registered, down, musicVars, music_active, using_music, mic>>

(* MusicSource, one lock section each: open, play, pause / stop, set_loop. *)
Music ==
    /\ \/ /\ loaded' = TRUE /\ playing' = FALSE
          /\ UNCHANGED loop_track
       \/ /\ loaded /\ playing' = TRUE
          /\ UNCHANGED <<loaded, loop_track>>
       \/ /\ playing' = FALSE
          /\ UNCHANGED <<loaded, loop_track>>
       \/ /\ loop_track' = ~loop_track
          /\ UNCHANGED <<loaded, playing>>
    /\ UNCHANGED <<txVars, keyVars, loopback, procVars, mutedAll, upAll>>

-----------------------------------------------------------------------------
(* PROCESSING thread, for each chunk.                                      *)

uiVars == <<txVars, keyVars, loopback>>

(* music.is_active().                                                      *)
ReadActive ==
    /\ pc = "chunk"
    /\ music_active' = (loaded /\ playing)
    /\ pc' = "pull"
    /\ sent' = None
    /\ mutedAll' = muted
    /\ upAll' = (ptt_mode /\ ~ptt_held)
    /\ UNCHANGED <<uiVars, musicVars, using_music, mic>>

(* music.next_chunk(): n > 0 samples, or none - paused meanwhile, at the   *)
(* end of the file, undecodable - in which case only a track that does not *)
(* loop is stopped.  Without music the denoised input is what is encoded.  *)
PullMusic(n) ==
    /\ pc = "pull"
    /\ n > 0 => music_active /\ playing
    /\ using_music' = (n > 0)
    /\ mic' = TRUE
    /\ pc' = IF n > 0 THEN "mix_muted" ELSE "gate"
    /\ playing' = IF music_active /\ n = 0 /\ ~loop_track THEN FALSE ELSE playing
    /\ UNCHANGED <<uiVars, loaded, loop_track, music_active, sent, mutedAll, upAll>>

(* effective_transmission() = !muted && (!ptt_mode || ptt_held) is three   *)
(* loads; here for the gain of the mic in the mix ...                      *)
Goto(step) == pc' = step /\ UNCHANGED <<uiVars, musicVars, music_active,
                                        using_music, sent, mutedAll, upAll>>

(* Faulty: music that plays mixes the mic in at full gain.                 *)
MixUngated ==
    /\ pc = "mix_muted"
    /\ mic' = TRUE
    /\ Goto("gate")

(* Faulty: in push-to-talk mode the key is not looked at.                  *)
GateModeOnly ==
    /\ pc = "gate_mode"
    /\ Goto("send")
    /\ UNCHANGED mic

MixMuted ==
    /\ pc = "mix_muted"
    /\ mic' = ~muted
    /\ Goto(IF muted THEN "gate" ELSE "mix_mode")

MixMode ==
    /\ pc = "mix_mode"
    /\ mic' = ~ptt_mode
    /\ Goto(IF ptt_mode THEN "mix_held" ELSE "gate")

MixHeld ==
    /\ pc = "mix_held"
    /\ mic' = ptt_held
    /\ Goto("gate")

(* ... and here for transmit_gate(), unless loopback or music opens it.    *)
Gate ==
    /\ pc = "gate"
    /\ Goto(IF loopback \/ music_active THEN "send"
            ELSE IF muted THEN "chunk" ELSE "gate_mode")
    /\ UNCHANGED mic

GateMode ==
    /\ pc = "gate_mode"
    /\ Goto(IF ptt_mode THEN "gate_held" ELSE "send")
    /\ UNCHANGED mic

GateHeld ==
    /\ pc = "gate_held"
    /\ Goto(IF ptt_held THEN "send" ELSE "chunk")
    /\ UNCHANGED mic

(* encoder.push, then the local and the network channel.                   *)
Send ==
    /\ pc = "send"
    /\ sent' = [mic |-> mic, music |-> using_music]
    /\ pc' = "chunk"
    /\ UNCHANGED <<uiVars, musicVars, music_active, using_music, mic,
                   mutedAll, upAll>>

-----------------------------------------------------------------------------
UiNext ==
    \/ ToggleMute \/ Deafen \/ Undeafen
    \/ \E x \in Key : KeyDown(x) \/ KeyUp(x)
    \/ \E x \in Key \cup {NoKey} : SetHotkey(x)
    \/ SetHotkeyFails
    \/ \E lb \in Loopback, step \in {"off", "chunk"} : RestartPipeline(lb, step)
    \/ Music

ProcessingNext ==
    \/ ReadActive
    \/ \E n \in {0, 1} : PullMusic(n)
    \/ MixMuted \/ MixMode \/ MixHeld
    \/ Gate \/ GateMode \/ GateHeld
    \/ Send

Next == UiNext \/ ProcessingNext

Spec == Init /\ [][Next]_vars

-----------------------------------------------------------------------------
(* The mic passed the gate only because loopback opened it, or because     *)
(* music that was active yielded nothing: the two cases in which the code  *)
(* encodes the input ungated.                                              *)
Excused == loopback \/ (music_active /\ ~using_music)

(* A user who was muted from the start of a chunk to its end is not heard  *)
(* in it, wherever the mute commands and the two sets of loads interleave. *)
MutedIsSilent == sent.mic /\ mutedAll => Excused

(* Nor is a user whose push-to-talk key was up all the time - even with a  *)
(* mute toggled and a mode switched between two of the loads.              *)
KeyUpIsSilent == sent.mic /\ upAll => Excused

(* hotkeys.rs:89 leaving push-to-talk mode leaves no stuck "held" flag: no *)
(* order of key events, rebindings and restarts sets it outside the mode.  *)
HeldNeedsPttMode == ptt_held => ptt_mode

(* A press can reach only the binding the settings show, also after a      *)
(* registration that failed half-way.                                      *)
RegisteredIsSaved == registered # NoKey => registered = ptt

(* ptt_held says the bound key is held, unless the release could not be    *)
(* reported because the binding was taken away while the key was down.     *)
HeldIsDown == ptt_held /\ ~lost => registered \in down

(* pipeline.rs:630 "The mic only contributes while the user's own gate is  *)
(* open (mute, PTT and deafen all silence it)."                            *)
MicFollowsGate == sent.mic => ~mutedAll /\ ~upAll
=============================================================================
