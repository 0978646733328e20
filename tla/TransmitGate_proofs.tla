------------------------ MODULE TransmitGate_proofs ------------------------
(***************************************************************************)
(* Proofs about TransmitGate, for any set of keys and any set of loopback  *)
(* values.  The strengthening says what each stage of the gate has already *)
(* ruled out: the history flags can only fall while a chunk is under way,  *)
(* so one load that saw the gate open settles the matter for good.         *)
(***************************************************************************)
EXTENDS TransmitGate, TLAPS

(* The history flags never claim more than what holds now.                 *)
HistoryIsCurrent ==
    /\ mutedAll => muted
    /\ upAll => ptt_mode /\ ~ptt_held

(* Nothing is on the channel for the chunk that is still under way.        *)
NotSentYet == pc \notin {"off", "chunk"} => sent.mic = FALSE

Gating == {"gate", "gate_mode", "gate_held", "send"}

(* What each stage has ruled out about a user muted all the time ...       *)
MutedStages ==
    /\ pc \in {"mix_muted", "mix_mode", "mix_held"} => using_music
    /\ pc \in {"mix_mode", "mix_held"} => ~mutedAll
    /\ pc \in Gating /\ using_music /\ mic => ~mutedAll
    /\ pc \in {"gate_mode", "gate_held"} => ~mutedAll
    /\ pc = "send" => loopback \/ music_active \/ ~mutedAll

(* ... and about one whose key was up all the time.                        *)
KeyUpStages ==
    /\ pc \in Gating /\ using_music /\ mic => ~upAll
    /\ pc = "send" => loopback \/ music_active \/ ~upAll

(* Mode, saved binding and registered binding move together.               *)
Binding ==
    /\ ptt_mode = (ptt # NoKey)
    /\ RegisteredIsSaved
    /\ HeldNeedsPttMode

SilentInv == /\ HistoryIsCurrent /\ NotSentYet /\ MutedStages /\ KeyUpStages
             /\ MutedIsSilent /\ KeyUpIsSilent

HotkeyInv == Binding /\ HeldIsDown

-----------------------------------------------------------------------------
(* What a chunk sends, and that nothing is a packet without a mic.         *)
LEMMA NonePacket == None \in Packet /\ None.mic = FALSE
  BY DEF None, Packet

LEMMA MadePacket ==
  ASSUME mic \in BOOLEAN, using_music \in BOOLEAN
  PROVE  /\ [mic |-> mic, music |-> using_music] \in Packet
         /\ [mic |-> mic, music |-> using_music].mic = mic
  BY DEF Packet

LEMMA TypeInitially == Init => TypeOK
  BY NonePacket, GateAssumption DEF GateAssumption, Init, TypeOK, Step

(* Every variable keeps its type (all handlers of TransmitGate).           *)
LEMMA TypeKept == TypeOK /\ [Next]_vars => TypeOK'
<1> USE GateAssumption DEF GateAssumption
<1>1. TypeOK /\ [Next]_vars => TypeOK'
  <2> SUFFICES ASSUME TypeOK, [Next]_vars PROVE TypeOK'
    OBVIOUS
  <2> USE DEF TypeOK, Step, txVars, keyVars, musicVars, procVars, uiVars
  <2>1. CASE ToggleMute
    BY <2>1 DEF ToggleMute, Watch
  <2>2. CASE Deafen
    BY <2>2 DEF Deafen, Watch
  <2>3. CASE Undeafen
    <3>1. muted' \in BOOLEAN /\ deafened' \in BOOLEAN
      BY <2>3 DEF Undeafen
    <3>2. mutedAll' \in BOOLEAN /\ upAll' \in BOOLEAN
      BY <2>3 DEF Undeafen, Watch
    <3> QED
      BY <2>3, <3>1, <3>2 DEF Undeafen
  <2>4. ASSUME NEW x \in Key, KeyDown(x) PROVE TypeOK'
    BY <2>4 DEF KeyDown, Watch
  <2>5. ASSUME NEW x \in Key, KeyUp(x) PROVE TypeOK'
    BY <2>5 DEF KeyUp, Watch
  <2>6. ASSUME NEW x \in Key \cup {NoKey}, SetHotkey(x) PROVE TypeOK'
    BY <2>6 DEF SetHotkey, SetPttMode, Watch
  <2>7. CASE SetHotkeyFails
    BY <2>7 DEF SetHotkeyFails
  <2>8. ASSUME NEW lb \in Loopback, NEW step \in {"off", "chunk"},
               RestartPipeline(lb, step)
        PROVE TypeOK'
    BY <2>8, NonePacket DEF RestartPipeline, SetPttMode, Watch
  <2>9. CASE Music
    <3>1. loaded' \in BOOLEAN /\ playing' \in BOOLEAN /\ loop_track' \in BOOLEAN
      BY <2>9 DEF Music
    <3>2. UNCHANGED <<txVars, keyVars, loopback, procVars, mutedAll, upAll>>
      BY <2>9 DEF Music
    <3> QED
      BY <3>1, <3>2
  <2>10. CASE ReadActive
    BY <2>10, NonePacket DEF ReadActive
  <2>11. ASSUME NEW n \in {0, 1}, PullMusic(n) PROVE TypeOK'
    <3>1. using_music' \in BOOLEAN /\ mic' \in BOOLEAN
      BY <2>11 DEF PullMusic
    <3>2. playing' \in BOOLEAN
      BY <2>11 DEF PullMusic
    <3>3. pc' \in Step
      BY <2>11 DEF PullMusic
    <3>4. UNCHANGED <<uiVars, loaded, loop_track, music_active, sent, mutedAll, upAll>>
      BY <2>11 DEF PullMusic
    <3> QED
      BY <3>1, <3>2, <3>3, <3>4
  <2>12. CASE MixMuted
    BY <2>12 DEF MixMuted, Goto
  <2>13. CASE MixMode
    BY <2>13 DEF MixMode, Goto
  <2>14. CASE MixHeld
    BY <2>14 DEF MixHeld, Goto
  <2>15. CASE Gate
    BY <2>15 DEF Gate, Goto
  <2>16. CASE GateMode
    BY <2>16 DEF GateMode, Goto
  <2>17. CASE GateHeld
    BY <2>17 DEF GateHeld, Goto
  <2>18. CASE Send
    BY <2>18, MadePacket DEF Send
  <2>19. CASE UNCHANGED vars
    BY <2>19 DEF vars
  <2> QED
    BY <2>1, <2>2, <2>3, <2>4, <2>5, <2>6, <2>7, <2>8, <2>9, <2>10, <2>11,
       <2>12, <2>13, <2>14, <2>15, <2>16, <2>17, <2>18, <2>19
    DEF Next, UiNext, ProcessingNext
<1> QED
  BY <1>1

THEOREM TypeCorrect == Spec => []TypeOK
  BY TypeInitially, TypeKept, PTL DEF Spec

-----------------------------------------------------------------------------
(* What any handler of the UI thread but a restart does to the gate: it    *)
(* moves nothing of the processing thread, and history only falls.         *)
LEMMA UiKeepsSilent ==
  ASSUME TypeOK, TypeOK', SilentInv, UNCHANGED procVars, UNCHANGED loopback,
         mutedAll' => mutedAll /\ muted',
         upAll' => upAll /\ ptt_mode' /\ ~ptt_held'
  PROVE  SilentInv'
  <1> USE DEF procVars
  <1>1. HistoryIsCurrent'
    BY DEF HistoryIsCurrent
  <1>2. NotSentYet'
    BY DEF SilentInv, NotSentYet
  <1>3. MutedStages'
    BY DEF SilentInv, MutedStages, Gating
  <1>4. KeyUpStages'
    BY DEF SilentInv, KeyUpStages, Gating
  <1>5. MutedIsSilent' /\ KeyUpIsSilent'
    BY DEF SilentInv, MutedIsSilent, KeyUpIsSilent, Excused
  <1> QED
    BY <1>1, <1>2, <1>3, <1>4, <1>5 DEF SilentInv

LEMMA WatchFalls ==
  ASSUME TypeOK, Watch
  PROVE  /\ mutedAll' => mutedAll /\ muted'
         /\ upAll' => upAll /\ ptt_mode' /\ ~ptt_held'
  BY DEF TypeOK, Watch

(* One pass of the processing thread over a chunk.                         *)
LEMMA ProcessingKeepsSilent ==
  ASSUME TypeOK, TypeOK', SilentInv, ProcessingNext
  PROVE  SilentInv'
  <1> USE DEF SilentInv, HistoryIsCurrent, NotSentYet, MutedStages, KeyUpStages,
              Gating, MutedIsSilent, KeyUpIsSilent, Excused,
              uiVars, txVars, keyVars, musicVars, TypeOK, Step
  <1>1. CASE ReadActive
    BY <1>1, NonePacket DEF ReadActive
  <1>2. ASSUME NEW n \in {0, 1}, PullMusic(n) PROVE SilentInv'
    BY <1>2 DEF PullMusic
  <1>3. CASE MixMuted
    BY <1>3 DEF MixMuted, Goto
  <1>4. CASE MixMode
    BY <1>4 DEF MixMode, Goto
  <1>5. CASE MixHeld
    BY <1>5 DEF MixHeld, Goto
  <1>6. CASE Gate
    BY <1>6 DEF Gate, Goto
  <1>7. CASE GateMode
    BY <1>7 DEF GateMode, Goto
  <1>8. CASE GateHeld
    BY <1>8 DEF GateHeld, Goto
  <1>9. CASE Send
    BY <1>9, MadePacket DEF Send
  <1> QED
    BY <1>1, <1>2, <1>3, <1>4, <1>5, <1>6, <1>7, <1>8, <1>9 DEF ProcessingNext

(* A user muted, or with the key up, throughout a chunk is not heard in    *)
(* it, unless loopback or active-but-empty music opened the gate: however  *)
(* the loads of the processing thread and the stores of the UI interleave. *)
THEOREM Silent == Spec => [](MutedIsSilent /\ KeyUpIsSilent)
<1>1. Init => SilentInv
  BY NonePacket DEF Init, SilentInv, HistoryIsCurrent, NotSentYet, MutedStages,
     KeyUpStages, Gating, MutedIsSilent, KeyUpIsSilent
<1>2. TypeOK /\ TypeOK' /\ SilentInv /\ [Next]_vars => SilentInv'
  <2> SUFFICES ASSUME TypeOK, TypeOK', SilentInv, [Next]_vars PROVE SilentInv'
    OBVIOUS
  <2>1. CASE ToggleMute
    BY <2>1, UiKeepsSilent, WatchFalls DEF ToggleMute
  <2>2. CASE Deafen
    BY <2>2, UiKeepsSilent, WatchFalls DEF Deafen
  <2>3. CASE Undeafen
    BY <2>3, UiKeepsSilent, WatchFalls DEF Undeafen
  <2>4. ASSUME NEW x \in Key, KeyDown(x) \/ KeyUp(x) PROVE SilentInv'
    BY <2>4, UiKeepsSilent, WatchFalls DEF KeyDown, KeyUp
  <2>5. ASSUME NEW x \in Key \cup {NoKey}, SetHotkey(x) PROVE SilentInv'
    BY <2>5, UiKeepsSilent, WatchFalls DEF SetHotkey, SetPttMode
  <2>6. CASE SetHotkeyFails \/ Music
    <3>1. UNCHANGED <<txVars, loopback, procVars, mutedAll, upAll>>
      BY <2>6 DEF SetHotkeyFails, Music
    <3>2. /\ mutedAll' => mutedAll /\ muted'
          /\ upAll' => upAll /\ ptt_mode' /\ ~ptt_held'
      BY <3>1 DEF SilentInv, HistoryIsCurrent, txVars
    <3> QED
      BY <3>1, <3>2, UiKeepsSilent
  <2>7. ASSUME NEW lb \in Loopback, NEW step \in {"off", "chunk"},
               RestartPipeline(lb, step)
        PROVE SilentInv'
    <3>1. pc' \in {"off", "chunk"} /\ sent'.mic = FALSE /\ HistoryIsCurrent'
      BY <2>7, WatchFalls, NonePacket DEF RestartPipeline, SetPttMode, HistoryIsCurrent
    <3> QED
      BY <3>1 DEF SilentInv, NotSentYet, MutedStages, KeyUpStages, Gating,
                  MutedIsSilent, KeyUpIsSilent
  <2>8. CASE ProcessingNext
    BY <2>8, ProcessingKeepsSilent
  <2>9. CASE UNCHANGED vars
    BY <2>9 DEF vars, SilentInv, HistoryIsCurrent, NotSentYet, MutedStages,
       KeyUpStages, Gating, MutedIsSilent, KeyUpIsSilent, Excused
  <2> QED
    BY <2>1, <2>2, <2>3, <2>4, <2>5, <2>6, <2>7, <2>8, <2>9 DEF Next, UiNext
<1>3. SilentInv => MutedIsSilent /\ KeyUpIsSilent
  BY DEF SilentInv
<1> QED
  BY <1>1, <1>2, <1>3, TypeCorrect, PTL DEF Spec

(* The held flag, the mode, the saved binding and the registered binding   *)
(* agree, whatever order key events, rebindings (also failed ones) and     *)
(* restarts come in.                                                       *)
THEOREM HotkeysAgree == Spec => [](RegisteredIsSaved /\ HeldNeedsPttMode /\ HeldIsDown)
<1>1. Init => HotkeyInv
  BY DEF Init, HotkeyInv, Binding, RegisteredIsSaved, HeldNeedsPttMode, HeldIsDown
<1>2. TypeOK /\ HotkeyInv /\ [Next]_vars => HotkeyInv'
  <2> SUFFICES ASSUME TypeOK, HotkeyInv, [Next]_vars PROVE HotkeyInv'
    OBVIOUS
  <2> USE GateAssumption DEF GateAssumption, TypeOK, HotkeyInv, Binding,
          RegisteredIsSaved, HeldNeedsPttMode, HeldIsDown, txVars, keyVars, uiVars
  <2>1. CASE ToggleMute \/ Deafen \/ Undeafen
    BY <2>1 DEF ToggleMute, Deafen, Undeafen
  <2>2. ASSUME NEW x \in Key, KeyDown(x) PROVE HotkeyInv'
    BY <2>2 DEF KeyDown
  <2>3. ASSUME NEW x \in Key, KeyUp(x) PROVE HotkeyInv'
    BY <2>3 DEF KeyUp
  <2>4. ASSUME NEW x \in Key \cup {NoKey}, SetHotkey(x) PROVE HotkeyInv'
    BY <2>4 DEF SetHotkey, SetPttMode
  <2>5. CASE SetHotkeyFails
    BY <2>5 DEF SetHotkeyFails
  <2>6. ASSUME NEW lb \in Loopback, NEW step \in {"off", "chunk"},
               RestartPipeline(lb, step)
        PROVE HotkeyInv'
    BY <2>6 DEF RestartPipeline, SetPttMode
  <2>7. CASE Music \/ ProcessingNext \/ UNCHANGED vars
    <3>1. UNCHANGED <<txVars, keyVars>>
      BY <2>7 DEF Music, ProcessingNext, ReadActive, PullMusic, MixMuted, MixMode,
         MixHeld, Gate, GateMode, GateHeld, Send, Goto, vars
    <3> QED
      BY <3>1
  <2> QED
    BY <2>1, <2>2, <2>3, <2>4, <2>5, <2>6, <2>7 DEF Next, UiNext
<1>3. HotkeyInv => RegisteredIsSaved /\ HeldNeedsPttMode /\ HeldIsDown
  BY DEF HotkeyInv, Binding
<1> QED
  BY <1>1, <1>2, <1>3, TypeCorrect, PTL DEF Spec

-----------------------------------------------------------------------------
(* pipeline.rs:630 is refuted by a chunk whose music was active and then   *)
(* yielded nothing, and by loopback.  Nothing else: where neither occurs   *)
(* the mic follows the gate.                                               *)
MusicYields == music_active => ~PullMusic(0)

(* Past the pull, active music is in use.                                  *)
UsesMusic ==
    sent.mic \/ pc \notin {"off", "chunk", "pull"} => (music_active => using_music)

(* Active music that yields is in every packet with the mic in it.         *)
LEMMA UsesMusicNext ==
  ASSUME TypeOK, UsesMusic, [Next]_vars, [MusicYields]_vars
  PROVE  UsesMusic'
<1> USE DEF UsesMusic, TypeOK, uiVars, txVars, keyVars, musicVars, procVars, Step
<1>1. ASSUME NEW n \in {0, 1}, PullMusic(n) PROVE UsesMusic'
  <2>1. CASE n = 0 /\ MusicYields
    <3>1. ~music_active /\ music_active' = music_active
      BY <1>1, <2>1 DEF PullMusic, MusicYields
    <3> QED
      BY <3>1
  <2>2. CASE n = 1
    <3>1. using_music' = (1 > 0)
      BY <1>1, <2>2 DEF PullMusic
    <3>2. (1 > 0) = TRUE
      OBVIOUS
    <3> QED
      BY <3>1, <3>2
  <2>3. CASE UNCHANGED vars
    BY <2>3 DEF vars
  <2> QED
    BY <2>1, <2>2, <2>3
<1>2. CASE ReadActive
  BY <1>2, NonePacket DEF ReadActive
<1>3. CASE MixMuted \/ MixMode \/ MixHeld \/ Gate \/ GateMode \/ GateHeld
  BY <1>3 DEF MixMuted, MixMode, MixHeld, Gate, GateMode, GateHeld, Goto
<1>4. CASE Send
  BY <1>4, MadePacket DEF Send
<1>5. CASE ToggleMute \/ Deafen \/ Undeafen \/ SetHotkeyFails \/ Music
  BY <1>5 DEF ToggleMute, Deafen, Undeafen, SetHotkeyFails, Music
<1>6. ASSUME NEW x \in Key, KeyDown(x) \/ KeyUp(x) PROVE UsesMusic'
  BY <1>6 DEF KeyDown, KeyUp
<1>7. ASSUME NEW x \in Key \cup {NoKey}, SetHotkey(x) PROVE UsesMusic'
  BY <1>7 DEF SetHotkey
<1>8. ASSUME NEW lb \in Loopback, NEW step \in {"off", "chunk"}, RestartPipeline(lb, step)
      PROVE UsesMusic'
  BY <1>8, NonePacket DEF RestartPipeline
<1>9. CASE UNCHANGED vars
  BY <1>9 DEF vars
<1> QED
  BY <1>1, <1>2, <1>3, <1>4, <1>5, <1>6, <1>7, <1>8, <1>9 DEF Next, UiNext, ProcessingNext

(* The mic contributes only while the user's own gate is open, wherever    *)
(* loopback is off and active music always yields samples (processing_loop, *)
(* MusicSource::next_chunk).                                               *)
THEOREM MicFollowsGateOtherwise ==
    Loopback = {FALSE} => (Spec /\ [][MusicYields]_vars => []MicFollowsGate)
<1> SUFFICES ASSUME Loopback = {FALSE}
             PROVE  Spec /\ [][MusicYields]_vars => []MicFollowsGate
  OBVIOUS
<1>1. Init => UsesMusic
  BY NonePacket DEF Init, UsesMusic
<1>2. TypeOK /\ UsesMusic /\ [Next]_vars /\ [MusicYields]_vars => UsesMusic'
  BY UsesMusicNext
<1>3. TypeOK /\ UsesMusic /\ MutedIsSilent /\ KeyUpIsSilent => MicFollowsGate
  BY DEF TypeOK, UsesMusic, MutedIsSilent, KeyUpIsSilent, MicFollowsGate, Excused
<1> QED
  BY <1>1, <1>2, <1>3, TypeCorrect, Silent, PTL DEF Spec
=============================================================================
