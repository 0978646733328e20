--------------------------- MODULE Presence_proofs ---------------------------
(***************************************************************************)
(* Proofs about Presence, for any set of keys and any loopback values.     *)
(* Every step of Presence is a step of TransmitGate or changes nothing of  *)
(* it, so what TransmitGate_proofs shows of the air holds here; and what   *)
(* the peers were told is right because a switch the forwarder has loaded  *)
(* can only be outdated while the UI thread still has a message to send.   *)
(***************************************************************************)
EXTENDS Presence, TransmitGate_proofs

(* The mute switch the forwarder loaded is the present one, unless the UI  *)
(* thread is about to send.                                                *)
LoadedIsCurrent == ui = "idle" /\ fwd # "idle" => fwd = (IF muted THEN "muted" ELSE "open")

ToldInv == LoadedIsCurrent /\ ToldIsTrue

-----------------------------------------------------------------------------
(* What the handlers of the UI thread amount to for the gate.              *)
LEMMA UiIsUi ==
  ASSUME TypeOK, Announce \/ Quietly
  PROVE  UiNext
  <1>1. CASE Announce
    BY <1>1 DEF Announce, UiNext
  <1>2. CASE Quietly
    BY <1>2 DEF Quietly, UiNext
  <1> QED
    BY <1>1, <1>2

(* What Quietly leaves alone: everything the peers are told of.            *)
LEMMA QuietlyTellsNothing ==
  ASSUME Quietly
  PROVE  UNCHANGED <<muted, deafened, ui, fwd, told>>
  BY DEF Quietly, KeyDown, KeyUp, SetHotkey, SetHotkeyFails, SetPttMode,
         RestartPipeline, Music, txVars, presenceVars

LEMMA ProcessingTellsNothing ==
  ASSUME ProcessingNext
  PROVE  UNCHANGED <<muted, deafened>>
  BY DEF ProcessingNext, ReadActive, PullMusic, MixMuted, MixMode, MixHeld,
         Gate, GateMode, GateHeld, Send, Goto, uiVars, txVars

LEMMA StateOfSwitches ==
  ASSUME NEW m \in BOOLEAN, NEW d \in BOOLEAN, SendState(m, d),
         told \in {{}} \cup {{s} : s \in State}
  PROVE  /\ told' \in {{}} \cup {{s} : s \in State}
         /\ told' \subseteq {[muted |-> m, deafened |-> d]}
  <1>1. [muted |-> m, deafened |-> d] \in State
    BY DEF State
  <1> QED
    BY <1>1 DEF SendState

(* Presence adds to TransmitGate who is told, and takes nothing from it:   *)
(* whatever it does, the gate sees a behaviour of its own specification.   *)
THEOREM KeepsTheGate == PresenceSpec => Spec
<1>1. PresenceInit => Init
  BY DEF PresenceInit
<1>2. TypeOK /\ [PresenceNext]_<<vars, presenceVars>> => [Next]_vars
  <2> SUFFICES ASSUME TypeOK, [PresenceNext]_<<vars, presenceVars>> PROVE [Next]_vars
    OBVIOUS
  <2>1. CASE Announce \/ Quietly
    BY <2>1, UiIsUi DEF Next
  <2>2. CASE UiSend \/ FwdLock \/ FwdSend \/ SessionEnds
    BY <2>2 DEF UiSend, FwdLock, FwdSend, SessionEnds
  <2>3. CASE ProcessingNext
    BY <2>3 DEF Next
  <2>4. CASE UNCHANGED <<vars, presenceVars>>
    BY <2>4
  <2> QED
    BY <2>1, <2>2, <2>3, <2>4 DEF PresenceNext
<1>3. Init => TypeOK
  BY TypeInitially
<1>4. TypeOK /\ [Next]_vars => TypeOK'
  BY TypeKept
<1> QED
  BY <1>1, <1>2, <1>3, <1>4, PTL DEF PresenceSpec, Spec

(* Every variable keeps its type: the State the peers were told last is    *)
(* one message or none.                                                    *)
THEOREM PresenceTypeCorrect == PresenceSpec => []PresenceTypeOK
<1>1. PresenceInit /\ TypeOK => PresenceTypeOK
  BY DEF PresenceInit, PresenceTypeOK
<1>2. PresenceTypeOK /\ TypeOK' /\ [PresenceNext]_<<vars, presenceVars>> => PresenceTypeOK'
  <2> SUFFICES ASSUME PresenceTypeOK, TypeOK', [PresenceNext]_<<vars, presenceVars>>
               PROVE  PresenceTypeOK'
    OBVIOUS
  <2>1. CASE Announce
    BY <2>1 DEF PresenceTypeOK, Announce
  <2>2. CASE Quietly \/ UNCHANGED <<vars, presenceVars>>
    <3>1. UNCHANGED <<ui, fwd, told>>
      BY <2>2, QuietlyTellsNothing DEF presenceVars
    <3> QED
      BY <3>1 DEF PresenceTypeOK
  <2>3. CASE UiSend
    <3>1. muted \in BOOLEAN /\ deafened \in BOOLEAN
      BY DEF PresenceTypeOK, TypeOK
    <3> QED
      BY <2>3, <3>1, StateOfSwitches DEF PresenceTypeOK, UiSend
  <2>4. CASE FwdLock
    BY <2>4 DEF PresenceTypeOK, FwdLock
  <2>5. CASE FwdSend
    <3>1. (fwd = "muted") \in BOOLEAN /\ deafened \in BOOLEAN
      BY DEF PresenceTypeOK, TypeOK
    <3> QED
      BY <2>5, <3>1, StateOfSwitches DEF PresenceTypeOK, FwdSend
  <2>6. CASE SessionEnds
    BY <2>6 DEF PresenceTypeOK, SessionEnds
  <2>7. CASE ProcessingNext /\ UNCHANGED presenceVars
    BY <2>7 DEF PresenceTypeOK, presenceVars
  <2> QED
    BY <2>1, <2>2, <2>3, <2>4, <2>5, <2>6, <2>7 DEF PresenceNext
<1> QED
  BY <1>1, <1>2, KeepsTheGate, TypeCorrect, PTL DEF PresenceSpec

(* What the peers were told of the switches last is right whenever the UI  *)
(* thread is between commands, wherever the forwarder's own messages fall. *)
THEOREM ToldIsTrueHolds == PresenceSpec => []ToldIsTrue
<1>1. PresenceInit => ToldInv
  BY DEF PresenceInit, ToldInv, LoadedIsCurrent, ToldIsTrue
<1>2. PresenceTypeOK /\ ToldInv /\ [PresenceNext]_<<vars, presenceVars>> => ToldInv'
  <2> SUFFICES ASSUME PresenceTypeOK, ToldInv, [PresenceNext]_<<vars, presenceVars>>
               PROVE  ToldInv'
    OBVIOUS
  <2>0. muted \in BOOLEAN /\ deafened \in BOOLEAN
    BY DEF PresenceTypeOK, TypeOK
  <2> USE DEF ToldInv, LoadedIsCurrent, ToldIsTrue
  <2>1. CASE Announce
    BY <2>1 DEF Announce
  <2>2. CASE Quietly \/ UNCHANGED <<vars, presenceVars>>
    <3>1. UNCHANGED <<muted, deafened, ui, fwd, told>>
      BY <2>2, QuietlyTellsNothing DEF presenceVars, vars
    <3> QED
      BY <3>1
  <2>3. CASE UiSend
    <3>1. told' \subseteq {[muted |-> muted, deafened |-> deafened]}
      BY <2>0, <2>3, StateOfSwitches DEF PresenceTypeOK, UiSend
    <3> QED
      BY <2>3, <3>1 DEF UiSend, vars
  <2>4. CASE FwdLock
    BY <2>4 DEF FwdLock, vars
  <2>5. CASE FwdSend
    <3>1. told' \subseteq {[muted |-> fwd = "muted", deafened |-> deafened]}
      BY <2>0, <2>5, StateOfSwitches DEF PresenceTypeOK, FwdSend
    <3>2. ui = "idle" => (fwd = "muted") = muted
      BY <2>0, <2>5 DEF FwdSend
    <3> QED
      BY <2>5, <3>1, <3>2 DEF FwdSend, vars
  <2>6. CASE SessionEnds
    BY <2>6 DEF SessionEnds, vars
  <2>7. CASE ProcessingNext /\ UNCHANGED presenceVars
    <3>1. UNCHANGED <<muted, deafened, ui, fwd, told>>
      BY <2>7, ProcessingTellsNothing DEF presenceVars
    <3> QED
      BY <3>1
  <2> QED
    BY <2>1, <2>2, <2>3, <2>4, <2>5, <2>6, <2>7 DEF PresenceNext
<1>3. ToldInv => ToldIsTrue
  BY DEF ToldInv
<1> QED
  BY <1>1, <1>2, <1>3, PresenceTypeCorrect, PTL DEF PresenceSpec

(* So the air and the peers' view go together: whoever is muted (or has    *)
(* the key up) throughout a chunk is not heard in it.                      *)
THEOREM MutedSilent == PresenceSpec => []MutedIsSilent
  BY KeepsTheGate, Silent, PTL

THEOREM KeyUpSilent == PresenceSpec => []KeyUpIsSilent
  BY KeepsTheGate, Silent, PTL

(* ... and the held flag is never stuck, but for a release nobody reports. *)
THEOREM HeldDown == PresenceSpec => []HeldIsDown
  BY KeepsTheGate, HotkeysAgree, PTL
=============================================================================
