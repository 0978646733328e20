-------------------------- MODULE Settings_proofs --------------------------
(***************************************************************************)
(* Proofs about Settings, for any sets of settings and any bounds.  The    *)
(* persister's snapshot is the pivot: what is being written is never newer *)
(* than the settings, never older than the file, and if it is older than   *)
(* the settings there is a notice the persister has not taken.             *)
(***************************************************************************)
EXTENDS Settings, TLAPS

Writing == {"truncate", "fill", "rename"}

(* Nothing is left of a run that ended, and what the temporary file holds  *)
(* when it is about to be renamed.                                         *)
Filled ==
    /\ ~up => persister = "wait" /\ ~edited
    /\ persister = "rename" => tmp = snapshot

(* A save under way that is already outdated will be followed by another.  *)
Outdated == persister \in Writing /\ snapshot # settings => ui = "notify" \/ notices > 0

(* Age: an edit is younger than everything written before it.              *)
OfEdits ==
    \A x \in Edited : /\ settings[x] <= changes /\ snapshot[x] <= changes
                      /\ file \in Contents => file[x] <= changes

Ascending ==
    up => \A x \in Setting :
        /\ persister \in Writing => snapshot[x] <= settings[x]
        /\ ~forgotten /\ file \in Contents => file[x] <= settings[x]
        /\ ~forgotten /\ file \in Contents /\ persister \in Writing => file[x] <= snapshot[x]

(* What the command under way has still to pass on.                        *)
Following ==
    /\ ui # "idle" => target \in Edited
    /\ ui = "apply" => target \in Live \cup Device
    /\ up => /\ \A x \in Live : controls[x] = settings[x] \/ (ui # "idle" /\ target = x)
             /\ running => \A x \in Device :
                               pipeline[x] = settings[x] \/ (ui # "idle" /\ target = x)

-----------------------------------------------------------------------------
LEMMA DefaultsAreContents == Defaults \in Contents /\ \A x \in Setting : Defaults[x] = 0
  BY DEF Defaults, Contents

(* What a start puts into memory.                                          *)
LEMMA LoadedContents ==
  ASSUME TypeOK, NEW readable \in BOOLEAN
  PROVE  /\ WithPeerId(Read(readable)) \in Contents
         /\ \A x \in Edited : WithPeerId(Read(readable))[x] = Read(readable)[x]
         /\ \A x \in Setting : Read(readable)[x] <= WithPeerId(Read(readable))[x]
<1>1. Read(readable) \in Contents
  BY DefaultsAreContents DEF Read
<1>2. launches \in Nat
  BY SettingsAssumption DEF TypeOK
<1> HIDE DEF TypeOK
<1>3. CASE Read(readable)[Id] = 0
  <2>1. WithPeerId(Read(readable)) = [Read(readable) EXCEPT ![Id] = launches + 1]
    BY <1>3 DEF WithPeerId
  <2> QED
    BY <1>1, <1>2, <1>3, <2>1, SettingsAssumption DEF Contents, Setting, Edited
<1>4. CASE Read(readable)[Id] # 0
  <2>1. WithPeerId(Read(readable)) = Read(readable)
    BY <1>4 DEF WithPeerId
  <2> QED
    BY <1>1, <2>1, SettingsAssumption DEF Contents, Setting, Edited
<1> QED
  BY <1>3, <1>4

(* Every variable keeps its type (all commands and both threads).          *)
THEOREM TypeCorrect == Spec => []TypeOK
<1> USE SettingsAssumption DEF Setting, Edited
<1>1. Init => TypeOK
  <2> SUFFICES ASSUME Init PROVE TypeOK
    OBVIOUS
  <2>1. controls \in [Live -> Nat] /\ pipeline \in [Device -> Nat]
    BY DEF Init
  <2>2. /\ settings \in Contents /\ snapshot \in Contents
        /\ file \in Contents \cup {NoFile, Torn}
    BY DefaultsAreContents DEF Init
  <2>3. /\ tmp \in Contents \cup {NoFile, Torn} /\ target \in Setting
        /\ changes \in 0 .. MaxChanges /\ launches \in 0 .. MaxLaunches
    BY DEF Init
  <2>4. /\ up = FALSE /\ running = FALSE /\ edited = FALSE /\ forgotten = FALSE
        /\ failed = FALSE /\ ui = "idle" /\ notices = 0 /\ persister = "wait"
    BY DEF Init
  <2> HIDE DEF Setting, Edited
  <2> QED
    BY <2>1, <2>2, <2>3, <2>4 DEF TypeOK
<1>2. TypeOK /\ [Next]_vars => TypeOK'
  <2> SUFFICES ASSUME TypeOK, [Next]_vars PROVE TypeOK'
    OBVIOUS
  <2>1. ASSUME NEW readable \in BOOLEAN, NEW ok \in BOOLEAN, Launch(readable, ok)
        PROVE TypeOK'
    <3>1. settings' \in Contents
      BY <2>1, LoadedContents DEF Launch
    <3>2. controls' \in [Live -> Nat] /\ pipeline' \in [Device -> Nat]
      BY <2>1, <3>1 DEF Launch, Started, Contents, TypeOK
    <3> QED
      BY <2>1, <3>1, <3>2 DEF Launch, Started, TypeOK
  <2>2. CASE Exit
    BY <2>2, DefaultsAreContents DEF Exit, TypeOK
  <2>3. ASSUME NEW x \in Edited, Change(x) PROVE TypeOK'
    <3>1. settings' \in Contents
      BY <2>3 DEF Change, TypeOK, Contents
    <3> QED
      BY <2>3, <3>1 DEF Change, uiRest, TypeOK
  <2>4. CASE Notify
    BY <2>4 DEF Notify, uiRest, TypeOK
  <2>5. CASE ApplyLive
    <3>1. controls' \in [Live -> Nat]
      BY <2>5 DEF ApplyLive, TypeOK, Contents
    <3> QED
      BY <2>5, <3>1 DEF ApplyLive, uiRest, TypeOK
  <2>6. ASSUME NEW ok \in BOOLEAN, ApplyDevice(ok) PROVE TypeOK'
    <3>1. pipeline' \in [Device -> Nat]
      BY <2>6 DEF ApplyDevice, Started, TypeOK, Contents
    <3> QED
      BY <2>6, <3>1 DEF ApplyDevice, Started, uiRest, TypeOK
  <2>7. CASE Wake
    <3>1. notices' \in Nat
      BY <2>7 DEF Wake, TypeOK
    <3> QED
      BY <2>7, <3>1 DEF Wake, Step, TypeOK
  <2>8. CASE Coalesce
    BY <2>8 DEF Coalesce, Step, TypeOK
  <2>9. CASE TakeSnapshot
    BY <2>9 DEF TakeSnapshot, Step, memVars, TypeOK
  <2>10. CASE Truncate
    BY <2>10 DEF Truncate, Step, memVars, TypeOK
  <2>11. CASE Fill
    BY <2>11 DEF Fill, Step, memVars, TypeOK
  <2>12. CASE Rename
    BY <2>12 DEF Rename, Step, memVars, TypeOK
  <2>13. CASE SaveFails
    BY <2>13 DEF SaveFails, Step, memVars, TypeOK
  <2>14. CASE UNCHANGED vars
    BY <2>14 DEF vars, TypeOK
  <2> QED
    BY <2>1, <2>2, <2>3, <2>4, <2>5, <2>6, <2>7, <2>8, <2>9, <2>10, <2>11, <2>12,
       <2>13, <2>14 DEF Next, UiStep, PersisterNext
<1> QED
  BY <1>1, <1>2, PTL DEF Spec

-----------------------------------------------------------------------------
(* The file is never torn and no edit is forgotten: what the persister     *)
(* renames is a whole snapshot, and an outdated one has a notice behind it.*)
SaveInv == Filled /\ FileIsWhole /\ Outdated /\ UnsavedIsPending

LEMMA SaveStep == TypeOK /\ SaveInv /\ [Next]_vars => SaveInv'
<1> SUFFICES ASSUME TypeOK, SaveInv, [Next]_vars PROVE SaveInv'
  OBVIOUS
<1> USE DEF SaveInv, Filled, FileIsWhole, Outdated, UnsavedIsPending, Pending, Writing
<1>1. ASSUME NEW readable \in BOOLEAN, NEW ok \in BOOLEAN, Launch(readable, ok)
      PROVE SaveInv'
  <2>1. ~edited'
    BY <1>1 DEF Launch
  <2> QED
    BY <1>1, <2>1 DEF Launch
<1>2. CASE Exit
  BY <1>2 DEF Exit
<1>3. ASSUME NEW x \in Edited, Change(x) PROVE SaveInv'
  BY <1>3 DEF Change, uiRest
<1>4. CASE Notify
  BY <1>4 DEF Notify, uiRest, TypeOK
<1>5. CASE ApplyLive
  BY <1>5 DEF ApplyLive, uiRest
<1>6. ASSUME NEW ok \in BOOLEAN, ApplyDevice(ok) PROVE SaveInv'
  BY <1>6 DEF ApplyDevice, uiRest
<1>7. CASE Wake
  BY <1>7 DEF Wake, Step
<1>8. CASE Coalesce
  BY <1>8 DEF Coalesce, Step
<1>9. CASE TakeSnapshot
  BY <1>9 DEF TakeSnapshot, Step, memVars
<1>10. CASE Truncate
  BY <1>10 DEF Truncate, Step, memVars
<1>11. CASE Fill
  BY <1>11 DEF Fill, Step, memVars
<1>12. CASE Rename
  <2>1. file' = snapshot /\ snapshot # Torn
    BY <1>12, FilesAssumption DEF Rename, Step, TypeOK
  <2> QED
    BY <1>12, <2>1 DEF Rename, Step, memVars
<1>13. CASE SaveFails
  BY <1>13 DEF SaveFails, Step, memVars
<1>14. CASE UNCHANGED vars
  BY <1>14 DEF vars
<1> QED
  BY <1>1, <1>2, <1>3, <1>4, <1>5, <1>6, <1>7, <1>8, <1>9, <1>10, <1>11, <1>12,
     <1>13, <1>14 DEF Next, UiStep, PersisterNext

LEMMA SaveInvariant == Spec => []SaveInv
<1>1. Init => SaveInv
  BY FilesAssumption, DefaultsAreContents
  DEF Init, SaveInv, Filled, FileIsWhole, Outdated, UnsavedIsPending, Writing
<1> QED
  BY <1>1, SaveStep, TypeCorrect, PTL DEF Spec

(* settings.json is never torn, wherever the program ends.                 *)
THEOREM FileStaysWhole == Spec => []FileIsWhole
  BY SaveInvariant, PTL DEF SaveInv

(* No edit is forgotten by the debounced persister.                        *)
THEOREM NoEditForgotten == Spec => []UnsavedIsPending
  BY SaveInvariant, PTL DEF SaveInv
-----------------------------------------------------------------------------
(* Ages.                                                                   *)
AgeInv == Filled /\ OfEdits /\ Ascending

(* What a step writes to the file is the snapshot, or nothing.             *)
LEMMA FileStep ==
  ASSUME TypeOK, Filled, [Next]_vars, file' # file
  PROVE  file' = snapshot /\ persister = "rename" /\ up /\ UNCHANGED forgotten
<1> USE DEF Filled
<1>1. ~UNCHANGED vars
  BY DEF vars
<1>2. CASE Rename
  BY <1>2 DEF Rename, Step, memVars
<1>3. CASE PersisterNext \/ SaveFails
  BY <1>2, <1>3 DEF PersisterNext, Wake, Coalesce, TakeSnapshot, Truncate, Fill, SaveFails
<1>4. CASE UiStep \/ \E x \in Edited : Change(x)
  BY <1>4 DEF UiStep, Notify, ApplyLive, ApplyDevice, Change, uiRest
<1> QED
  BY <1>1, <1>3, <1>4 DEF Next, Launch, Exit

LEMMA AgeStep == TypeOK /\ AgeInv /\ [Next]_vars => AgeInv'
<1> SUFFICES ASSUME TypeOK, AgeInv, [Next]_vars PROVE AgeInv'
  OBVIOUS
<1>f. Filled'
  BY DEF AgeInv, Filled, Next, Launch, Exit, Change, UiStep, Notify, ApplyLive, ApplyDevice,
         uiRest, PersisterNext, Wake, Coalesce, TakeSnapshot, Truncate, Fill, Rename,
         SaveFails, Step, memVars, vars
<1>t. /\ changes \in Nat /\ launches \in Nat
      /\ \A x \in Setting : settings[x] \in Nat /\ snapshot[x] \in Nat
      /\ \A x \in Setting : file \in Contents => file[x] \in Nat
  BY SettingsAssumption DEF TypeOK, Contents
<1>e. Edited \subseteq Setting
  BY DEF Setting
<1>1. ASSUME NEW readable \in BOOLEAN, NEW ok \in BOOLEAN, Launch(readable, ok)
      PROVE AgeInv'
  <2>1. \A x \in Edited : Read(readable)[x] <= changes
    BY <1>t, <1>e, DefaultsAreContents DEF AgeInv, OfEdits, Read
  <2>2. /\ \A x \in Edited : settings'[x] = Read(readable)[x]
        /\ \A x \in Setting : Read(readable)[x] <= settings'[x]
    BY <1>1, LoadedContents DEF Launch
  <2>3. ~forgotten' /\ file \in Contents => Read(readable) = file
    BY <1>1, FilesAssumption DEF Launch, Read
  <2>4. UNCHANGED <<changes, file, snapshot, persister>> /\ persister = "wait"
    BY <1>1 DEF Launch, AgeInv, Filled
  <2>5. OfEdits'
    BY <2>1, <2>2, <2>4 DEF AgeInv, OfEdits
  <2>6. Ascending'
    BY <2>2, <2>3, <2>4 DEF Ascending, Writing
  <2> QED
    BY <1>f, <2>5, <2>6 DEF AgeInv
<1>2. CASE Exit
  <2>1. ~up' /\ UNCHANGED <<file, changes>> /\ settings' = Defaults /\ snapshot' = Defaults
    BY <1>2 DEF Exit
  <2> QED
    BY <1>f, <1>t, <1>e, <2>1, DefaultsAreContents DEF AgeInv, OfEdits, Ascending
<1>3. ASSUME NEW x \in Edited, Change(x) PROVE AgeInv'
  <2>1. changes' = changes + 1 /\ UNCHANGED <<up, snapshot, file, persister, forgotten>> /\ up
    BY <1>3 DEF Change, uiRest
  <2>2. \A y \in Setting : settings'[y] = IF y = x THEN changes + 1 ELSE settings[y]
    BY <1>3 DEF Change, TypeOK, Contents
  <2>3. OfEdits'
    BY <1>t, <1>e, <2>1, <2>2 DEF AgeInv, OfEdits
  <2>4. \A y \in Setting : settings[y] <= settings'[y]
    BY <1>t, <1>e, <2>2 DEF AgeInv, OfEdits
  <2>5. Ascending'
    BY <1>t, <2>1, <2>2, <2>4 DEF AgeInv, Ascending
  <2> QED
    BY <1>f, <2>3, <2>5 DEF AgeInv
<1>4. CASE UiStep
  <2>1. UNCHANGED <<up, settings, snapshot, file, persister, forgotten, changes>>
    BY <1>4 DEF UiStep, Notify, ApplyLive, ApplyDevice, uiRest
  <2> QED
    BY <1>f, <2>1 DEF AgeInv, OfEdits, Ascending
<1>5. CASE Wake \/ Coalesce \/ SaveFails
  <2>1. /\ UNCHANGED <<up, settings, snapshot, file, forgotten, changes>>
        /\ persister' \notin Writing
    BY <1>5 DEF Wake, Coalesce, SaveFails, Step, memVars, Writing
  <2> QED
    BY <1>f, <2>1 DEF AgeInv, OfEdits, Ascending
<1>6. CASE TakeSnapshot
  <2>1. /\ UNCHANGED <<up, settings, file, forgotten, changes>>
        /\ snapshot' = settings
    BY <1>6 DEF TakeSnapshot, memVars, Step
  <2> QED
    BY <1>f, <1>t, <2>1 DEF AgeInv, OfEdits, Ascending
<1>7. CASE Truncate \/ Fill
  <2>1. /\ UNCHANGED <<up, settings, snapshot, file, forgotten, changes>>
        /\ persister \in Writing
    BY <1>7 DEF Truncate, Fill, memVars, Step, Writing
  <2> QED
    BY <1>f, <2>1 DEF AgeInv, OfEdits, Ascending
<1>8. CASE Rename
  <2>1. /\ UNCHANGED <<up, settings, snapshot, forgotten, changes>> /\ up
        /\ persister \in Writing /\ persister' \notin Writing /\ file' = snapshot
    BY <1>8 DEF Rename, memVars, Step, Writing, AgeInv, Filled
  <2> QED
    BY <1>f, <2>1 DEF AgeInv, OfEdits, Ascending
<1>9. CASE UNCHANGED vars
  BY <1>9, <1>f DEF vars, AgeInv, OfEdits, Ascending
<1> QED
  BY <1>1, <1>2, <1>3, <1>4, <1>5, <1>6, <1>7, <1>8, <1>9 DEF Next, PersisterNext

(* Nothing saved is replaced by something older, over any number of edits, *)
(* exits and starts.                                                       *)
THEOREM NothingGoesBackHolds == Spec => NothingGoesBack
<1>1. Init => AgeInv
  <2> SUFFICES ASSUME Init PROVE AgeInv
    OBVIOUS
  <2>1. /\ up = FALSE /\ persister = "wait" /\ edited = FALSE /\ changes = 0
        /\ settings = Defaults /\ snapshot = Defaults /\ file \in {NoFile, Defaults}
    BY DEF Init
  <2>2. Edited \subseteq Setting
    BY DEF Setting
  <2>3. OfEdits
    BY <2>1, <2>2, DefaultsAreContents, FilesAssumption DEF OfEdits
  <2> QED
    BY <2>1, <2>3 DEF AgeInv, Filled, Ascending
<1>2. TypeOK /\ AgeInv /\ [Next]_vars
      => (~forgotten /\ file \in Contents /\ file' \in Contents
          => \A x \in Setting : file'[x] >= file[x])
  <2> SUFFICES ASSUME TypeOK, AgeInv, [Next]_vars, ~forgotten, file \in Contents,
                      NEW x \in Setting
               PROVE  file'[x] >= file[x]
    OBVIOUS
  <2>1. file[x] \in Nat /\ snapshot[x] \in Nat
    BY DEF TypeOK, Contents
  <2>2. CASE file' = file
    BY <2>1, <2>2
  <2>3. CASE file' # file
    BY <2>1, <2>3, FileStep DEF AgeInv, Ascending, Writing
  <2> QED
    BY <2>2, <2>3
<1> QED
  BY <1>1, <1>2, AgeStep, TypeCorrect, PTL DEF Spec, NothingGoesBack

-----------------------------------------------------------------------------
(* Between commands the audio threads follow the settings.                 *)
LEMMA FollowStep == TypeOK /\ Following /\ [Next]_vars => Following'
<1> SUFFICES ASSUME TypeOK, Following, [Next]_vars PROVE Following'
  OBVIOUS
<1>a. Live \subseteq Setting /\ Device \subseteq Setting
  BY DEF Setting, Edited
<1>1. ASSUME NEW readable \in BOOLEAN, NEW ok \in BOOLEAN, Launch(readable, ok)
      PROVE Following'
  <2>1. /\ \A x \in Live : controls'[x] = settings'[x]
        /\ running' => \A x \in Device : pipeline'[x] = settings'[x]
    BY <1>1 DEF Launch, Started
  <2>2. UNCHANGED <<ui, target>>
    BY <1>1 DEF Launch
  <2> QED
    BY <2>1, <2>2 DEF Following
<1>2. CASE Exit
  BY <1>2 DEF Exit, Following
<1>3. ASSUME NEW x \in Edited, Change(x) PROVE Following'
  <2>1. \A y \in Setting \ {x} : settings'[y] = settings[y]
    BY <1>3 DEF Change, TypeOK, Contents
  <2> QED
    BY <1>a, <1>3, <2>1 DEF Change, uiRest, Following
<1>4. CASE Notify
  BY <1>4, SettingsAssumption DEF Notify, uiRest, Following, Edited
<1>5. CASE ApplyLive
  <2>1. \A y \in Live : controls'[y] = IF y = target THEN settings[target] ELSE controls[y]
    BY <1>5 DEF ApplyLive, TypeOK
  <2> QED
    BY <1>5, <2>1, SettingsAssumption DEF ApplyLive, uiRest, Following
<1>6. ASSUME NEW ok \in BOOLEAN, ApplyDevice(ok) PROVE Following'
  BY <1>6, SettingsAssumption DEF ApplyDevice, Started, uiRest, Following
<1>7. CASE PersisterNext \/ SaveFails
  BY <1>7 DEF PersisterNext, Wake, Coalesce, TakeSnapshot, Truncate, Fill, Rename, SaveFails,
              Step, memVars, Following
<1>8. CASE UNCHANGED vars
  BY <1>8 DEF vars, Following
<1> QED
  BY <1>1, <1>2, <1>3, <1>4, <1>5, <1>6, <1>7, <1>8 DEF Next, UiStep

(* LiveControls and the running pipeline agree with the settings whenever  *)
(* no command is under way.                                                *)
THEOREM RunningFollowsHolds == Spec => []RunningFollows
<1>1. Init => Following
  BY DEF Init, Following
<1>2. Following => RunningFollows
  BY DEF Following, RunningFollows
<1> QED
  BY <1>1, <1>2, FollowStep, TypeCorrect, PTL DEF Spec
=============================================================================
