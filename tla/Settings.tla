------------------------------ MODULE Settings ------------------------------
(***************************************************************************)
(* The settings of one profile, from the command that changes one to the   *)
(* file and to the audio pipeline that runs with it:                       *)
(*   - SettingsStore and its persister thread                              *)
(*     (crates/verio-app/src/settings.rs);                                 *)
(*   - the Tauri commands that change a setting, all of them on the UI     *)
(*     thread, and the start of the program (ui/src-tauri/src/lib.rs);     *)
(*   - LiveControls and the start of a pipeline, which copy settings       *)
(*     (crates/verio-app/src/pipeline.rs).                                 *)
(* A value is the number of the edit that wrote it (0: the default), so    *)
(* "older" and "newer" can be told; the peer id is numbered by the launch  *)
(* that generated it (0: empty).  The program may end between any two      *)
(* steps.  A file system whose rename is not atomic, or that loses writes  *)
(* it acknowledged, is left out.                                           *)
(***************************************************************************)
EXTENDS Naturals

CONSTANTS Live,         \* settings copied to LiveControls when they change
          Device,       \* settings a pipeline is started with
          Plain,        \* settings only read when they are needed
          Id,           \* the peer id: set by the load, not by a command
          NoFile, Torn, \* a file that is absent, or truncated and not filled
          MaxChanges,   \* bound: edits
          MaxLaunches   \* bound: starts of the program

Edited  == Live \cup Device \cup Plain
Setting == Edited \cup {Id}

ASSUME SettingsAssumption ==
    /\ Id \notin Edited
    /\ Live \cap Device = {} /\ Plain \cap (Live \cup Device) = {}
    /\ MaxChanges \in Nat /\ MaxLaunches \in Nat

Contents == [Setting -> Nat]

ASSUME FilesAssumption == NoFile \notin Contents /\ Torn \notin Contents /\ NoFile # Torn

Defaults == [x \in Setting |-> 0]

VARIABLES
    up,          \* the program runs
    settings,    \* the settings behind the mutex
    ui,          \* UI thread: between commands, or where in one
    target,      \* the setting its command changes
    notices,     \* messages in the channel to the persister
    persister,   \* the persister thread's place in its loop
    snapshot,    \* what it took to write
    tmp, file,   \* settings.json.tmp and settings.json
    controls,    \* LiveControls
    running,     \* a pipeline runs ...
    pipeline,    \* ... and was started with these settings
    changes,     \* edits so far
    launches,    \* starts of the program so far
    \* history
    edited,      \* a command of this run changed a setting
    forgotten,   \* this run could not read the file it found
    failed       \* the last save was given up

memVars == <<settings, ui, target, notices, controls, running, pipeline, edited, forgotten>>
vars == <<up, settings, ui, target, notices, persister, snapshot, tmp, file, controls,
          running, pipeline, changes, launches, edited, forgotten, failed>>

TypeOK ==
    /\ up \in BOOLEAN /\ running \in BOOLEAN
    /\ edited \in BOOLEAN /\ forgotten \in BOOLEAN /\ failed \in BOOLEAN
    /\ settings \in Contents /\ snapshot \in Contents
    /\ ui \in {"idle", "notify", "apply"} /\ target \in Setting
    /\ notices \in Nat /\ changes \in 0 .. MaxChanges /\ launches \in 0 .. MaxLaunches
    /\ persister \in {"wait", "sleep", "snapshot", "truncate", "fill", "rename"}
    /\ tmp \in Contents \cup {NoFile, Torn}
    /\ file \in Contents \cup {NoFile, Torn}
    /\ controls \in [Live -> Nat] /\ pipeline \in [Device -> Nat]

(* The first start finds no file, or one written before some of the fields *)
(* existed, the peer id among them (serde fills in the defaults).          *)
Init ==
    /\ up = FALSE /\ settings = Defaults /\ ui = "idle" /\ target = Id
    /\ notices = 0 /\ persister = "wait" /\ snapshot = Defaults
    /\ tmp = NoFile /\ file \in {NoFile, Defaults}
    /\ controls = [x \in Live |-> 0] /\ running = FALSE /\ pipeline = [x \in Device |-> 0]
    /\ changes = 0 /\ launches = 0
    /\ edited = FALSE /\ forgotten = FALSE /\ failed = FALSE

-----------------------------------------------------------------------------
(* Start and end of the program.                                           *)

(* read_settings: what the file holds, or the defaults if there is none,   *)
(* it cannot be read or it cannot be parsed.                               *)
Read(readable) == IF readable /\ file \in Contents THEN file ELSE Defaults

(* ensure_peer_id.                                                         *)
WithPeerId(s) == IF s[Id] = 0 THEN [s EXCEPT ![Id] = launches + 1] ELSE s

(* start: the devices open and the pipeline runs with the settings, or one *)
(* of them fails and none runs.                                            *)
Started(ok, s) ==
    /\ running' = ok
    /\ pipeline' = [x \in Device |-> IF ok THEN s[x] ELSE pipeline[x]]

(* Faulty (the variants marked so only show that the properties can fail): *)
(* the program starts from the defaults.                                   *)
LaunchFresh(readable, ok) ==
    /\ ~up /\ launches < MaxLaunches
    /\ up' = TRUE /\ launches' = launches + 1
    /\ settings' = WithPeerId(Defaults)
    /\ controls' = [x \in Live |-> settings'[x]]
    /\ Started(ok, settings')
    /\ forgotten' = (file # NoFile /\ (~readable \/ file = Torn))
    /\ UNCHANGED <<ui, target, notices, persister, snapshot, tmp, file, changes,
                   edited, failed>>

(* Faulty: LiveControls start from the defaults.                           *)
LaunchDeaf(readable, ok) ==
    /\ ~up /\ launches < MaxLaunches
    /\ up' = TRUE /\ launches' = launches + 1
    /\ settings' = WithPeerId(Read(readable))
    /\ controls' = [x \in Live |-> 0]
    /\ Started(ok, settings')
    /\ forgotten' = (file # NoFile /\ (~readable \/ file = Torn))
    /\ UNCHANGED <<ui, target, notices, persister, snapshot, tmp, file, changes,
                   edited, failed>>

(* SettingsStore::load and setup.  Nothing is saved before the first edit. *)
Launch(readable, ok) ==
    /\ ~up /\ launches < MaxLaunches
    /\ up' = TRUE /\ launches' = launches + 1
    /\ settings' = WithPeerId(Read(readable))
    /\ controls' = [x \in Live |-> settings'[x]]
    /\ Started(ok, settings')
    /\ forgotten' = (file # NoFile /\ (~readable \/ file = Torn))
    /\ UNCHANGED <<ui, target, notices, persister, snapshot, tmp, file, changes,
                   edited, failed>>

(* The program ends, by a crash or because the window was closed: nothing  *)
(* calls flush(), so both lose whatever is only in memory.                 *)
Exit ==
    /\ up
    /\ up' = FALSE
    /\ settings' = Defaults /\ ui' = "idle" /\ target' = Id /\ notices' = 0
    /\ persister' = "wait" /\ snapshot' = Defaults
    /\ controls' = [x \in Live |-> 0] /\ running' = FALSE
    /\ pipeline' = [x \in Device |-> 0]
    /\ edited' = FALSE /\ forgotten' = FALSE /\ failed' = FALSE
    /\ UNCHANGED <<tmp, file, changes, launches>>

-----------------------------------------------------------------------------
(* UI thread: update() changes the setting under the lock, then sends a    *)
(* notice; the command then passes the value on.                           *)

uiRest == <<up, persister, snapshot, tmp, file, launches, forgotten, failed>>

Change(x) ==
    /\ up /\ ui = "idle" /\ changes < MaxChanges
    /\ changes' = changes + 1
    /\ settings' = [settings EXCEPT ![x] = changes + 1]
    /\ target' = x
    /\ ui' = "notify"
    /\ edited' = TRUE
    /\ UNCHANGED <<uiRest, notices, controls, running, pipeline>>

(* Faulty: no notice to a persister that is awake anyway.                  *)
NotifyAsleep ==
    /\ up /\ ui = "notify"
    /\ notices' = IF persister = "wait" THEN notices + 1 ELSE notices
    /\ ui' = IF target \in Plain THEN "idle" ELSE "apply"
    /\ UNCHANGED <<uiRest, settings, target, controls, running, pipeline, changes, edited>>

Notify ==
    /\ up /\ ui = "notify"
    /\ notices' = notices + 1
    /\ ui' = IF target \in Plain THEN "idle" ELSE "apply"
    /\ UNCHANGED <<uiRest, settings, target, controls, running, pipeline, changes, edited>>

(* set_input_gain, set_noise_suppression, set_voice_quality and            *)
(* set_music_quality (a bitrate beyond the limits of its setter is stored  *)
(* as it is, and used limited until the next start).                       *)
ApplyLive ==
    /\ up /\ ui = "apply" /\ target \in Live
    /\ controls' = [controls EXCEPT ![target] = settings[target]]
    /\ ui' = "idle"
    /\ UNCHANGED <<uiRest, settings, target, notices, running, pipeline, changes, edited>>

(* set_input_device, set_output_device, set_loopback, set_debug_wavs: the  *)
(* old pipeline is shut down and its threads joined before the settings    *)
(* are read for the new one.                                               *)
ApplyDevice(ok) ==
    /\ up /\ ui = "apply" /\ target \in Device
    /\ Started(ok, settings)
    /\ ui' = "idle"
    /\ UNCHANGED <<uiRest, settings, target, notices, controls, changes, edited>>

-----------------------------------------------------------------------------
(* Persister thread: wait for a notice, sleep for the debounce window,     *)
(* swallow what arrived meanwhile, then save what the settings are now.    *)

Step(from, to) == up /\ persister = from /\ persister' = to

(* Faulty: the thread does not wait for the notice it takes.               *)
WakeUnasked ==
    /\ Step("wait", "sleep")
    /\ notices' = notices - 1
    /\ failed' = FALSE
    /\ UNCHANGED <<up, settings, ui, target, snapshot, tmp, file, controls,
                   running, pipeline, changes, launches, edited, forgotten>>

Wake ==
    /\ Step("wait", "sleep")
    /\ notices > 0
    /\ notices' = notices - 1
    /\ failed' = FALSE
    /\ UNCHANGED <<up, settings, ui, target, snapshot, tmp, file, controls,
                   running, pipeline, changes, launches, edited, forgotten>>

Coalesce ==
    /\ Step("sleep", "snapshot")
    /\ notices' = 0
    /\ UNCHANGED <<up, settings, ui, target, snapshot, tmp, file, controls,
                   running, pipeline, changes, launches, edited, forgotten, failed>>

TakeSnapshot ==
    /\ Step("snapshot", "truncate")
    /\ snapshot' = settings
    /\ UNCHANGED <<up, memVars, tmp, file, changes, launches, failed>>

(* Faulty: the file itself is truncated.                                   *)
TruncateInPlace ==
    /\ Step("truncate", "fill")
    /\ tmp' = Torn /\ file' = Torn
    /\ UNCHANGED <<up, memVars, snapshot, changes, launches, failed>>

(* write_settings: std::fs::write truncates, then writes; then the rename. *)
Truncate ==
    /\ Step("truncate", "fill")
    /\ tmp' = Torn
    /\ UNCHANGED <<up, memVars, snapshot, file, changes, launches, failed>>

Fill ==
    /\ Step("fill", "rename")
    /\ tmp' = snapshot
    /\ UNCHANGED <<up, memVars, snapshot, file, changes, launches, failed>>

(* Faulty: notices that came during the save are taken as answered by it.  *)
RenameAnswersAll ==
    /\ Step("rename", "wait")
    /\ file' = tmp /\ tmp' = NoFile
    /\ notices' = 0
    /\ UNCHANGED <<up, settings, ui, target, snapshot, controls, running, pipeline,
                   changes, launches, edited, forgotten, failed>>

Rename ==
    /\ Step("rename", "wait")
    /\ file' = tmp /\ tmp' = NoFile
    /\ UNCHANGED <<up, memVars, snapshot, changes, launches, failed>>

(* A save that fails in any of its parts is logged and given up; only the  *)
(* next notice makes the persister try again.                              *)
SaveFails ==
    /\ \E s \in {"truncate", "fill", "rename"} : Step(s, "wait")
    /\ failed' = TRUE
    /\ UNCHANGED <<up, memVars, snapshot, tmp, file, changes, launches>>

-----------------------------------------------------------------------------
PersisterNext == Wake \/ Coalesce \/ TakeSnapshot \/ Truncate \/ Fill \/ Rename

UiStep == Notify \/ ApplyLive \/ \E ok \in BOOLEAN : ApplyDevice(ok)

Next ==
    \/ \E readable, ok \in BOOLEAN : Launch(readable, ok)
    \/ Exit
    \/ \E x \in Edited : Change(x)
    \/ UiStep
    \/ PersisterNext \/ SaveFails

Spec == Init /\ [][Next]_vars

(* The operating system schedules both threads; the user need not do       *)
(* anything, and a save may fail whenever it is tried.                     *)
FairSpec == Spec /\ WF_vars(UiStep) /\ WF_vars(PersisterNext \/ SaveFails)

-----------------------------------------------------------------------------
(* settings.rs:256 "an interrupted write never corrupts the file": it is   *)
(* whole whenever the program ends, whatever the persister was doing.      *)
FileIsWhole == file # Torn

(* The persister will still come to see the present settings.              *)
Pending ==
    \/ ui = "notify" \/ notices > 0 \/ persister \in {"sleep", "snapshot"}
    \/ persister \in {"truncate", "fill", "rename"} /\ snapshot = settings

(* No edit is forgotten: while the program runs, settings that differ from *)
(* the file are on their way to it, or their save was given up - however   *)
(* edits fall between the persister's drain, snapshot and rename.          *)
UnsavedIsPending == up /\ edited /\ settings # file => Pending \/ failed

(* A saved setting is never replaced by an older one, and a saved peer id  *)
(* stays, over any number of edits, exits and starts - unless a start      *)
(* could not read the file (settings.rs:180 "overwritten on next change"). *)
NothingGoesBack ==
    [][~forgotten /\ file \in Contents /\ file' \in Contents
       => \A x \in Setting : file'[x] >= file[x]]_vars

(* Between commands the audio threads work with what the settings say,     *)
(* also right after a start and after a restart that failed.               *)
RunningFollows ==
    up /\ ui = "idle" => /\ \A x \in Live : controls[x] = settings[x]
                         /\ running => \A x \in Device : pipeline[x] = settings[x]

(* Every edit reaches the file unless the program ends first or a save is  *)
(* given up: a stream of edits cannot keep the persister from saving.      *)
EditsReachFile ==
    \A x \in Edited, n \in 1 .. MaxChanges :
        up /\ settings[x] = n
        ~> ~up \/ failed \/ (file # NoFile /\ file[x] >= n)
=============================================================================
