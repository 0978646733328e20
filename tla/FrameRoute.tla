----------------------------- MODULE FrameRoute -----------------------------
(***************************************************************************)
(* What the room promises about the frames the microphone produced: each   *)
(* is handed to at most one session, and after a session was left or       *)
(* replaced every sender may hand it one more frame, not two.  When a      *)
(* frame is handed over, and in which order, is left open.                 *)
(***************************************************************************)
EXTENDS Naturals

CONSTANTS Session, Sender, NoSession, Waiting

VARIABLES current,   \* the session frames are meant for, or NoSession
          past,      \* sessions that were it
          captured,  \* frames produced so far: 1 .. captured
          fate,      \* the session each was handed to, or Waiting
          strayed    \* who has already handed a frame to a past session

vars == <<current, past, captured, fate, strayed>>

Init ==
    /\ current = NoSession /\ past = {}
    /\ captured = 0 /\ fate = [f \in {} |-> Waiting]
    /\ strayed = {}

Open(s) ==
    /\ s # current /\ s \notin past
    /\ current' = s
    /\ past' = past \cup ({current} \ {NoSession})
    /\ UNCHANGED <<captured, fate, strayed>>

Leave ==
    /\ current # NoSession
    /\ current' = NoSession
    /\ past' = past \cup {current}
    /\ UNCHANGED <<captured, fate, strayed>>

Capture ==
    /\ captured' = captured + 1
    /\ fate' = [f \in 1 .. captured + 1 |-> IF f \in 1 .. captured THEN fate[f] ELSE Waiting]
    /\ UNCHANGED <<current, past, strayed>>

Hand(u, f, s) ==
    /\ f \in 1 .. captured /\ fate[f] = Waiting
    /\ \/ s = current /\ UNCHANGED strayed
       \/ /\ s \in past /\ <<u, s>> \notin strayed
          /\ strayed' = strayed \cup {<<u, s>>}
    /\ fate' = [fate EXCEPT ![f] = s]
    /\ UNCHANGED <<current, past, captured>>

Next ==
    \/ \E s \in Session : Open(s)
    \/ Leave
    \/ Capture
    \/ \E u \in Sender, f \in 1 .. captured, s \in Session : Hand(u, f, s)

Spec == Init /\ [][Next]_vars
=============================================================================
