------------------------- MODULE RoomSession_proofs -------------------------
(***************************************************************************)
(* Theorems about RoomSession, for any sets of flows and peers.            *)
(***************************************************************************)
EXTENDS RoomSession, TLAPS

(* Every step keeps the variables in their types.                          *)
LEMMA TypeNext == TypeOK /\ [Next]_vars => TypeOK'
<1> SUFFICES ASSUME TypeOK, [Next]_vars PROVE TypeOK'
    OBVIOUS
<1> USE FlowAssumption DEF TypeOK, RoomState, FlowStep, Thread, Listener, ConnEvent,
        vars, roomVars, flowVars, mediaVars, signalVars
<1>1. ASSUME NEW f \in Flow, RunVps(f) PROVE TypeOK'
    BY <1>1 DEF RunVps, Begin
<1>2. ASSUME NEW f \in Flow, RunDirect(f) PROVE TypeOK'
    BY <1>2 DEF RunDirect, Begin
<1>3. ASSUME NEW f \in Flow, RunCreateInvite(f) PROVE TypeOK'
    BY <1>3 DEF RunCreateInvite, Begin
<1>4. ASSUME NEW f \in Flow, RunAcceptInvite(f) PROVE TypeOK'
    BY <1>4 DEF RunAcceptInvite, Begin
<1>5. ASSUME NEW f \in Flow, RoomCreated(f) PROVE TypeOK'
    BY <1>5 DEF RoomCreated
<1>6. ASSUME NEW f \in Flow, NEW S \in SUBSET Peer, NEW p \in Peer, RoomJoined(f, S, p) PROVE TypeOK'
    BY <1>6 DEF RoomJoined
<1>7. ASSUME NEW f \in Flow, NEW p \in Peer, IdentityExchanged(f, p) PROVE TypeOK'
    BY <1>7 DEF IdentityExchanged
<1>8. ASSUME NEW f \in Flow, NEW p \in Peer, AdoptPeer(f, p) PROVE TypeOK'
    BY <1>8 DEF AdoptPeer, AddPeer
<1>9. ASSUME NEW f \in Flow, StorePending(f) PROVE TypeOK'
    BY <1>9 DEF StorePending
<1>10. ASSUME NEW f \in Flow, RunCompleteInvite(f) PROVE TypeOK'
    BY <1>10 DEF RunCompleteInvite
<1>11. ASSUME NEW f \in Flow, BadBlob(f) PROVE TypeOK'
    BY <1>11 DEF BadBlob, CardsOnState
<1>12. ASSUME NEW f \in Flow, GoodBlob(f) PROVE TypeOK'
    BY <1>12 DEF GoodBlob
<1>13. ASSUME NEW f \in Flow, NEW p \in Peer, Activate(f, p) PROVE TypeOK'
    BY <1>13 DEF Activate, Ready
<1>14. ASSUME NEW f \in Flow, InstallListener(f) PROVE TypeOK'
    BY <1>14 DEF InstallListener
<1>15. ASSUME NEW f \in Flow, Fail(f) PROVE TypeOK'
    BY <1>15 DEF Fail, Ready, TeardownToIdle, TeardownSession, CardsOnState
<1>16. ASSUME NEW f \in Flow, DriverConnects(f) PROVE TypeOK'
    BY <1>16 DEF DriverConnects
<1>17. ASSUME NEW f \in Flow, DriverStops(f) PROVE TypeOK'
    BY <1>17 DEF DriverStops
<1>18. ASSUME NEW f \in Flow, DriverFails(f) PROVE TypeOK'
    BY <1>18 DEF DriverFails
<1>19. ASSUME NEW f \in Flow, PumpConnected(f) PROVE TypeOK'
    BY <1>19 DEF PumpConnected
<1>20. ASSUME NEW f \in Flow, NEW p \in Peer, PumpHello(f, p) PROVE TypeOK'
    BY <1>20 DEF PumpHello, Sender, AddPeer
<1>21. ASSUME NEW f \in Flow, NEW p \in Peer, PumpMark(f, p) PROVE TypeOK'
    BY <1>21 DEF PumpMark, Sender
<1>22. ASSUME NEW f \in Flow, PumpDisconnected(f) PROVE TypeOK'
    BY <1>22 DEF PumpDisconnected, TeardownSession, CardsOnState
<1>23. ASSUME NEW f \in Flow, ListenerLeaves(f) PROVE TypeOK'
    BY <1>23 DEF ListenerLeaves, ListenerEnds
<1>24. ASSUME NEW f \in Flow, ListenerPolls(f) PROVE TypeOK'
    BY <1>24 DEF ListenerPolls
<1>25. ASSUME NEW f \in Flow, ListenerTimeout(f) PROVE TypeOK'
    BY <1>25 DEF ListenerTimeout
<1>26. ASSUME NEW f \in Flow, ListenerClosed(f) PROVE TypeOK'
    BY <1>26 DEF ListenerClosed, ListenerEnds
<1>27. ASSUME NEW f \in Flow, NEW p \in Peer, ListenerPeerJoined(f, p) PROVE TypeOK'
    BY <1>27 DEF ListenerPeerJoined, AddPeer
<1>28. ASSUME NEW f \in Flow, NEW p \in Peer, ListenerPeerLeft(f, p) PROVE TypeOK'
    BY <1>28 DEF ListenerPeerLeft, RemovePeer, TeardownSession
<1>29. ASSUME NEW f \in Flow, RosterEnds(f) PROVE TypeOK'
    BY <1>29 DEF RosterEnds
<1>30. ASSUME NEW f \in Flow, NEW S \in SUBSET Peer, RosterPrunes(f, S) PROVE TypeOK'
    BY <1>30 DEF RosterPrunes, PruneStalePeers
<1>31. CASE Disconnect
    BY <1>31 DEF Disconnect, TeardownToIdle, TeardownSession, CardsOnState
<1>32. CASE UNCHANGED vars
    BY <1>32
<1>33. ASSUME NEW f \in Flow, FlowNext(f) PROVE TypeOK'
    BY <1>33, <1>1, <1>2, <1>3, <1>4, <1>5, <1>6, <1>7, <1>8, <1>9, <1>10, <1>11, <1>12, <1>13, <1>14, <1>15 DEF FlowNext
<1>34. ASSUME NEW f \in Flow, DriverNext(f) PROVE TypeOK'
    BY <1>34, <1>16, <1>17, <1>18 DEF DriverNext
<1>35. ASSUME NEW f \in Flow, PumpNext(f) PROVE TypeOK'
    BY <1>35, <1>19, <1>20, <1>21, <1>22 DEF PumpNext
<1>36. ASSUME NEW f \in Flow, ListenerNext(f) PROVE TypeOK'
    BY <1>36, <1>23, <1>24, <1>25, <1>26, <1>27, <1>28 DEF ListenerNext
<1>37. ASSUME NEW f \in Flow, RosterNext(f) PROVE TypeOK'
    BY <1>37, <1>29, <1>30 DEF RosterNext
<1> QED
    BY <1>31, <1>32, <1>33, <1>34, <1>35, <1>36, <1>37 DEF Next

(* Type correctness for every set of flows and peers.                      *)
THEOREM TypeCorrect == Spec => []TypeOK
<1>1. Init => TypeOK
    BY DEF Init, TypeOK, RoomState, FlowStep, Thread, Listener, ConnEvent
<1> QED
    BY <1>1, TypeNext, PTL DEF Spec

-----------------------------------------------------------------------------
(* ActiveIsPumped is not inductive: Activate(f) needs to know that nobody  *)
(* told f to stop before, which holds because only a session that was      *)
(* activated, and hence is past its signalling, can be told.               *)
SessionInv ==
    \A f \in Flow :
        /\ active = f => /\ pump[f] = "up" /\ f \notin told
                         /\ pc[f] \in {"install", "done"}
        /\ f \in told => pc[f] \in {"install", "done"}

(* The threads the room has signalled are there to notice: a driver told   *)
(* to disconnect still runs and so does its pump, a listener whose stop    *)
(* flag is set still looks at it, and a flow starts its listener last.     *)
(* Only accepting flows parse a blob.                                      *)
ToldRuns       == \A f \in told : driver[f] = "up" /\ pump[f] = "up"
StoppedListens == \A f \in stopped : listener[f] \in {"check", "read"}
ThreadInv ==
    /\ ToldRuns /\ StoppedListens
    /\ \A f \in Flow : /\ stopRef = f => listener[f] # "none"
                       /\ listener[f] # "none" => pc[f] = "done"
                       /\ pc[f] = "parse" => f \in Accept

SafeInv == SessionInv /\ ThreadInv /\ ConnectingIsOwned /\ ConnectedIsPumped /\ PeersAreTracked


(* The inductive step of the four invariants.                              *)
LEMMA SafeNext == TypeOK /\ SafeInv /\ [Next]_vars => SafeInv'
<1> SUFFICES ASSUME TypeOK, SafeInv, [Next]_vars PROVE SafeInv'
    OBVIOUS
<1> USE FlowAssumption DEF TypeOK, SafeInv, SessionInv, ThreadInv, ToldRuns,
        StoppedListens, ConnectingIsOwned, ConnectedIsPumped,
        PeersAreTracked, Working, IsBusy, RoomState, FlowStep, Thread, Listener,
        vars, roomVars, flowVars, mediaVars, signalVars
<1>1. ASSUME NEW f \in Flow, RunVps(f) PROVE SafeInv'
    BY <1>1 DEF RunVps, Begin
<1>2. ASSUME NEW f \in Flow, RunDirect(f) PROVE SafeInv'
    BY <1>2 DEF RunDirect, Begin
<1>3. ASSUME NEW f \in Flow, RunCreateInvite(f) PROVE SafeInv'
    BY <1>3 DEF RunCreateInvite, Begin
<1>4. ASSUME NEW f \in Flow, RunAcceptInvite(f) PROVE SafeInv'
    BY <1>4 DEF RunAcceptInvite, Begin
<1>5. ASSUME NEW f \in Flow, RoomCreated(f) PROVE SafeInv'
    BY <1>5 DEF RoomCreated
<1>6. ASSUME NEW f \in Flow, NEW S \in SUBSET Peer, NEW p \in Peer, RoomJoined(f, S, p) PROVE SafeInv'
    BY <1>6 DEF RoomJoined
<1>7. ASSUME NEW f \in Flow, NEW p \in Peer, IdentityExchanged(f, p) PROVE SafeInv'
    BY <1>7 DEF IdentityExchanged
<1>8. ASSUME NEW f \in Flow, NEW p \in Peer, AdoptPeer(f, p) PROVE SafeInv'
    BY <1>8 DEF AdoptPeer, AddPeer
<1>9. ASSUME NEW f \in Flow, StorePending(f) PROVE SafeInv'
    BY <1>9 DEF StorePending
<1>10. ASSUME NEW f \in Flow, RunCompleteInvite(f) PROVE SafeInv'
    BY <1>10 DEF RunCompleteInvite
<1>11. ASSUME NEW f \in Flow, BadBlob(f) PROVE SafeInv'
    BY <1>11 DEF BadBlob, CardsOnState
<1>12. ASSUME NEW f \in Flow, GoodBlob(f) PROVE SafeInv'
    BY <1>12 DEF GoodBlob
<1>13. ASSUME NEW f \in Flow, NEW p \in Peer, Activate(f, p) PROVE SafeInv'
    BY <1>13 DEF Activate, Ready
<1>14. ASSUME NEW f \in Flow, InstallListener(f) PROVE SafeInv'
    BY <1>14 DEF InstallListener
<1>15. ASSUME NEW f \in Flow, Fail(f) PROVE SafeInv'
    BY <1>15 DEF Fail, Ready, TeardownToIdle, TeardownSession, CardsOnState
<1>16. ASSUME NEW f \in Flow, DriverConnects(f) PROVE SafeInv'
    BY <1>16 DEF DriverConnects
<1>17. ASSUME NEW f \in Flow, DriverStops(f) PROVE SafeInv'
    BY <1>17 DEF DriverStops
<1>18. ASSUME NEW f \in Flow, DriverFails(f) PROVE SafeInv'
    BY <1>18 DEF DriverFails
<1>19. ASSUME NEW f \in Flow, PumpConnected(f) PROVE SafeInv'
    BY <1>19 DEF PumpConnected
<1>20. ASSUME NEW f \in Flow, NEW p \in Peer, PumpHello(f, p) PROVE SafeInv'
    BY <1>20 DEF PumpHello, Sender, AddPeer
<1>21. ASSUME NEW f \in Flow, NEW p \in Peer, PumpMark(f, p) PROVE SafeInv'
    BY <1>21 DEF PumpMark, Sender
<1>22. ASSUME NEW f \in Flow, PumpDisconnected(f) PROVE SafeInv'
    BY <1>22 DEF PumpDisconnected, TeardownSession, CardsOnState
<1>23. ASSUME NEW f \in Flow, ListenerLeaves(f) PROVE SafeInv'
    BY <1>23 DEF ListenerLeaves, ListenerEnds
<1>24. ASSUME NEW f \in Flow, ListenerPolls(f) PROVE SafeInv'
    BY <1>24 DEF ListenerPolls
<1>25. ASSUME NEW f \in Flow, ListenerTimeout(f) PROVE SafeInv'
    BY <1>25 DEF ListenerTimeout
<1>26. ASSUME NEW f \in Flow, ListenerClosed(f) PROVE SafeInv'
    BY <1>26 DEF ListenerClosed, ListenerEnds
<1>27. ASSUME NEW f \in Flow, NEW p \in Peer, ListenerPeerJoined(f, p) PROVE SafeInv'
    BY <1>27 DEF ListenerPeerJoined, AddPeer
<1>28. ASSUME NEW f \in Flow, NEW p \in Peer, ListenerPeerLeft(f, p) PROVE SafeInv'
    BY <1>28 DEF ListenerPeerLeft, RemovePeer, TeardownSession
<1>29. ASSUME NEW f \in Flow, RosterEnds(f) PROVE SafeInv'
    BY <1>29 DEF RosterEnds
<1>30. ASSUME NEW f \in Flow, NEW S \in SUBSET Peer, RosterPrunes(f, S) PROVE SafeInv'
    BY <1>30 DEF RosterPrunes, PruneStalePeers
<1>31. CASE Disconnect
    BY <1>31 DEF Disconnect, TeardownToIdle, TeardownSession, CardsOnState
<1>32. CASE UNCHANGED vars
    BY <1>32
<1>33. ASSUME NEW f \in Flow, FlowNext(f) PROVE SafeInv'
    BY <1>33, <1>1, <1>2, <1>3, <1>4, <1>5, <1>6, <1>7, <1>8, <1>9, <1>10, <1>11, <1>12, <1>13, <1>14, <1>15 DEF FlowNext
<1>34. ASSUME NEW f \in Flow, DriverNext(f) PROVE SafeInv'
    BY <1>34, <1>16, <1>17, <1>18 DEF DriverNext
<1>35. ASSUME NEW f \in Flow, PumpNext(f) PROVE SafeInv'
    BY <1>35, <1>19, <1>20, <1>21, <1>22 DEF PumpNext
<1>36. ASSUME NEW f \in Flow, ListenerNext(f) PROVE SafeInv'
    BY <1>36, <1>23, <1>24, <1>25, <1>26, <1>27, <1>28 DEF ListenerNext
<1>37. ASSUME NEW f \in Flow, RosterNext(f) PROVE SafeInv'
    BY <1>37, <1>29, <1>30 DEF RosterNext
<1> QED
    BY <1>31, <1>32, <1>33, <1>34, <1>35, <1>36, <1>37 DEF Next

(* The four invariants hold in every reachable state.                      *)
LEMMA SafeSpec == Spec => []SafeInv
<1>1. Init => SafeInv
    BY FlowAssumption
       DEF Init, SafeInv, SessionInv, ThreadInv, ToldRuns, StoppedListens,
           ConnectingIsOwned, ConnectedIsPumped, PeersAreTracked
<1> QED
    BY <1>1, SafeNext, TypeCorrect, PTL DEF Spec

(* The handle in `active` always belongs to a session with a live pump     *)
(* that was not told to stop.                                              *)
THEOREM ActivePumped == Spec => []ActiveIsPumped
<1>1. SafeInv => ActiveIsPumped
    BY DEF SafeInv, SessionInv, ActiveIsPumped
<1> QED
    BY <1>1, SafeSpec, PTL

(* Connecting always has a flow or an invite that can end it.              *)
THEOREM ConnectingOwned == Spec => []ConnectingIsOwned
<1>1. SafeInv => ConnectingIsOwned
    BY DEF SafeInv
<1> QED
    BY <1>1, SafeSpec, PTL

(* Connected always has a transport pump that can end it.                  *)
THEOREM ConnectedPumped == Spec => []ConnectedIsPumped
<1>1. SafeInv => ConnectedIsPumped
    BY DEF SafeInv
<1> QED
    BY <1>1, SafeSpec, PTL

(* The staleness sweep reaches every peer of the room.                     *)
THEOREM PeersTracked == Spec => []PeersAreTracked
<1>1. SafeInv => PeersAreTracked
    BY DEF SafeInv
<1> QED
    BY <1>1, SafeSpec, PTL

(* Whoever the room told to stop can still notice: without this, neither   *)
(* ToldSessionEnds nor StoppedListenerLeaves could hold (teardown_session  *)
(* against the ends of the driver, the pump and the listener).             *)
THEOREM SignalledStillRun == Spec => [](ToldRuns /\ StoppedListens)
<1>1. SafeInv => ToldRuns /\ StoppedListens
    BY DEF SafeInv, ThreadInv
<1> QED
    BY <1>1, SafeSpec, PTL

-----------------------------------------------------------------------------
(* Where every refusal of a bad blob finds the room alone (RefusesAlone),  *)
(* the room is consistent in three more ways.                              *)

CleanInv == LiveSessionShows /\ PeersHaveCards

CleanStep == state # "idle" /\ state' = "idle"
             => active' = NoFlow /\ pending' = NoFlow /\ peers' = {} /\ seen' = {}

(* The inductive step, and what a step to Idle leaves behind.              *)
LEMMA CleanNext ==
    ASSUME TypeOK, CleanInv, [Next]_vars, [RefusesAlone]_vars
    PROVE  CleanInv' /\ [CleanStep]_vars
<1> USE FlowAssumption DEF TypeOK, CleanInv, LiveSessionShows, PeersHaveCards,
        CleanStep, IsBusy, RoomState, FlowStep,
        vars, roomVars, flowVars, mediaVars, signalVars
<1>1. ASSUME NEW f \in Flow, RunVps(f) PROVE CleanInv' /\ [CleanStep]_vars
    BY <1>1 DEF RunVps, Begin
<1>2. ASSUME NEW f \in Flow, RunDirect(f) PROVE CleanInv' /\ [CleanStep]_vars
    BY <1>2 DEF RunDirect, Begin
<1>3. ASSUME NEW f \in Flow, RunCreateInvite(f) PROVE CleanInv' /\ [CleanStep]_vars
    BY <1>3 DEF RunCreateInvite, Begin
<1>4. ASSUME NEW f \in Flow, RunAcceptInvite(f) PROVE CleanInv' /\ [CleanStep]_vars
    BY <1>4 DEF RunAcceptInvite, Begin
<1>5. ASSUME NEW f \in Flow, RoomCreated(f) PROVE CleanInv' /\ [CleanStep]_vars
    BY <1>5 DEF RoomCreated
<1>6. ASSUME NEW f \in Flow, NEW S \in SUBSET Peer, NEW p \in Peer, RoomJoined(f, S, p) PROVE CleanInv' /\ [CleanStep]_vars
    BY <1>6 DEF RoomJoined
<1>7. ASSUME NEW f \in Flow, NEW p \in Peer, IdentityExchanged(f, p) PROVE CleanInv' /\ [CleanStep]_vars
    BY <1>7 DEF IdentityExchanged
<1>8. ASSUME NEW f \in Flow, NEW p \in Peer, AdoptPeer(f, p) PROVE CleanInv' /\ [CleanStep]_vars
    BY <1>8 DEF AdoptPeer, AddPeer
<1>9. ASSUME NEW f \in Flow, StorePending(f) PROVE CleanInv' /\ [CleanStep]_vars
    BY <1>9 DEF StorePending
<1>10. ASSUME NEW f \in Flow, RunCompleteInvite(f) PROVE CleanInv' /\ [CleanStep]_vars
    BY <1>10 DEF RunCompleteInvite
<1>11. ASSUME NEW f \in Flow, BadBlob(f) PROVE CleanInv' /\ [CleanStep]_vars
    BY <1>11 DEF BadBlob, CardsOnState, RefusesAlone
<1>12. ASSUME NEW f \in Flow, GoodBlob(f) PROVE CleanInv' /\ [CleanStep]_vars
    BY <1>12 DEF GoodBlob
<1>13. ASSUME NEW f \in Flow, NEW p \in Peer, Activate(f, p) PROVE CleanInv' /\ [CleanStep]_vars
    BY <1>13 DEF Activate, Ready
<1>14. ASSUME NEW f \in Flow, InstallListener(f) PROVE CleanInv' /\ [CleanStep]_vars
    BY <1>14 DEF InstallListener
<1>15. ASSUME NEW f \in Flow, Fail(f) PROVE CleanInv' /\ [CleanStep]_vars
    BY <1>15 DEF Fail, Ready, TeardownToIdle, TeardownSession, CardsOnState
<1>16. ASSUME NEW f \in Flow, DriverConnects(f) PROVE CleanInv' /\ [CleanStep]_vars
    BY <1>16 DEF DriverConnects
<1>17. ASSUME NEW f \in Flow, DriverStops(f) PROVE CleanInv' /\ [CleanStep]_vars
    BY <1>17 DEF DriverStops
<1>18. ASSUME NEW f \in Flow, DriverFails(f) PROVE CleanInv' /\ [CleanStep]_vars
    BY <1>18 DEF DriverFails
<1>19. ASSUME NEW f \in Flow, PumpConnected(f) PROVE CleanInv' /\ [CleanStep]_vars
    BY <1>19 DEF PumpConnected
<1>20. ASSUME NEW f \in Flow, NEW p \in Peer, PumpHello(f, p) PROVE CleanInv' /\ [CleanStep]_vars
    BY <1>20 DEF PumpHello, Sender, AddPeer
<1>21. ASSUME NEW f \in Flow, NEW p \in Peer, PumpMark(f, p) PROVE CleanInv' /\ [CleanStep]_vars
    BY <1>21 DEF PumpMark, Sender
<1>22. ASSUME NEW f \in Flow, PumpDisconnected(f) PROVE CleanInv' /\ [CleanStep]_vars
    BY <1>22 DEF PumpDisconnected, TeardownSession, CardsOnState
<1>23. ASSUME NEW f \in Flow, ListenerLeaves(f) PROVE CleanInv' /\ [CleanStep]_vars
    BY <1>23 DEF ListenerLeaves, ListenerEnds
<1>24. ASSUME NEW f \in Flow, ListenerPolls(f) PROVE CleanInv' /\ [CleanStep]_vars
    BY <1>24 DEF ListenerPolls
<1>25. ASSUME NEW f \in Flow, ListenerTimeout(f) PROVE CleanInv' /\ [CleanStep]_vars
    BY <1>25 DEF ListenerTimeout
<1>26. ASSUME NEW f \in Flow, ListenerClosed(f) PROVE CleanInv' /\ [CleanStep]_vars
    BY <1>26 DEF ListenerClosed, ListenerEnds
<1>27. ASSUME NEW f \in Flow, NEW p \in Peer, ListenerPeerJoined(f, p) PROVE CleanInv' /\ [CleanStep]_vars
    BY <1>27 DEF ListenerPeerJoined, AddPeer
<1>28. ASSUME NEW f \in Flow, NEW p \in Peer, ListenerPeerLeft(f, p) PROVE CleanInv' /\ [CleanStep]_vars
    BY <1>28 DEF ListenerPeerLeft, RemovePeer, TeardownSession
<1>29. ASSUME NEW f \in Flow, RosterEnds(f) PROVE CleanInv' /\ [CleanStep]_vars
    BY <1>29 DEF RosterEnds
<1>30. ASSUME NEW f \in Flow, NEW S \in SUBSET Peer, RosterPrunes(f, S) PROVE CleanInv' /\ [CleanStep]_vars
    BY <1>30 DEF RosterPrunes, PruneStalePeers
<1>31. CASE Disconnect
    BY <1>31 DEF Disconnect, TeardownToIdle, TeardownSession, CardsOnState
<1>32. CASE UNCHANGED vars
    BY <1>32
<1>33. ASSUME NEW f \in Flow, FlowNext(f) PROVE CleanInv' /\ [CleanStep]_vars
    BY <1>33, <1>1, <1>2, <1>3, <1>4, <1>5, <1>6, <1>7, <1>8, <1>9, <1>10, <1>11, <1>12, <1>13, <1>14, <1>15 DEF FlowNext
<1>34. ASSUME NEW f \in Flow, DriverNext(f) PROVE CleanInv' /\ [CleanStep]_vars
    BY <1>34, <1>16, <1>17, <1>18 DEF DriverNext
<1>35. ASSUME NEW f \in Flow, PumpNext(f) PROVE CleanInv' /\ [CleanStep]_vars
    BY <1>35, <1>19, <1>20, <1>21, <1>22 DEF PumpNext
<1>36. ASSUME NEW f \in Flow, ListenerNext(f) PROVE CleanInv' /\ [CleanStep]_vars
    BY <1>36, <1>23, <1>24, <1>25, <1>26, <1>27, <1>28 DEF ListenerNext
<1>37. ASSUME NEW f \in Flow, RosterNext(f) PROVE CleanInv' /\ [CleanStep]_vars
    BY <1>37, <1>29, <1>30 DEF RosterNext
<1> QED
    BY <1>31, <1>32, <1>33, <1>34, <1>35, <1>36, <1>37 DEF Next

(* CleanInv holds, and every step is clean.                                *)
LEMMA CleanSpec == Spec /\ [][RefusesAlone]_vars => []CleanInv /\ [][CleanStep]_vars
<1>1. Init => CleanInv
    BY DEF Init, CleanInv, LiveSessionShows, PeersHaveCards
<1>2. TypeOK /\ CleanInv /\ [Next]_vars /\ [RefusesAlone]_vars => CleanInv' /\ [CleanStep]_vars
    BY CleanNext
<1> QED
    BY <1>1, <1>2, TypeCorrect, PTL DEF Spec

(* While a session is live the room shows Connected, so is_busy() keeps    *)
(* every new flow out - unless a bad blob was refused over a live room.    *)
THEOREM LiveSessionShown == Spec /\ [][RefusesAlone]_vars => []LiveSessionShows
<1>1. CleanInv => LiveSessionShows
    BY DEF CleanInv
<1> QED
    BY <1>1, CleanSpec, PTL

(* No peer of the snapshot lacks its card, with the same exception.        *)
THEOREM PeersCarded == Spec /\ [][RefusesAlone]_vars => []PeersHaveCards
<1>1. CleanInv => PeersHaveCards
    BY DEF CleanInv
<1> QED
    BY <1>1, CleanSpec, PTL

(* Going idle drops the session, the invite and the roster at once, with   *)
(* the same exception.                                                     *)
THEOREM IdlingCleans == Spec /\ [][RefusesAlone]_vars => IdlingCleansUp
<1>1. [CleanStep]_vars => [state # "idle" /\ state' = "idle"
           => active' = NoFlow /\ pending' = NoFlow /\ peers' = {} /\ seen' = {}]_vars
    BY DEF CleanStep
<1> QED
    BY <1>1, CleanSpec, PTL DEF IdlingCleansUp

(* A client that accepts no invites never makes the exception, so for it   *)
(* the three hold outright.                                                *)
THEOREM WithoutInvites ==
    Accept = {} => (Spec => []LiveSessionShows /\ []PeersHaveCards /\ IdlingCleansUp)
<1> SUFFICES ASSUME Accept = {}
             PROVE  Spec => []LiveSessionShows /\ []PeersHaveCards /\ IdlingCleansUp
    OBVIOUS
<1>1. SafeInv => [RefusesAlone]_vars
    BY DEF SafeInv, ThreadInv, RefusesAlone, BadBlob
<1>2. Spec => [][RefusesAlone]_vars
    BY <1>1, SafeSpec, PTL
<1> QED
    BY <1>2, LiveSessionShown, PeersCarded, IdlingCleans, PTL

-----------------------------------------------------------------------------
(* activate_session overwrites `active` without looking at it.  A driver   *)
(* whose handle is overwritten that way is told nothing by any later       *)
(* teardown; it is the only way a driver is left running unknown to the    *)
(* room.                                                                   *)

NoneActive == \A f \in Flow, p \in Peer : Activate(f, p) => active = NoFlow

DriversAreHeld == \A f \in Flow : driver[f] = "up" => active = f \/ f \in told

(* Every step that activates nothing over a session keeps drivers held.    *)
LEMMA HeldNext ==
    ASSUME TypeOK, DriversAreHeld, [Next]_vars, [NoneActive]_vars
    PROVE  DriversAreHeld'
<1> USE FlowAssumption DEF TypeOK, DriversAreHeld
<1>1. CASE UNCHANGED <<driver, active, told>>
    BY <1>1
<1>2. CASE TeardownSession /\ UNCHANGED driver
    BY <1>2 DEF TeardownSession
<1>3. ASSUME NEW f \in Flow, FlowNext(f) PROVE DriversAreHeld'
  <2>1. ASSUME NEW p \in Peer, Activate(f, p) PROVE DriversAreHeld'
    <3>1. CASE NoneActive
      BY <2>1, <3>1 DEF Activate, NoneActive
    <3>2. CASE UNCHANGED vars
      BY <1>1, <3>2 DEF vars
    <3> QED
      BY <3>1, <3>2
  <2>2. CASE Fail(f)
    BY <1>2, <2>2 DEF Fail, TeardownToIdle, mediaVars
  <2>3. CASE RunVps(f) \/ RunDirect(f) \/ RunCreateInvite(f) \/ RunAcceptInvite(f)
    BY <1>1, <2>3 DEF RunVps, RunDirect, RunCreateInvite, RunAcceptInvite, Begin, mediaVars
  <2>4. CASE RoomCreated(f) \/ StorePending(f) \/ RunCompleteInvite(f)
    BY <1>1, <2>4 DEF RoomCreated, StorePending, RunCompleteInvite, roomVars, mediaVars
  <2>5. ASSUME NEW S \in SUBSET Peer, NEW p \in Peer,
               RoomJoined(f, S, p) \/ IdentityExchanged(f, p) \/ AdoptPeer(f, p)
        PROVE  DriversAreHeld'
    BY <1>1, <2>5 DEF RoomJoined, IdentityExchanged, AdoptPeer, AddPeer, roomVars, mediaVars
  <2>6. CASE BadBlob(f) \/ GoodBlob(f) \/ InstallListener(f)
    BY <1>1, <2>6 DEF BadBlob, GoodBlob, InstallListener, roomVars, mediaVars
  <2> QED
    BY <1>3, <2>1, <2>2, <2>3, <2>4, <2>5, <2>6 DEF FlowNext
<1>4. ASSUME NEW f \in Flow, DriverNext(f) PROVE DriversAreHeld'
    BY <1>4 DEF DriverNext, DriverConnects, DriverStops, DriverFails, roomVars
<1>5. ASSUME NEW f \in Flow, PumpNext(f) PROVE DriversAreHeld'
  <2>1. CASE PumpDisconnected(f)
    BY <1>2, <2>1 DEF PumpDisconnected
  <2>2. CASE PumpConnected(f)
    BY <1>1, <2>2 DEF PumpConnected
  <2>3. ASSUME NEW p \in Peer, PumpHello(f, p) \/ PumpMark(f, p) PROVE DriversAreHeld'
    BY <1>1, <2>3 DEF PumpHello, PumpMark, AddPeer, mediaVars
  <2> QED
    BY <1>5, <2>1, <2>2, <2>3 DEF PumpNext
<1>6. ASSUME NEW f \in Flow, ListenerNext(f) PROVE DriversAreHeld'
  <2>1. CASE ListenerLeaves(f) \/ ListenerPolls(f) \/ ListenerTimeout(f) \/ ListenerClosed(f)
    BY <1>1, <2>1 DEF ListenerLeaves, ListenerPolls, ListenerTimeout, ListenerClosed,
                      ListenerEnds, roomVars, mediaVars
  <2>2. ASSUME NEW p \in Peer, ListenerPeerJoined(f, p) PROVE DriversAreHeld'
    BY <1>1, <2>2 DEF ListenerPeerJoined, AddPeer, mediaVars
  <2>3. ASSUME NEW p \in Peer, ListenerPeerLeft(f, p) PROVE DriversAreHeld'
    BY <1>1, <1>2, <2>3 DEF ListenerPeerLeft, RemovePeer, mediaVars
  <2> QED
    BY <1>6, <2>1, <2>2, <2>3 DEF ListenerNext
<1>7. ASSUME NEW f \in Flow, RosterNext(f) PROVE DriversAreHeld'
    BY <1>1, <1>7 DEF RosterNext, RosterEnds, RosterPrunes, PruneStalePeers, roomVars, mediaVars
<1>8. CASE Disconnect
    BY <1>2, <1>8 DEF Disconnect, TeardownToIdle, mediaVars
<1>9. CASE UNCHANGED vars
    BY <1>1, <1>9 DEF vars
<1> QED
    BY <1>3, <1>4, <1>5, <1>6, <1>7, <1>8, <1>9 DEF Next

(* Every running driver is the room's or has been told to disconnect,      *)
(* where no session is activated over another (activate_session and        *)
(* activate_relay_session against teardown_session).                       *)
THEOREM OnlyOverwritingLosesDrivers == Spec /\ [][NoneActive]_vars => []DriversAreHeld
<1>1. Init => DriversAreHeld
    BY DEF Init, DriversAreHeld
<1>2. TypeOK /\ DriversAreHeld /\ [Next]_vars /\ [NoneActive]_vars => DriversAreHeld'
    BY HeldNext
<1> QED
    BY <1>1, <1>2, TypeCorrect, PTL DEF Spec
=============================================================================
