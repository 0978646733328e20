---------------------------- MODULE Voice_proofs ----------------------------
(***************************************************************************)
(* Proofs about AudioPump, for any number of pumps, sessions and frames.   *)
(* The channel is ascending and everything taken from it is older than     *)
(* everything in it; a handle a pump holds is the active one or that of a  *)
(* session to which this pump has not yet strayed.                         *)
(* Then about Playout, for any packet length, pre-buffer and output size:  *)
(* its inbox holds the last arrivals, and a stream the last samples of     *)
(* what was drained from it.                                               *)
(***************************************************************************)
EXTENDS Playout, SequenceTheorems, TLAPS

(* A pump that has a handle.                                               *)
Serving(u) == pump[u] \in {"lock", "recv", "send"}

(* Handles are current, or stale for the first time.                       *)
Handles ==
    /\ active \notin past
    /\ \A u \in Pump, s \in Session : <<u, s>> \in strayed => s \in past
    /\ \A u \in Pump : Serving(u) =>
          /\ handle[u] \in Session
          /\ handle[u] = active \/ (handle[u] \in past /\ <<u, handle[u]>> \notin strayed)

(* The channel holds frames nobody was handed, oldest first.               *)
Channel ==
    /\ \A i \in 1 .. Len(netOut) : netOut[i] \in 1 .. captured /\ fate[netOut[i]] = Waiting
    /\ \A i, j \in 1 .. Len(netOut) : i < j => netOut[i] < netOut[j]

(* So do the pumps, each a frame of its own, older than the channel's.     *)
Taken ==
    /\ \A u \in Pump : pump[u] = "send" =>
          /\ frame[u] \in 1 .. captured /\ fate[frame[u]] = Waiting
          /\ \A i \in 1 .. Len(netOut) : frame[u] < netOut[i]
    /\ \A u, v \in Pump : pump[u] = "send" /\ pump[v] = "send" /\ frame[u] = frame[v] => u = v

(* What a driver was sent by a pump is older than what that pump holds,    *)
(* and than the channel.                                                   *)
Sent ==
    \A s \in Session : \A i \in 1 .. Len(queue[s]) :
        /\ queue[s][i][1] \in Pump /\ queue[s][i][2] \in Nat
        /\ queue[s][i][2] <= captured
        /\ \A j \in 1 .. Len(netOut) : queue[s][i][2] < netOut[j]
        /\ pump[queue[s][i][1]] = "send" => queue[s][i][2] < frame[queue[s][i][1]]

PumpInv == TypeOK /\ Handles /\ Channel /\ Taken /\ Sent

(* The actions that leave one of the four alone are many: what each step   *)
(* keeps of the variables they speak of.                                   *)
LEMMA Cases ==
  ASSUME [Next]_vars
  PROVE  \/ Capture \/ Teardown \/ UNCHANGED vars
         \/ \E s \in Session : Activate(s)
         \/ \E u \in Pump : Look(u) \/ Lock(u) \/ Take(u) \/ Timeout(u) \/ Send(u)
  BY DEF Next, PumpStep

-----------------------------------------------------------------------------
(* Every variable keeps its type.                                          *)
LEMMA TypeStep == PumpInv /\ [Next]_vars => TypeOK'
<1> SUFFICES ASSUME PumpInv, [Next]_vars PROVE TypeOK'
  OBVIOUS
<1> USE PumpAssumption DEF TypeOK, Frame, Goto, PumpInv
<1>1. CASE Capture
  <2>1. captured' \in 1 .. MaxFrames /\ captured' = captured + 1
    BY <1>1 DEF Capture
  <2>2. netOut' \in Seq(1 .. MaxFrames)
    BY <1>1, <2>1, AppendProperties DEF Capture
  <2>3. fate' \in [1 .. captured' -> Session \cup {Waiting}]
    BY <1>1, <2>1 DEF Capture
  <2> QED
    BY <1>1, <2>1, <2>2, <2>3 DEF Capture, roomVars
<1>2. ASSUME NEW s \in Session, Activate(s) PROVE TypeOK'
  BY <1>2 DEF Activate
<1>3. CASE Teardown
  BY <1>3 DEF Teardown
<1>4. ASSUME NEW u \in Pump, Look(u) PROVE TypeOK'
  BY <1>4 DEF Look, roomVars
<1>5. ASSUME NEW u \in Pump, Lock(u) PROVE TypeOK'
  BY <1>5 DEF Lock, roomVars
<1>6. ASSUME NEW u \in Pump, Take(u) PROVE TypeOK'
  <2>1. Head(netOut) \in 1 .. MaxFrames /\ netOut' \in Seq(1 .. MaxFrames)
    BY <1>6, HeadTailProperties DEF Take
  <2>2. frame' \in [Pump -> 0 .. MaxFrames]
    BY <1>6, <2>1 DEF Take
  <2> QED
    BY <1>6, <2>1, <2>2 DEF Take, roomVars
<1>7. ASSUME NEW u \in Pump, Timeout(u) PROVE TypeOK'
  BY <1>7 DEF Timeout, roomVars
<1>8. ASSUME NEW u \in Pump, Send(u) PROVE TypeOK'
  <2>1. handle[u] \in Session /\ frame[u] \in 1 .. captured /\ frame[u] \in 1 .. MaxFrames
    <3>1. handle[u] \in Session
      BY <1>8 DEF Send, Handles, Serving
    <3>2. frame[u] \in 1 .. captured /\ captured \in 0 .. MaxFrames
      BY <1>8 DEF Send, Taken
    <3> QED
      BY <3>1, <3>2
  <2>2. queue' \in [Session -> Seq(Pump \X (1 .. MaxFrames))]
    BY <1>8, <2>1, AppendProperties DEF Send
  <2>3. fate' \in [1 .. captured -> Session \cup {Waiting}]
    BY <1>8, <2>1 DEF Send
  <2>4. strayed' \subseteq Pump \X Session
    BY <1>8, <2>1 DEF Send
  <2> QED
    BY <1>8, <2>2, <2>3, <2>4 DEF Send, roomVars
<1>9. CASE UNCHANGED vars
  BY <1>9 DEF vars
<1> QED
  BY <1>1, <1>2, <1>3, <1>4, <1>5, <1>6, <1>7, <1>8, <1>9, Cases

(* Handles.                                                                *)
LEMMA HandlesStep == PumpInv /\ [Next]_vars => Handles'
<1> SUFFICES ASSUME PumpInv, [Next]_vars PROVE Handles'
  OBVIOUS
<1>t. pump \in [Pump -> {"look", "lock", "recv", "send"}] /\ DOMAIN handle = Pump
      /\ past \subseteq Session /\ active \in Session \cup {NoSession}
      /\ handle = [u \in Pump |-> handle[u]]
  BY DEF PumpInv, TypeOK
<1>h. Handles
  BY DEF PumpInv
<1> USE DEF Handles, Serving, Goto
<1>1. CASE Capture \/ UNCHANGED vars
  BY <1>1, <1>h DEF Capture, roomVars, vars
<1>2. ASSUME NEW s \in Session, Activate(s) PROVE Handles'
  BY <1>2, <1>h, PumpAssumption DEF Activate
<1>3. CASE Teardown
  BY <1>3, <1>h, <1>t, PumpAssumption DEF Teardown
<1>4. ASSUME NEW u \in Pump, Look(u) PROVE Handles'
  BY <1>4, <1>h, <1>t DEF Look, roomVars
<1>5. ASSUME NEW u \in Pump, Lock(u) \/ Take(u) PROVE Handles'
  BY <1>5, <1>h, <1>t DEF Lock, Take, roomVars
<1>6. ASSUME NEW u \in Pump, Timeout(u) PROVE Handles'
  BY <1>6, <1>h, <1>t DEF Timeout, roomVars
<1>7. ASSUME NEW u \in Pump, Send(u) PROVE Handles'
  <2>1. /\ pump[u] = "send" /\ handle[u] \in Session
        /\ handle[u] = active \/ (handle[u] \in past /\ <<u, handle[u]>> \notin strayed)
    BY <1>7, <1>h DEF Send
  <2>2. /\ strayed' = IF handle[u] = active THEN strayed ELSE strayed \cup {<<u, handle[u]>>}
        /\ UNCHANGED <<active, past>>
    BY <1>7 DEF Send, roomVars
  <2>3. /\ pump'[u] = "look"
        /\ \A v \in Pump \ {u} : pump'[v] = pump[v] /\ handle'[v] = handle[v]
    BY <1>7, <1>t DEF Send
  <2> QED
    BY <1>h, <2>1, <2>2, <2>3
<1> QED
  BY <1>1, <1>2, <1>3, <1>4, <1>5, <1>6, <1>7, Cases

-----------------------------------------------------------------------------
(* What the channel looks like after a frame was put in or taken out.      *)
LEMMA AfterCapture ==
  ASSUME PumpInv, Capture
  PROVE  /\ captured \in Nat /\ captured' = captured + 1
         /\ Len(netOut') = Len(netOut) + 1 /\ Len(netOut) \in Nat
         /\ netOut'[Len(netOut) + 1] = captured + 1
         /\ \A i \in 1 .. Len(netOut) : netOut'[i] = netOut[i]
         /\ \A f \in 1 .. captured : fate'[f] = fate[f]
         /\ fate'[captured + 1] = Waiting
<1>1. captured \in Nat /\ captured + 1 \in Frame /\ netOut \in Seq(Frame)
  BY PumpAssumption DEF PumpInv, TypeOK, Capture, Frame
<1>2. netOut' = Append(netOut, captured + 1) /\ captured' = captured + 1
  BY DEF Capture
<1>3. fate' = [f \in 1 .. captured + 1 |-> IF f \in 1 .. captured THEN fate[f] ELSE Waiting]
  BY DEF Capture
<1> HIDE DEF PumpInv
<1> QED
  BY <1>1, <1>2, <1>3, AppendProperties

LEMMA AfterTake ==
  ASSUME PumpInv, NEW u \in Pump, Take(u)
  PROVE  /\ Len(netOut) \in Nat \ {0} /\ Len(netOut') = Len(netOut) - 1
         /\ \A i \in 1 .. Len(netOut') : netOut'[i] = netOut[i + 1]
         /\ frame'[u] = netOut[1] /\ pump[u] = "recv" /\ pump'[u] = "send"
         /\ \A v \in Pump \ {u} : frame'[v] = frame[v] /\ pump'[v] = pump[v]
         /\ UNCHANGED <<captured, fate, queue>>
<1>1. netOut \in Seq(Frame) /\ netOut # <<>>
  BY DEF PumpInv, TypeOK, Take
<1>2. /\ netOut' = Tail(netOut)
      /\ Head(netOut) = netOut[1]
  BY <1>1 DEF Take
<1>3. /\ DOMAIN frame = Pump /\ frame = [v \in Pump |-> frame[v]]
      /\ DOMAIN pump = Pump /\ pump = [v \in Pump |-> pump[v]]
  BY DEF PumpInv, TypeOK
<1>4. /\ frame'[u] = netOut[1] /\ pump[u] = "recv" /\ pump'[u] = "send"
      /\ \A v \in Pump \ {u} : frame'[v] = frame[v] /\ pump'[v] = pump[v]
      /\ UNCHANGED <<captured, fate, queue>>
  BY <1>2, <1>3 DEF Take, Goto
<1>5. /\ Len(netOut) \in Nat \ {0} /\ Len(netOut') = Len(netOut) - 1
      /\ \A i \in 1 .. Len(netOut') : netOut'[i] = netOut[i + 1]
  BY <1>1, <1>2, HeadTailProperties
<1> QED
  BY <1>4, <1>5

LEMMA AfterSend ==
  ASSUME PumpInv, NEW u \in Pump, Send(u)
  PROVE  /\ pump[u] = "send" /\ pump'[u] = "look" /\ handle[u] \in Session
         /\ frame[u] \in 1 .. captured /\ captured \in Nat
         /\ \A v \in Pump \ {u} : frame'[v] = frame[v] /\ pump'[v] = pump[v]
         /\ \A f \in 1 .. captured : fate'[f] = IF f = frame[u] THEN handle[u] ELSE fate[f]
         /\ UNCHANGED <<captured, netOut>>
         /\ \A s \in Session : Len(queue[s]) \in Nat
         /\ \A s \in Session \ {handle[u]} : queue'[s] = queue[s]
         /\ Len(queue'[handle[u]]) = Len(queue[handle[u]]) + 1
         /\ queue'[handle[u]][Len(queue[handle[u]]) + 1] = <<u, frame[u]>>
         /\ \A i \in 1 .. Len(queue[handle[u]]) :
                queue'[handle[u]][i] = queue[handle[u]][i]
<1>1. /\ pump[u] = "send" /\ handle[u] \in Session
      /\ frame[u] \in 1 .. captured /\ captured \in Nat /\ frame[u] \in Frame
  <2>1. pump[u] = "send"
    BY DEF Send
  <2>2. handle[u] \in Session
    BY <2>1 DEF PumpInv, Handles, Serving
  <2>3. frame[u] \in 1 .. captured
    BY <2>1 DEF PumpInv, Taken
  <2>4. captured \in 0 .. MaxFrames
    BY DEF PumpInv, TypeOK
  <2> QED
    BY <2>1, <2>2, <2>3, <2>4, PumpAssumption DEF Frame
<1>2. /\ DOMAIN frame = Pump /\ frame = [v \in Pump |-> frame[v]]
      /\ DOMAIN pump = Pump /\ pump = [v \in Pump |-> pump[v]]
      /\ DOMAIN fate = 1 .. captured /\ fate = [f \in 1 .. captured |-> fate[f]]
      /\ \A s \in Session : queue[s] \in Seq(Pump \X Frame)
      /\ DOMAIN queue = Session /\ queue = [s \in Session |-> queue[s]]
  BY DEF PumpInv, TypeOK
<1>3. /\ pump'[u] = "look"
      /\ \A v \in Pump \ {u} : frame'[v] = frame[v] /\ pump'[v] = pump[v]
  BY <1>2 DEF Send, Goto
<1>4. \A f \in 1 .. captured : fate'[f] = IF f = frame[u] THEN handle[u] ELSE fate[f]
  BY <1>2 DEF Send
<1>5. /\ \A s \in Session \ {handle[u]} : queue'[s] = queue[s]
      /\ queue'[handle[u]] = Append(queue[handle[u]], <<u, frame[u]>>)
  BY <1>1, <1>2 DEF Send
<1>6. UNCHANGED <<captured, netOut>>
  BY DEF Send
<1>7. /\ \A s \in Session : Len(queue[s]) \in Nat
      /\ Len(queue'[handle[u]]) = Len(queue[handle[u]]) + 1
      /\ queue'[handle[u]][Len(queue[handle[u]]) + 1] = <<u, frame[u]>>
      /\ \A i \in 1 .. Len(queue[handle[u]]) : queue'[handle[u]][i] = queue[handle[u]][i]
  BY <1>1, <1>2, <1>5, AppendProperties
<1> QED
  BY <1>1, <1>3, <1>4, <1>5, <1>6, <1>7

(* The other steps leave channel, frames and queues alone, and no pump     *)
(* gets to "send" by them.                                                 *)
LEMMA OtherSteps ==
  ASSUME PumpInv, [Next]_vars, ~Capture,
         \A u \in Pump : ~Take(u) /\ ~Send(u)
  PROVE  /\ UNCHANGED <<captured, netOut, fate, frame, queue>>
         /\ \A u \in Pump : pump'[u] = "send" => pump[u] = "send"
<1>1. DOMAIN pump = Pump /\ pump = [v \in Pump |-> pump[v]]
  BY DEF PumpInv, TypeOK
<1>2. ASSUME NEW u \in Pump, Look(u) \/ Lock(u) \/ Timeout(u)
      PROVE  /\ UNCHANGED <<captured, netOut, fate, frame, queue>>
             /\ \A v \in Pump : pump'[v] = "send" => pump[v] = "send"
  BY <1>1, <1>2 DEF Look, Lock, Timeout, Goto
<1>3. CASE Teardown \/ UNCHANGED vars \/ \E s \in Session : Activate(s)
  BY <1>3 DEF Teardown, vars, Activate
<1> QED
  BY <1>2, <1>3, Cases

-----------------------------------------------------------------------------
LEMMA ChannelStep == PumpInv /\ [Next]_vars => Channel'
<1> SUFFICES ASSUME PumpInv, [Next]_vars PROVE Channel'
  OBVIOUS
<1>h. Channel /\ Taken
  BY DEF PumpInv
<1>1. CASE Capture
  <2>1. captured \in Nat /\ Len(netOut) \in Nat
    BY <1>1, AfterCapture
  <2>2. ASSUME NEW i \in 1 .. Len(netOut')
        PROVE  netOut'[i] \in 1 .. captured' /\ fate'[netOut'[i]] = Waiting
    BY <1>1, <1>h, <2>1, <2>2, AfterCapture DEF Channel
  <2>3. ASSUME NEW i \in 1 .. Len(netOut'), NEW j \in 1 .. Len(netOut'), i < j
        PROVE  netOut'[i] < netOut'[j]
    <3>1. /\ i \in 1 .. Len(netOut) /\ netOut'[i] = netOut[i]
          /\ netOut[i] \in 1 .. captured
      BY <1>1, <1>h, <2>1, <2>3, AfterCapture DEF Channel
    <3>2. CASE j = Len(netOut) + 1
      BY <1>1, <2>1, <3>1, <3>2, AfterCapture
    <3>3. CASE j # Len(netOut) + 1
      <4>1. j \in 1 .. Len(netOut) /\ netOut'[j] = netOut[j]
        BY <1>1, <2>1, <3>3, AfterCapture
      <4> QED
        BY <1>h, <2>3, <3>1, <4>1 DEF Channel
    <3> QED
      BY <3>2, <3>3
  <2> QED
    BY <2>2, <2>3 DEF Channel
<1>2. ASSUME NEW u \in Pump, Take(u) PROVE Channel'
  <2>1. ASSUME NEW i \in 1 .. Len(netOut')
        PROVE  i + 1 \in 1 .. Len(netOut) /\ netOut'[i] = netOut[i + 1]
    BY <1>2, <2>1, AfterTake
  <2>2. UNCHANGED <<captured, fate>>
    BY <1>2, AfterTake
  <2>3. ASSUME NEW i \in 1 .. Len(netOut'), NEW j \in 1 .. Len(netOut'), i < j
        PROVE  netOut'[i] < netOut'[j]
    <3>1. i + 1 < j + 1
      BY <2>3, <1>2, AfterTake
    <3> QED
      BY <1>h, <2>1, <3>1 DEF Channel
  <2> QED
    BY <1>h, <2>1, <2>2, <2>3 DEF Channel
<1>3. ASSUME NEW u \in Pump, Send(u) PROVE Channel'
  <2>1. \A i \in 1 .. Len(netOut) : frame[u] < netOut[i]
    BY <1>3, <1>h, AfterSend DEF Taken
  <2> QED
    BY <1>3, <1>h, <2>1, AfterSend DEF Channel
<1>4. CASE ~Capture /\ \A u \in Pump : ~Take(u) /\ ~Send(u)
  BY <1>4, <1>h, OtherSteps DEF Channel
<1> QED
  BY <1>1, <1>2, <1>3, <1>4

LEMMA TakenStep == PumpInv /\ [Next]_vars => Taken'
<1> SUFFICES ASSUME PumpInv, [Next]_vars PROVE Taken'
  OBVIOUS
<1>h. Channel /\ Taken
  BY DEF PumpInv
<1>1. CASE Capture
  <2>1. UNCHANGED <<pump, frame>>
    BY <1>1 DEF Capture
  <2>2. ASSUME NEW u \in Pump, pump[u] = "send"
        PROVE  /\ frame[u] \in 1 .. captured' /\ fate'[frame[u]] = Waiting
               /\ \A i \in 1 .. Len(netOut') : frame[u] < netOut'[i]
    <3>1. /\ frame[u] \in 1 .. captured /\ fate[frame[u]] = Waiting
          /\ \A i \in 1 .. Len(netOut) : frame[u] < netOut[i]
      BY <1>h, <2>2 DEF Taken
    <3>2. ASSUME NEW i \in 1 .. Len(netOut') PROVE frame[u] < netOut'[i]
      BY <1>1, <3>1, <3>2, AfterCapture
    <3> QED
      BY <1>1, <3>1, <3>2, AfterCapture
  <2> QED
    BY <1>h, <2>1, <2>2 DEF Taken
<1>2. ASSUME NEW u \in Pump, Take(u) PROVE Taken'
  <2>1. /\ frame'[u] \in 1 .. captured' /\ fate'[frame'[u]] = Waiting
        /\ \A i \in 1 .. Len(netOut') : frame'[u] < netOut'[i]
    BY <1>2, <1>h, AfterTake DEF Channel
  <2>2. ASSUME NEW v \in Pump \ {u}, pump'[v] = "send"
        PROVE  /\ frame'[v] \in 1 .. captured' /\ fate'[frame'[v]] = Waiting
               /\ \A i \in 1 .. Len(netOut') : frame'[v] < netOut'[i]
               /\ frame'[v] # frame'[u]
    BY <1>2, <1>h, <2>2, AfterTake DEF Taken, Channel
  <2>3. \A v, w \in Pump \ {u} :
           pump'[v] = "send" /\ pump'[w] = "send" /\ frame'[v] = frame'[w] => v = w
    BY <1>2, <1>h, AfterTake DEF Taken
  <2> QED
    BY <2>1, <2>2, <2>3 DEF Taken
<1>3. ASSUME NEW u \in Pump, Send(u) PROVE Taken'
  <2>1. ASSUME NEW v \in Pump, pump'[v] = "send"
        PROVE  v # u /\ frame'[v] = frame[v] /\ pump[v] = "send" /\ frame[v] # frame[u]
    BY <1>3, <1>h, <2>1, AfterSend DEF Taken
  <2> QED
    BY <1>3, <1>h, <2>1, AfterSend DEF Taken
<1>4. CASE ~Capture /\ \A u \in Pump : ~Take(u) /\ ~Send(u)
  BY <1>4, <1>h, OtherSteps DEF Taken
<1> QED
  BY <1>1, <1>2, <1>3, <1>4

LEMMA SentStep == PumpInv /\ [Next]_vars => Sent'
<1> SUFFICES ASSUME PumpInv, [Next]_vars PROVE Sent'
  OBVIOUS
<1>h. Channel /\ Taken /\ Sent
  BY DEF PumpInv
<1>1. CASE Capture
  <2>1. UNCHANGED <<pump, frame, queue>>
    BY <1>1 DEF Capture
  <2>2. ASSUME NEW s \in Session, NEW i \in 1 .. Len(queue[s])
        PROVE  /\ queue[s][i][2] <= captured'
               /\ \A j \in 1 .. Len(netOut') : queue[s][i][2] < netOut'[j]
    <3>1. /\ queue[s][i][2] \in Nat /\ queue[s][i][2] <= captured
          /\ \A j \in 1 .. Len(netOut) : queue[s][i][2] < netOut[j]
      BY <1>h, <2>2 DEF Sent
    <3>2. ASSUME NEW j \in 1 .. Len(netOut') PROVE queue[s][i][2] < netOut'[j]
      <4>1. j \in 1 .. Len(netOut) \/ j = Len(netOut) + 1
        BY <1>1, <3>2, AfterCapture
      <4>2. CASE j \in 1 .. Len(netOut)
        BY <1>1, <3>1, <4>2, AfterCapture
      <4>3. CASE j = Len(netOut) + 1
        BY <1>1, <3>1, <4>3, AfterCapture
      <4> QED
        BY <4>1, <4>2, <4>3
    <3>3. queue[s][i][2] <= captured'
      BY <1>1, <3>1, AfterCapture
    <3> QED
      BY <3>2, <3>3
  <2> QED
    BY <1>h, <2>1, <2>2 DEF Sent
<1>2. ASSUME NEW u \in Pump, Take(u) PROVE Sent'
  <2>1. /\ UNCHANGED <<captured, queue>> /\ frame'[u] = netOut[1]
        /\ 1 \in 1 .. Len(netOut)
        /\ \A v \in Pump \ {u} : frame'[v] = frame[v] /\ pump'[v] = pump[v]
    BY <1>2, AfterTake
  <2>2. ASSUME NEW j \in 1 .. Len(netOut')
        PROVE  j + 1 \in 1 .. Len(netOut) /\ netOut'[j] = netOut[j + 1]
    BY <1>2, <2>2, AfterTake
  <2>3. ASSUME NEW s \in Session, NEW i \in 1 .. Len(queue[s])
        PROVE  /\ queue[s][i][1] \in Pump /\ queue[s][i][2] \in Nat
               /\ queue[s][i][2] <= captured'
               /\ \A j \in 1 .. Len(netOut') : queue[s][i][2] < netOut'[j]
               /\ pump'[queue[s][i][1]] = "send" => queue[s][i][2] < frame'[queue[s][i][1]]
    BY <1>h, <2>1, <2>2, <2>3 DEF Sent
  <2> QED
    BY <2>1, <2>3 DEF Sent
<1>3. ASSUME NEW u \in Pump, Send(u) PROVE Sent'
  <2>1. ASSUME NEW s \in Session, NEW i \in 1 .. Len(queue'[s]),
               s # handle[u] \/ i # Len(queue[s]) + 1
        PROVE  i \in 1 .. Len(queue[s]) /\ queue'[s][i] = queue[s][i]
    BY <1>3, <2>1, AfterSend
  <2>2. ASSUME NEW s \in Session, NEW i \in 1 .. Len(queue[s])
        PROVE  /\ queue[s][i][1] \in Pump /\ queue[s][i][2] \in Nat
               /\ queue[s][i][2] <= captured'
               /\ \A j \in 1 .. Len(netOut') : queue[s][i][2] < netOut'[j]
               /\ pump'[queue[s][i][1]] = "send" => queue[s][i][2] < frame'[queue[s][i][1]]
    <3>1. /\ UNCHANGED <<captured, netOut>> /\ pump'[u] = "look"
          /\ \A v \in Pump \ {u} : frame'[v] = frame[v] /\ pump'[v] = pump[v]
      BY <1>3, AfterSend
    <3> QED
      BY <1>h, <2>2, <3>1 DEF Sent
  <2>3. /\ frame[u] \in Nat /\ frame[u] <= captured' /\ pump'[u] = "look"
        /\ \A j \in 1 .. Len(netOut') : frame[u] < netOut'[j]
    BY <1>3, <1>h, AfterSend DEF Taken
  <2>4. queue'[handle[u]][Len(queue[handle[u]]) + 1] = <<u, frame[u]>>
    BY <1>3, AfterSend
  <2>5. ASSUME NEW s \in Session, NEW i \in 1 .. Len(queue'[s])
        PROVE  /\ queue'[s][i][1] \in Pump /\ queue'[s][i][2] \in Nat
               /\ queue'[s][i][2] <= captured'
               /\ \A j \in 1 .. Len(netOut') : queue'[s][i][2] < netOut'[j]
               /\ pump'[queue'[s][i][1]] = "send" => queue'[s][i][2] < frame'[queue'[s][i][1]]
    <3>1. CASE s = handle[u] /\ i = Len(queue[s]) + 1
      <4>1. queue'[s][i][1] = u /\ queue'[s][i][2] = frame[u]
        BY <2>4, <3>1
      <4> QED
        BY <2>3, <4>1
    <3>2. CASE s # handle[u] \/ i # Len(queue[s]) + 1
      <4>1. i \in 1 .. Len(queue[s]) /\ queue'[s][i] = queue[s][i]
        BY <2>1, <3>2
      <4> QED
        BY <2>2, <4>1
    <3> QED
      BY <3>1, <3>2
  <2> QED
    BY <2>5 DEF Sent
<1>4. CASE ~Capture /\ \A u \in Pump : ~Take(u) /\ ~Send(u)
  BY <1>4, <1>h, OtherSteps DEF Sent
<1> QED
  BY <1>1, <1>2, <1>3, <1>4

LEMMA InitPumpInv == Init => PumpInv
<1> SUFFICES ASSUME Init PROVE PumpInv
  OBVIOUS
<1>1. TypeOK
  <2>1. fate \in [1 .. captured -> Session \cup {Waiting}]
    BY DEF Init
  <2> QED
    BY <2>1, PumpAssumption DEF Init, TypeOK, Frame
<1>2. Handles /\ Channel /\ Taken /\ Sent
  BY PumpAssumption DEF Init, Handles, Serving, Channel, Taken, Sent
<1> QED
  BY <1>1, <1>2 DEF PumpInv

LEMMA PumpInvHolds == Spec => []PumpInv
<1>1. PumpInv /\ [Next]_vars => PumpInv'
  BY TypeStep, HandlesStep, ChannelStep, TakenStep, SentStep DEF PumpInv
<1> QED
  BY <1>1, InitPumpInv, PTL DEF Spec

-----------------------------------------------------------------------------
(* The channel, the pumps and the queues always have their types: a pump   *)
(* that sends has a session and a frame (spawn_audio_pump).                *)
THEOREM TypeCorrect == Spec => []TypeOK
<1>1. PumpInv => TypeOK
  BY DEF PumpInv
<1> QED
  BY <1>1, PumpInvHolds, PTL

(* Each pump hands its frames over in the order of their capture, however  *)
(* many pumps there are.                                                   *)
LEMMA OwnOrderStep == PumpInv /\ OwnOrder /\ [Next]_vars => OwnOrder'
<1> SUFFICES ASSUME PumpInv, OwnOrder, [Next]_vars PROVE OwnOrder'
  OBVIOUS
<1>h. Sent
  BY DEF PumpInv
<1>1. CASE UNCHANGED queue
  BY <1>1 DEF OwnOrder
<1>2. ASSUME NEW u \in Pump, Send(u) PROVE OwnOrder'
  <2>1. ASSUME NEW s \in Session, NEW i \in 1 .. Len(queue'[s]),
               s # handle[u] \/ i # Len(queue[s]) + 1
        PROVE  i \in 1 .. Len(queue[s]) /\ queue'[s][i] = queue[s][i]
    BY <1>2, <2>1, AfterSend
  <2>2. ASSUME NEW s \in Session, NEW i \in 1 .. Len(queue'[s]),
               NEW j \in 1 .. Len(queue'[s]), i < j,
               queue'[s][i][1] = queue'[s][j][1]
        PROVE  queue'[s][i][2] < queue'[s][j][2]
    <3>0. Len(queue[s]) \in Nat
      BY <1>2, AfterSend
    <3>1. CASE s = handle[u] /\ j = Len(queue[s]) + 1
      <4>1. i \in 1 .. Len(queue[s]) /\ queue'[s][i] = queue[s][i]
        BY <2>1, <2>2, <3>0, <3>1
      <4>2. queue'[s][j] = <<u, frame[u]>> /\ pump[u] = "send"
        BY <1>2, <3>1, AfterSend
      <4> QED
        BY <1>h, <2>2, <4>1, <4>2 DEF Sent
    <3>2. CASE s # handle[u] \/ j # Len(queue[s]) + 1
      <4>1. j \in 1 .. Len(queue[s]) /\ queue'[s][j] = queue[s][j]
        BY <2>1, <3>2
      <4>2. i # Len(queue[s]) + 1
        BY <2>2, <3>0, <4>1
      <4>3. i \in 1 .. Len(queue[s]) /\ queue'[s][i] = queue[s][i]
        BY <2>1, <4>2
      <4> QED
        BY <2>2, <4>1, <4>3 DEF OwnOrder
    <3> QED
      BY <3>1, <3>2
  <2> QED
    BY <2>2 DEF OwnOrder
<1>3. CASE Capture
  BY <1>1, <1>3 DEF Capture
<1>4. ASSUME NEW u \in Pump, Take(u) PROVE OwnOrder'
  BY <1>1, <1>4, AfterTake
<1>5. CASE ~Capture /\ \A u \in Pump : ~Take(u) /\ ~Send(u)
  BY <1>1, <1>5, OtherSteps
<1> QED
  BY <1>2, <1>3, <1>4, <1>5

THEOREM OwnOrderHolds == Spec => []OwnOrder
<1>1. Init => OwnOrder
  BY DEF Init, OwnOrder
<1> QED
  BY <1>1, OwnOrderStep, PumpInvHolds, PTL DEF Spec

-----------------------------------------------------------------------------
(* Where each captured frame is: in the channel, in the hands of a pump,   *)
(* or in the queue of the one session that is its fate, and there once.    *)
InChannel(f) == \E i \in 1 .. Len(netOut) : netOut[i] = f
InHands(f)   == \E u \in Pump : pump[u] = "send" /\ frame[u] = f
InQueue(f)   == \E i \in 1 .. Len(queue[fate[f]]) : queue[fate[f]][i][2] = f

NoneLost ==
    \A f \in 1 .. captured : IF fate[f] = Waiting THEN InChannel(f) \/ InHands(f) ELSE InQueue(f)

NoneTwice ==
    \A s \in Session : \A i \in 1 .. Len(queue[s]) :
        /\ queue[s][i][2] \in 1 .. captured /\ fate[queue[s][i][2]] = s
        /\ \A j \in 1 .. Len(queue[s]) : queue[s][i][2] = queue[s][j][2] => i = j

(* A frame moves from the channel to a pump and from there to its session. *)
LEMMA NoneLostStep == PumpInv /\ NoneLost /\ [Next]_vars => NoneLost'
<1> SUFFICES ASSUME PumpInv, NoneLost, [Next]_vars, NEW f \in 1 .. captured'
             PROVE  IF fate'[f] = Waiting THEN InChannel(f)' \/ InHands(f)' ELSE InQueue(f)'
  BY DEF NoneLost
<1>h. TypeOK /\ Channel /\ Taken
  BY DEF PumpInv
<1>c. captured \in Nat
  BY <1>h, PumpAssumption DEF TypeOK
<1>1. CASE Capture
  <2>0. UNCHANGED <<pump, frame, queue>>
    BY <1>1 DEF Capture
  <2>1. CASE f = captured + 1
    BY <1>1, <2>1, AfterCapture DEF InChannel
  <2>2. CASE f # captured + 1
    <3>1. f \in 1 .. captured /\ fate'[f] = fate[f]
      BY <1>1, <2>2, AfterCapture
    <3>2. InChannel(f) => InChannel(f)'
      BY <1>1, AfterCapture DEF InChannel
    <3>3. (InHands(f) => InHands(f)') /\ (InQueue(f) => InQueue(f)')
      BY <2>0, <3>1 DEF InHands, InQueue
    <3> QED
      BY <3>1, <3>2, <3>3 DEF NoneLost
  <2> QED
    BY <2>1, <2>2
<1>2. ASSUME NEW u \in Pump, Take(u)
      PROVE  IF fate'[f] = Waiting THEN InChannel(f)' \/ InHands(f)' ELSE InQueue(f)'
  <2>1. f \in 1 .. captured /\ fate'[f] = fate[f] /\ queue' = queue
    BY <1>2, AfterTake
  <2>2. ASSUME InChannel(f) PROVE InChannel(f)' \/ InHands(f)'
    <3>1. PICK i \in 1 .. Len(netOut) : netOut[i] = f
      BY <2>2 DEF InChannel
    <3>2. CASE i = 1
      BY <1>2, <3>1, <3>2, AfterTake DEF InHands
    <3>3. CASE i # 1
      <4>1. i - 1 \in 1 .. Len(netOut') /\ netOut'[i - 1] = f
        BY <1>2, <3>1, <3>3, AfterTake
      <4> QED
        BY <4>1 DEF InChannel
    <3> QED
      BY <3>2, <3>3
  <2>3. InHands(f) => InHands(f)'
    <3>1. \A v \in Pump : pump[v] = "send" => v # u
      BY <1>2, AfterTake
    <3> QED
      BY <1>2, <3>1, AfterTake DEF InHands
  <2>4. InQueue(f) => InQueue(f)'
    BY <2>1 DEF InQueue
  <2> QED
    BY <2>1, <2>2, <2>3, <2>4 DEF NoneLost
<1>3. ASSUME NEW u \in Pump, Send(u)
      PROVE  IF fate'[f] = Waiting THEN InChannel(f)' \/ InHands(f)' ELSE InQueue(f)'
  <2>1. f \in 1 .. captured /\ handle[u] # Waiting
    BY <1>3, PumpAssumption, AfterSend
  <2>2. CASE f = frame[u]
    <3>1. fate'[f] = handle[u]
      BY <1>3, <2>1, <2>2, AfterSend
    <3>2. InQueue(f)'
      <4>1. Len(queue[handle[u]]) + 1 \in 1 .. Len(queue'[handle[u]])
        BY <1>3, AfterSend
      <4>2. queue'[handle[u]][Len(queue[handle[u]]) + 1][2] = f
        BY <1>3, <2>2, AfterSend
      <4> QED
        BY <3>1, <4>1, <4>2 DEF InQueue
    <3> QED
      BY <2>1, <3>1, <3>2
  <2>3. CASE f # frame[u]
    <3>1. fate'[f] = fate[f]
      BY <1>3, <2>1, <2>3, AfterSend
    <3>2. CASE fate[f] = Waiting
      <4>1. InChannel(f) \/ InHands(f)
        BY <2>1, <3>2 DEF NoneLost
      <4>2. InChannel(f) => InChannel(f)'
        BY <1>3, AfterSend DEF InChannel
      <4>3. InHands(f) => InHands(f)'
        BY <1>3, <2>3, AfterSend DEF InHands
      <4> QED
        BY <3>1, <3>2, <4>1, <4>2, <4>3
    <3>3. CASE fate[f] # Waiting
      <4>1. fate[f] \in Session
        BY <1>h, <2>1, <3>3 DEF TypeOK
      <4>2. PICK i \in 1 .. Len(queue[fate[f]]) : queue[fate[f]][i][2] = f
        BY <2>1, <3>3 DEF NoneLost, InQueue
      <4>3. i \in 1 .. Len(queue'[fate[f]]) /\ queue'[fate[f]][i] = queue[fate[f]][i]
        BY <1>3, <4>1, <4>2, AfterSend
      <4> QED
        BY <3>1, <3>3, <4>2, <4>3 DEF InQueue
    <3> QED
      BY <3>2, <3>3
  <2> QED
    BY <2>2, <2>3
<1>4. CASE ~Capture /\ \A u \in Pump : ~Take(u) /\ ~Send(u)
  <2>1. UNCHANGED <<captured, netOut, fate, frame, queue>>
    BY <1>4, OtherSteps
  <2>2. \A u \in Pump : pump[u] = "send" => pump'[u] = "send"
    <3>1. ASSUME NEW u \in Pump, Look(u) \/ Lock(u) \/ Timeout(u)
          PROVE  \A v \in Pump : pump[v] = "send" => pump'[v] = "send"
      BY <1>h, <3>1 DEF Look, Lock, Timeout, Goto, TypeOK
    <3>2. CASE Teardown \/ UNCHANGED vars \/ \E s \in Session : Activate(s)
      BY <3>2 DEF Teardown, vars, Activate
    <3> QED
      BY <1>4, <3>1, <3>2, Cases
  <2> QED
    BY <2>1, <2>2 DEF NoneLost, InChannel, InHands, InQueue
<1> QED
  BY <1>1, <1>2, <1>3, <1>4

(* A pump sends only what nobody was sent.                                 *)
LEMMA NoneTwiceStep == PumpInv /\ NoneTwice /\ [Next]_vars => NoneTwice'
<1> SUFFICES ASSUME PumpInv, NoneTwice, [Next]_vars PROVE NoneTwice'
  OBVIOUS
<1>h. TypeOK /\ Taken
  BY DEF PumpInv
<1>1. CASE Capture
  <2>1. queue' = queue
    BY <1>1 DEF Capture
  <2>2. \A g \in 1 .. captured : g \in 1 .. captured' /\ fate'[g] = fate[g]
    BY <1>1, AfterCapture
  <2> QED
    BY <2>1, <2>2 DEF NoneTwice
<1>2. ASSUME NEW u \in Pump, Take(u) PROVE NoneTwice'
  BY <1>2, AfterTake DEF NoneTwice
<1>3. ASSUME NEW u \in Pump, Send(u) PROVE NoneTwice'
  <2>1. ASSUME NEW s \in Session, NEW i \in 1 .. Len(queue'[s]),
               s # handle[u] \/ i # Len(queue[s]) + 1
        PROVE  i \in 1 .. Len(queue[s]) /\ queue'[s][i] = queue[s][i]
    BY <1>3, <2>1, AfterSend
  <2>2. ASSUME NEW s \in Session, NEW i \in 1 .. Len(queue[s])
        PROVE  /\ queue[s][i][2] \in 1 .. captured /\ queue[s][i][2] # frame[u]
               /\ fate'[queue[s][i][2]] = s
    <3>1. queue[s][i][2] \in 1 .. captured /\ fate[queue[s][i][2]] = s /\ s # Waiting
      BY <2>2, PumpAssumption DEF NoneTwice
    <3>2. fate[frame[u]] = Waiting
      BY <1>3, <1>h, AfterSend DEF Taken
    <3> QED
      BY <1>3, <3>1, <3>2, AfterSend
  <2>3. /\ captured' = captured /\ frame[u] \in 1 .. captured /\ fate'[frame[u]] = handle[u]
        /\ queue'[handle[u]][Len(queue[handle[u]]) + 1][2] = frame[u]
    BY <1>3, AfterSend
  <2>4. ASSUME NEW s \in Session, NEW i \in 1 .. Len(queue'[s])
        PROVE  queue'[s][i][2] \in 1 .. captured' /\ fate'[queue'[s][i][2]] = s
    <3>1. CASE s = handle[u] /\ i = Len(queue[s]) + 1
      BY <2>3, <3>1
    <3>2. CASE s # handle[u] \/ i # Len(queue[s]) + 1
      <4>1. i \in 1 .. Len(queue[s]) /\ queue'[s][i] = queue[s][i]
        BY <2>1, <3>2
      <4> QED
        BY <2>2, <2>3, <4>1
    <3> QED
      BY <3>1, <3>2
  <2>5. ASSUME NEW s \in Session, NEW i \in 1 .. Len(queue'[s]), NEW j \in 1 .. Len(queue'[s]),
               queue'[s][i][2] = queue'[s][j][2], i # j
        PROVE  FALSE
    <3>1. CASE s = handle[u] /\ i = Len(queue[s]) + 1
      BY <2>1, <2>2, <2>3, <2>5, <3>1
    <3>2. CASE s = handle[u] /\ j = Len(queue[s]) + 1
      BY <2>1, <2>2, <2>3, <2>5, <3>2
    <3>3. CASE s # handle[u] \/ (i # Len(queue[s]) + 1 /\ j # Len(queue[s]) + 1)
      BY <2>1, <2>5, <3>3 DEF NoneTwice
    <3> QED
      BY <3>1, <3>2, <3>3
  <2> QED
    BY <2>4, <2>5 DEF NoneTwice
<1>4. CASE ~Capture /\ \A u \in Pump : ~Take(u) /\ ~Send(u)
  BY <1>4, OtherSteps DEF NoneTwice
<1> QED
  BY <1>1, <1>2, <1>3, <1>4

(* Two pumps on one channel neither lose a frame nor send one twice,       *)
(* however they race with each other and with the room (spawn_audio_pump,  *)
(* which the program calls twice).                                         *)
THEOREM EachFrameOnce == Spec => [](NoneLost /\ NoneTwice)
<1>1. Init => NoneLost /\ NoneTwice
  BY DEF Init, NoneLost, NoneTwice
<1>2. PumpInv /\ NoneLost /\ NoneTwice /\ [Next]_vars => NoneLost' /\ NoneTwice'
  BY NoneLostStep, NoneTwiceStep
<1> QED
  BY <1>1, <1>2, PumpInvHolds, PTL DEF Spec

(* The receiver is locked by the pump that waits for a frame and by no     *)
(* other, so its time-out always frees it: what FrameHanded rests on.      *)
LockHeld == \A u \in Pump : pump[u] = "recv" <=> holder = u

THEOREM OneReceiver == Spec => []LockHeld
<1>1. Init => LockHeld
  BY PumpAssumption DEF Init, LockHeld
<1>2. TypeOK /\ LockHeld /\ [Next]_vars => LockHeld'
  <2> SUFFICES ASSUME TypeOK, LockHeld, [Next]_vars PROVE LockHeld'
    OBVIOUS
  <2> USE PumpAssumption DEF LockHeld, Goto, TypeOK
  <2>1. ASSUME NEW u \in Pump, Look(u) PROVE LockHeld'
    BY <2>1 DEF Look
  <2>2. ASSUME NEW u \in Pump, Lock(u) PROVE LockHeld'
    BY <2>2 DEF Lock
  <2>3. ASSUME NEW u \in Pump, Take(u) PROVE LockHeld'
    BY <2>3 DEF Take
  <2>4. ASSUME NEW u \in Pump, Timeout(u) PROVE LockHeld'
    BY <2>4 DEF Timeout
  <2>5. ASSUME NEW u \in Pump, Send(u) PROVE LockHeld'
    BY <2>5 DEF Send
  <2>6. CASE Capture \/ Teardown \/ UNCHANGED vars \/ \E s \in Session : Activate(s)
    BY <2>6 DEF Capture, Teardown, Activate, vars
  <2> QED
    BY <2>1, <2>2, <2>3, <2>4, <2>5, <2>6, Cases
<1> QED
  BY <1>1, <1>2, TypeCorrect, PTL DEF Spec

-----------------------------------------------------------------------------
(* Each step of the pumps and the room is one that FrameRoute allows, or a *)
(* stutter.                                                                *)
LEMMA RouteStep == PumpInv /\ [Next]_vars => [Route!Next]_(Route!vars)
<1> SUFFICES ASSUME PumpInv, [Next]_vars PROVE Route!Next \/ UNCHANGED Route!vars
  OBVIOUS
<1>h. Handles /\ Taken
  BY DEF PumpInv
<1>1. CASE Capture
  BY <1>1 DEF Capture, roomVars, Route!Next, Route!Capture
<1>2. ASSUME NEW s \in Session, Activate(s) PROVE Route!Next
  BY <1>2 DEF Activate, Route!Next, Route!Open
<1>3. CASE Teardown
  BY <1>3 DEF Teardown, Route!Next, Route!Leave
<1>4. ASSUME NEW u \in Pump, Send(u) PROVE Route!Next
  <2>1. /\ handle[u] \in Session /\ frame[u] \in 1 .. captured /\ fate[frame[u]] = Waiting
        /\ handle[u] = active \/ (handle[u] \in past /\ <<u, handle[u]>> \notin strayed)
    BY <1>4, <1>h DEF Send, Handles, Serving, Taken
  <2>2. Route!Hand(u, frame[u], handle[u])
    BY <1>4, <2>1, <1>h DEF Send, roomVars, Route!Hand, Handles
  <2> QED
    BY <2>1, <2>2 DEF Route!Next
<1>5. ASSUME NEW u \in Pump, Look(u) \/ Lock(u) \/ Take(u) \/ Timeout(u)
      PROVE  UNCHANGED Route!vars
  BY <1>5 DEF Look, Lock, Take, Timeout, roomVars, Route!vars
<1>6. CASE UNCHANGED vars
  BY <1>6 DEF vars, Route!vars
<1> QED
  BY <1>1, <1>2, <1>3, <1>4, <1>5, <1>6, Cases

(* The audio pumps implement the promise about frames: each is handed to   *)
(* at most one session, and a stale handle costs a pump at most one frame  *)
(* for each session that was left or replaced.                             *)
THEOREM RoutedHolds == Spec => Routed
<1>1. Init => Route!Init
  BY DEF Init, Route!Init
<1> QED
  BY <1>1, RouteStep, PumpInvHolds, PTL DEF Spec, Routed, Route!Spec

-----------------------------------------------------------------------------
(* The receiving thread.                                                   *)
LEMMA VoiceSteps ==
  ASSUME [VoiceNext]_voiceVars
  PROVE  /\ [Next]_vars
         /\ \/ UNCHANGED <<inbox, pre_buf, armed>>
            \/ \E s \in Session : Deliver(s)
            \/ \E k \in 0 .. MaxPop, other \in BOOLEAN : RxTurn(k, other)
            \/ Restart
  BY DEF VoiceNext, voiceVars, rxVars, Deliver, RxTurn, Restart

(* With the network and the receiver around them the pumps do what they    *)
(* did: what was proved of Spec holds of VoiceSpec.                        *)
THEOREM PumpsKeepTheirPromise ==
    VoiceSpec => Routed /\ []OwnOrder /\ [](NoneLost /\ NoneTwice)
<1>1. VoiceInit => Init
  BY DEF VoiceInit
<1>2. [VoiceNext]_voiceVars => [Next]_vars
  BY VoiceSteps
<1>3. VoiceSpec => Spec
  BY <1>1, <1>2, PTL DEF VoiceSpec, Spec
<1> QED
  BY <1>3, RoutedHolds, OwnOrderHolds, EachFrameOnce, PTL

(* Sample i of n packets of p samples belongs to one of them.              *)
LEMMA PacketOfSample ==
  ASSUME NEW n \in Nat, NEW p \in Nat \ {0}, NEW i \in 1 .. n * p
  PROVE  ((i - 1) \div p) + 1 \in 1 .. n
<1> DEFINE d == (i - 1) \div p
<1>1. n * p \in Nat
  OBVIOUS
<1>2. d \in Nat /\ p * d <= i - 1
  <2>1. i - 1 \in Nat
    BY <1>1
  <2> QED
    BY <2>1
<1>3. p * d < n * p
  BY <1>1, <1>2
<1>4. d \in Nat
  BY <1>2
<1> HIDE DEF d
<1>5. d < n
  <2>1. SUFFICES ASSUME d >= n PROVE FALSE
    BY <1>4
  <2>2. PICK e \in Nat : d = n + e
    <3>1. d - n \in Nat
      BY <2>1, <1>4
    <3> QED
      BY <3>1, <1>4
  <2>3. p * d = n * p + p * e /\ p * e \in Nat
    BY <2>2
  <2> QED
    BY <1>1, <1>3, <2>3
<1> QED
  BY <1>4, <1>5 DEF d

LEMMA DecodeType ==
  ASSUME NEW S, NEW q \in Seq(S)
  PROVE  Decode(q) \in Seq(S)
<1>1. Len(q) \in Nat /\ PacketLen \in Nat \ {0} /\ \A j \in 1 .. Len(q) : q[j] \in S
  BY PlayoutAssumption
<1>2. ASSUME NEW i \in 1 .. Len(q) * PacketLen
      PROVE  q[((i - 1) \div PacketLen) + 1] \in S
  <2>1. ((i - 1) \div PacketLen) + 1 \in 1 .. Len(q)
    BY <1>1, PacketOfSample
  <2> QED
    BY <1>1, <2>1
<1>3. Len(q) * PacketLen \in Nat
  BY <1>1
<1> HIDE DEF Decode
<1>4. Decode(q) \in [1 .. Len(q) * PacketLen -> S]
  BY <1>2 DEF Decode
<1> QED
  BY <1>3, <1>4

LEMMA NewestType ==
  ASSUME NEW S, NEW q \in Seq(S), NEW n \in Nat
  PROVE  Newest(q, n) \in Seq(S) /\ Len(Newest(q, n)) <= Len(q)
<1>1. CASE Len(q) <= n
  BY <1>1 DEF Newest
<1>2. CASE Len(q) > n
  <2>1. /\ Newest(q, n) = SubSeq(q, Len(q) - n + 1, Len(q))
        /\ Len(q) \in Nat /\ Len(q) - n + 1 \in 1 .. Len(q) + 1
    BY <1>2 DEF Newest
  <2> QED
    BY <2>1, SubSeqProperties
<1> QED
  BY <1>1, <1>2

RxTypes ==
    /\ arrived \in 0 .. MaxArrivals
    /\ inbox \in Seq(1 .. MaxArrivals)
    /\ pre_buf \in Seq(1 .. MaxArrivals)
    /\ armed \in BOOLEAN

LEMMA KeptType ==
  ASSUME RxTypes
  PROVE  /\ Pushed(inbox) \in Seq(1 .. MaxArrivals)
         /\ Kept(inbox) \in Seq(1 .. MaxArrivals)
         /\ Len(Kept(inbox)) <= Len(Pushed(inbox))
         /\ Len(Kept(inbox)) \in Nat
         /\ inbox = <<>> => Pushed(inbox) = pre_buf
<1>1. Decode(inbox) \in Seq(1 .. MaxArrivals)
  BY DecodeType DEF RxTypes
<1>2. Pushed(inbox) \in Seq(1 .. MaxArrivals)
  BY <1>1, ConcatProperties DEF Pushed, RxTypes
<1>3. MaxCap \in Nat
  BY PlayoutAssumption DEF MaxCap
<1>4. inbox = <<>> => Pushed(inbox) = pre_buf
  <2>1. PacketLen \in Nat
    BY PlayoutAssumption
  <2>2. ASSUME inbox = <<>> PROVE Len(inbox) * PacketLen = 0
    BY <2>1, <2>2
  <2>3. inbox = <<>> => Decode(inbox) = <<>>
    BY <2>2 DEF Decode
  <2> QED
    BY <2>3, ConcatEmptySeq DEF Pushed, RxTypes
<1> QED
  BY <1>2, <1>3, <1>4, NewestType, LenProperties DEF Kept

LEMMA InitRx == VoiceInit => RxTypes /\ NoStuckAudio
<1> SUFFICES ASSUME VoiceInit PROVE RxTypes /\ NoStuckAudio
  OBVIOUS
<1>1. arrived = 0 /\ inbox = <<>> /\ pre_buf = <<>> /\ armed = FALSE
  BY DEF VoiceInit
<1>2. <<>> \in Seq(1 .. MaxArrivals) /\ Len(<<>>) = 0
  BY EmptySeq
<1>3. Prebuffer \in Nat \ {0} /\ 0 \in 0 .. MaxArrivals
  BY PlayoutAssumption
<1>4. NoStuckAudio
  BY <1>1, <1>2, <1>3 DEF NoStuckAudio
<1>5. RxTypes
  BY <1>1, <1>2, <1>3 DEF RxTypes
<1> QED
  BY <1>4, <1>5

LEMMA RxStep == RxTypes /\ NoStuckAudio /\ [VoiceNext]_voiceVars => RxTypes' /\ NoStuckAudio'
<1> SUFFICES ASSUME RxTypes, NoStuckAudio, [VoiceNext]_voiceVars
             PROVE  RxTypes' /\ NoStuckAudio'
  OBVIOUS
<1>n. Prebuffer \in Nat \ {0} /\ MaxArrivals \in Nat /\ MaxPop \in Nat
  BY PlayoutAssumption
<1>1. CASE UNCHANGED rxVars
  BY <1>1 DEF rxVars, RxTypes, NoStuckAudio
<1>2. ASSUME NEW s \in Session, Deliver(s) PROVE RxTypes' /\ NoStuckAudio'
  <2>1. /\ arrived < MaxArrivals /\ arrived' = arrived + 1
        /\ inbox' = Append(inbox, arrived + 1) /\ UNCHANGED <<pre_buf, armed>>
    BY <1>2 DEF Deliver
  <2>2. arrived' \in 1 .. MaxArrivals /\ inbox \in Seq(1 .. MaxArrivals)
    BY <1>n, <2>1 DEF RxTypes
  <2>3. inbox' \in Seq(1 .. MaxArrivals)
    BY <2>1, <2>2, AppendProperties
  <2> QED
    BY <1>n, <2>1, <2>2, <2>3 DEF RxTypes, NoStuckAudio
<1>3. CASE Restart
  <2>1. inbox' = <<>> /\ pre_buf' = <<>> /\ armed' = FALSE /\ arrived' = arrived
    BY <1>3 DEF Restart
  <2>2. <<>> \in Seq(1 .. MaxArrivals) /\ Len(<<>>) = 0
    BY EmptySeq
  <2>3. NoStuckAudio'
    BY <1>n, <2>1, <2>2 DEF NoStuckAudio
  <2>4. RxTypes'
    BY <2>1, <2>2 DEF RxTypes
  <2> QED
    BY <2>3, <2>4
<1>4. ASSUME NEW k \in 0 .. MaxPop, NEW other \in BOOLEAN, RxTurn(k, other)
      PROVE  RxTypes' /\ NoStuckAudio'
  <2> DEFINE kept == Kept(inbox)
  <2>1. /\ kept \in Seq(1 .. MaxArrivals) /\ Len(kept) \in Nat
        /\ ~Arms(inbox) => Len(kept) < Prebuffer
    <3>1. ~Arms(inbox) => Len(Pushed(inbox)) < Prebuffer
      BY <1>n, KeptType, LenProperties DEF Arms, NoStuckAudio
    <3> QED
      BY <1>n, <3>1, KeptType, LenProperties
  <2>2. Arms(inbox) \in BOOLEAN
    BY DEF Arms, RxTypes
  <2>3. inbox' = <<>> /\ arrived' = arrived
    BY <1>4 DEF RxTurn
  <2>e. <<>> \in Seq(1 .. MaxArrivals) /\ Len(<<>>) = 0 /\ arrived \in 0 .. MaxArrivals
    BY EmptySeq DEF RxTypes
  <2>4. \/ pre_buf' = kept /\ armed' = Arms(inbox)
        \/ ~Arms(inbox) /\ pre_buf' = kept /\ armed' = FALSE
        \/ pre_buf' = SubSeq(kept, k + 1, Len(kept)) /\ armed' = (k <= Len(kept))
    BY <1>4, <2>2 DEF RxTurn
  <2> HIDE DEF kept
  <2>5. CASE pre_buf' = kept /\ (armed' = Arms(inbox) \/ (~Arms(inbox) /\ armed' = FALSE))
    <3>1. armed' \in BOOLEAN /\ (~armed' => Len(kept) < Prebuffer)
      <4>1. CASE armed' = Arms(inbox)
        BY <2>1, <2>2, <4>1
      <4>2. CASE ~Arms(inbox) /\ armed' = FALSE
        BY <2>1, <4>2
      <4> QED
        BY <2>5, <4>1, <4>2
    <3>2. RxTypes'
      BY <2>1, <2>3, <2>5, <2>e, <3>1 DEF RxTypes
    <3> QED
      BY <2>5, <3>1, <3>2 DEF NoStuckAudio
  <2>6. CASE pre_buf' = SubSeq(kept, k + 1, Len(kept)) /\ armed' = (k <= Len(kept))
    <3>1. CASE k <= Len(kept)
      <4>1. k + 1 \in Int /\ \A i \in k + 1 .. Len(kept) : kept[i] \in 1 .. MaxArrivals
        BY <1>n, <2>1
      <4>2. pre_buf' \in Seq(1 .. MaxArrivals)
        BY <2>1, <2>6, <4>1, SubSeqProperties
      <4>3. armed' = TRUE
        BY <2>6, <3>1
      <4> QED
        BY <2>3, <2>e, <4>2, <4>3 DEF RxTypes, NoStuckAudio
    <3>2. CASE k > Len(kept)
      <4>1. pre_buf' = <<>>
        BY <1>n, <2>1, <2>6, <3>2, SubSeqEmpty
      <4>2. armed' \in BOOLEAN
        BY <2>6
      <4>3. RxTypes'
        BY <2>3, <2>e, <4>1, <4>2 DEF RxTypes
      <4> QED
        BY <1>n, <2>e, <4>1, <4>3 DEF NoStuckAudio
    <3> QED
      BY <2>1, <3>1, <3>2
  <2> QED
    BY <2>4, <2>5, <2>6
<1> QED
  BY <1>1, <1>2, <1>3, <1>4, VoiceSteps DEF rxVars, voiceVars, VoiceNext, vars

(* A stream that holds as much as the pre-buffer is being played, whatever *)
(* else is heard meanwhile (push_packet, pop_sample, rx_loop).             *)
THEOREM NoStuckAudioHolds == VoiceSpec => []NoStuckAudio
<1>1. VoiceInit => RxTypes /\ NoStuckAudio
  BY InitRx
<1> QED
  BY <1>1, RxStep, PTL DEF VoiceSpec

(* The variables of the whole path keep their types.                       *)
THEOREM VoiceTypeCorrect == VoiceSpec => []VoiceTypeOK
<1>1. VoiceInit => RxTypes /\ NoStuckAudio
  BY InitRx
<1>2. VoiceInit => Init
  BY DEF VoiceInit
<1>3. [VoiceNext]_voiceVars => [Next]_vars
  BY VoiceSteps
<1>4. TypeOK /\ RxTypes => VoiceTypeOK
  BY DEF RxTypes, VoiceTypeOK
<1> QED
  BY <1>1, <1>2, <1>3, <1>4, RxStep, TypeCorrect, PTL DEF VoiceSpec, Spec

-----------------------------------------------------------------------------
(* The packet sample i of the arrivals belongs to.                         *)
PacketOf(i) == ((i - 1) \div PacketLen) + 1

(* s is what came last when n samples have come.                           *)
EndsAt(s, n) ==
    Len(s) <= n /\ \A i \in 1 .. Len(s) : s[i] = PacketOf(n - Len(s) + i)

Drained == arrived - Len(inbox)

(* The channel holds the last arrivals, in order; the stream the last of   *)
(* what was drained from it.                                               *)
InboxIsNewest ==
    Len(inbox) <= arrived /\ \A i \in 1 .. Len(inbox) : inbox[i] = Drained + i

Recent == InboxIsNewest /\ Len(pre_buf) <= MaxCap /\ EndsAt(pre_buf, Drained * PacketLen)

(* Samples counted from a packet boundary.                                *)
LEMMA PacketAfter ==
  ASSUME NEW n \in Nat, NEW p \in Nat \ {0}, NEW x \in Nat
  PROVE  (n * p + x) \div p = n + (x \div p)
<1> DEFINE d == x \div p
<1> DEFINE e == (n * p + x) \div p
<1>1. n * p \in Nat /\ n * p + x \in Nat
  OBVIOUS
<1>2. d \in Nat /\ p * d <= x /\ x < p * d + p
  OBVIOUS
<1>3. e \in Nat /\ p * e <= n * p + x /\ n * p + x < p * e + p
  BY <1>1
<1> HIDE DEF d, e
<1>4. p * (n + d) = n * p + p * d /\ p * (n + d) \in Nat /\ p * e \in Nat
  BY <1>2, <1>3
<1>5. ~ (e < n + d)
  <2>1. SUFFICES ASSUME e < n + d PROVE FALSE
    OBVIOUS
  <2>2. PICK f \in Nat : n + d = e + 1 + f
    <3>1. n + d - e - 1 \in Nat
      BY <1>2, <1>3, <2>1
    <3> QED
      BY <3>1, <1>2, <1>3
  <2>3. p * (n + d) = p * e + p + p * f /\ p * f \in Nat
    BY <1>3, <2>2
  <2> QED
    BY <1>1, <1>2, <1>3, <1>4, <2>3
<1>6. ~ (n + d < e)
  <2>1. SUFFICES ASSUME n + d < e PROVE FALSE
    OBVIOUS
  <2>2. PICK f \in Nat : e = n + d + 1 + f
    <3>1. e - (n + d) - 1 \in Nat
      BY <1>2, <1>3, <2>1
    <3> QED
      BY <3>1, <1>2, <1>3
  <2>3. p * e = p * (n + d) + p + p * f /\ p * f \in Nat
    BY <1>2, <2>2
  <2> QED
    BY <1>1, <1>2, <1>3, <1>4, <2>3
<1> QED
  BY <1>2, <1>3, <1>5, <1>6 DEF d, e

(* The samples of the channel follow those of the packets drained before.  *)
LEMMA DecodeInbox ==
  ASSUME RxTypes, InboxIsNewest
  PROVE  /\ Decode(inbox) \in Seq(1 .. MaxArrivals)
         /\ Len(Decode(inbox)) = Len(inbox) * PacketLen
         /\ Drained * PacketLen \in Nat
         /\ Drained * PacketLen + Len(inbox) * PacketLen = arrived * PacketLen
         /\ \A i \in 1 .. Len(Decode(inbox)) :
               Decode(inbox)[i] = PacketOf(Drained * PacketLen + i)
<1>1. /\ PacketLen \in Nat \ {0} /\ Len(inbox) \in Nat /\ arrived \in Nat
      /\ Drained \in Nat /\ arrived = Drained + Len(inbox)
  BY PlayoutAssumption, LenProperties DEF RxTypes, InboxIsNewest, Drained
<1>2. Decode(inbox) \in Seq(1 .. MaxArrivals)
  BY DecodeType DEF RxTypes
<1>3. Len(inbox) * PacketLen \in Nat /\ Drained * PacketLen \in Nat
  BY <1>1
<1>4. Len(Decode(inbox)) = Len(inbox) * PacketLen
  BY <1>3 DEF Decode
<1>5. Drained * PacketLen + Len(inbox) * PacketLen = arrived * PacketLen
  BY <1>1
<1>6. ASSUME NEW i \in 1 .. Len(inbox) * PacketLen
      PROVE  Decode(inbox)[i] = PacketOf(Drained * PacketLen + i)
  <2> DEFINE j == ((i - 1) \div PacketLen) + 1
  <2>1. j \in 1 .. Len(inbox)
    BY <1>1, PacketOfSample
  <2>2. Decode(inbox)[i] = inbox[j]
    BY DEF Decode
  <2>3. inbox[j] = Drained + j
    BY <2>1 DEF InboxIsNewest
  <2>4. i - 1 \in Nat
    BY <1>3
  <2>5. (Drained * PacketLen + (i - 1)) \div PacketLen = Drained + ((i - 1) \div PacketLen)
    BY <1>1, <2>4, PacketAfter
  <2>6. (Drained * PacketLen + i) - 1 = Drained * PacketLen + (i - 1)
    BY <1>3
  <2>7. (i - 1) \div PacketLen \in Nat
    BY <1>1, <2>4
  <2> QED
    BY <1>1, <2>2, <2>3, <2>5, <2>6, <2>7 DEF PacketOf
<1> QED
  BY <1>2, <1>3, <1>4, <1>5, <1>6

(* A sequence that follows one that ends at m ends at m plus its length.   *)
LEMMA EndsAtConcat ==
  ASSUME NEW S, NEW s \in Seq(S), NEW t \in Seq(S), NEW m \in Nat, EndsAt(s, m),
         \A i \in 1 .. Len(t) : t[i] = PacketOf(m + i)
  PROVE  EndsAt(s \o t, m + Len(t))
<1>1. /\ s \o t \in Seq(S) /\ Len(s \o t) = Len(s) + Len(t)
      /\ \A i \in 1 .. Len(s) + Len(t) :
            (s \o t)[i] = IF i <= Len(s) THEN s[i] ELSE t[i - Len(s)]
  BY ConcatProperties
<1>2. Len(s) \in Nat /\ Len(t) \in Nat /\ Len(s) <= m
  BY LenProperties DEF EndsAt
<1>3. ASSUME NEW i \in 1 .. Len(s) + Len(t)
      PROVE  (s \o t)[i] = PacketOf(m + Len(t) - (Len(s) + Len(t)) + i)
  <2>1. m + Len(t) - (Len(s) + Len(t)) + i = m - Len(s) + i
    BY <1>2
  <2>2. CASE i <= Len(s)
    <3>1. i \in 1 .. Len(s)
      BY <1>2, <2>2
    <3> QED
      BY <1>1, <2>1, <2>2, <3>1 DEF EndsAt
  <2>3. CASE ~ (i <= Len(s))
    <3>1. i - Len(s) \in 1 .. Len(t) /\ m + (i - Len(s)) = m - Len(s) + i
      BY <1>2, <2>3
    <3> QED
      BY <1>1, <2>1, <2>3, <3>1
  <2> QED
    BY <2>2, <2>3
<1> QED
  BY <1>1, <1>2, <1>3 DEF EndsAt

(* What is left when the first elements are dropped ends where it did.     *)
LEMMA EndsAtDrop ==
  ASSUME NEW S, NEW s \in Seq(S), NEW n \in Nat, EndsAt(s, n), NEW k \in 1 .. Len(s) + 1
  PROVE  /\ EndsAt(SubSeq(s, k, Len(s)), n)
         /\ Len(SubSeq(s, k, Len(s))) = Len(s) - k + 1
<1>1. Len(s) \in Nat /\ Len(s) <= n
  BY LenProperties DEF EndsAt
<1>2. \A i \in k .. Len(s) : s[i] \in S
  BY <1>1, ElementOfSeq
<1>3. /\ Len(SubSeq(s, k, Len(s))) = Len(s) - k + 1
      /\ \A i \in 1 .. Len(s) - k + 1 : SubSeq(s, k, Len(s))[i] = s[k + i - 1]
  BY <1>1, <1>2, SubSeqProperties
<1>4. ASSUME NEW i \in 1 .. Len(s) - k + 1
      PROVE  SubSeq(s, k, Len(s))[i] = PacketOf(n - (Len(s) - k + 1) + i)
  <2>1. k + i - 1 \in 1 .. Len(s)
    BY <1>1
  <2>2. n - Len(s) + (k + i - 1) = n - (Len(s) - k + 1) + i
    BY <1>1
  <2> QED
    BY <1>3, <2>1, <2>2 DEF EndsAt
<1> QED
  BY <1>1, <1>3, <1>4 DEF EndsAt

(* What push_packet keeps ends with the last sample that arrived.          *)
LEMMA KeptEndsAt ==
  ASSUME RxTypes, Recent
  PROVE  EndsAt(Kept(inbox), arrived * PacketLen) /\ Len(Kept(inbox)) <= MaxCap
<1>1. /\ Pushed(inbox) \in Seq(1 .. MaxArrivals) /\ MaxCap \in Nat
      /\ Len(Pushed(inbox)) \in Nat
  BY KeptType, PlayoutAssumption, LenProperties DEF MaxCap
<1>2. EndsAt(Pushed(inbox), arrived * PacketLen)
  BY DecodeInbox, EndsAtConcat DEF Recent, Pushed, RxTypes
<1>3. arrived * PacketLen \in Nat
  BY PlayoutAssumption DEF RxTypes
<1>4. CASE Len(Pushed(inbox)) <= MaxCap
  BY <1>2, <1>4 DEF Kept, Newest
<1>5. CASE ~ (Len(Pushed(inbox)) <= MaxCap)
  <2>1. Len(Pushed(inbox)) - MaxCap + 1 \in 1 .. Len(Pushed(inbox)) + 1
    BY <1>1, <1>5
  <2>2. Kept(inbox) = SubSeq(Pushed(inbox), Len(Pushed(inbox)) - MaxCap + 1, Len(Pushed(inbox)))
    BY <1>5 DEF Kept, Newest
  <2>3. Len(Pushed(inbox)) - (Len(Pushed(inbox)) - MaxCap + 1) + 1 = MaxCap
    BY <1>1
  <2>4. /\ EndsAt(Kept(inbox), arrived * PacketLen)
        /\ Len(Kept(inbox)) = Len(Pushed(inbox)) - (Len(Pushed(inbox)) - MaxCap + 1) + 1
    BY <1>1, <1>2, <1>3, <2>1, <2>2, EndsAtDrop
  <2> QED
    BY <1>1, <2>3, <2>4
<1> QED
  BY <1>4, <1>5

(* A sequence of arrival numbers is one of natural numbers.                *)
LEMMA NumbersSeq == \A n \in Nat : \A s \in Seq(1 .. n) : s \in Seq(Nat)
<1> SUFFICES ASSUME NEW n \in Nat PROVE Seq(1 .. n) \subseteq Seq(Nat)
  OBVIOUS
<1>1. 1 .. n \subseteq Nat
  OBVIOUS
<1> QED
  BY <1>1, SeqMonotonic

(* Whatever the thread does - drain, push, trim, pop, disarm - the stream  *)
(* goes on ending with the last sample drained.                            *)
LEMMA RecentStep == RxTypes /\ Recent /\ [VoiceNext]_voiceVars => Recent'
<1> SUFFICES ASSUME RxTypes, Recent, [VoiceNext]_voiceVars PROVE Recent'
  OBVIOUS
<1>n. /\ PacketLen \in Nat \ {0} /\ MaxCap \in Nat /\ arrived \in Nat /\ Len(inbox) \in Nat
      /\ arrived * PacketLen \in Nat
  BY PlayoutAssumption, LenProperties DEF RxTypes, MaxCap
<1>e. Len(<<>>) = 0 /\ \A n \in Nat : EndsAt(<<>>, n)
  BY DEF EndsAt
<1>1. CASE UNCHANGED rxVars
  BY <1>1 DEF rxVars, Recent, InboxIsNewest, Drained, EndsAt
<1>2. ASSUME NEW s \in Session, Deliver(s) PROVE Recent'
  <2>1. arrived' = arrived + 1 /\ inbox' = Append(inbox, arrived + 1) /\ pre_buf' = pre_buf
    BY <1>2 DEF Deliver
  <2>2. /\ Len(inbox') = Len(inbox) + 1 /\ inbox'[Len(inbox) + 1] = arrived + 1
        /\ \A i \in 1 .. Len(inbox) : inbox'[i] = inbox[i]
    <3>1. inbox \in Seq(Nat) /\ arrived + 1 \in Nat
      BY <1>n, NumbersSeq, PlayoutAssumption DEF RxTypes
    <3> QED
      BY <2>1, <3>1, AppendProperties
  <2>3. Drained' = Drained
    BY <1>n, <2>1, <2>2 DEF Drained
  <2>4. InboxIsNewest'
    <3>1. ASSUME NEW i \in 1 .. Len(inbox') PROVE inbox'[i] = Drained' + i
      <4>1. CASE i = Len(inbox) + 1
        BY <1>n, <2>1, <2>2, <2>3, <4>1 DEF Drained
      <4>2. CASE i # Len(inbox) + 1
        BY <1>n, <2>2, <2>3, <4>2 DEF Recent, InboxIsNewest
      <4> QED
        BY <4>1, <4>2
    <3> QED
      BY <1>n, <2>1, <2>2, <3>1 DEF Recent, InboxIsNewest
  <2> QED
    BY <2>1, <2>3, <2>4 DEF Recent, EndsAt
<1>3. CASE inbox' = <<>> /\ arrived' = arrived /\ Len(pre_buf') <= MaxCap
           /\ EndsAt(pre_buf', arrived * PacketLen)
  <2>1. Drained' = arrived
    BY <1>3, <1>n, <1>e DEF Drained
  <2>2. InboxIsNewest'
    BY <1>3, <1>n, <1>e, <2>1 DEF InboxIsNewest
  <2> QED
    BY <1>3, <2>1, <2>2 DEF Recent, EndsAt
<1>4. CASE Restart
  BY <1>3, <1>4, <1>e, <1>n DEF Restart
<1>5. ASSUME NEW k \in 0 .. MaxPop, NEW other \in BOOLEAN, RxTurn(k, other) PROVE Recent'
  <2> DEFINE kept == Kept(inbox)
  <2>1. /\ kept \in Seq(1 .. MaxArrivals) /\ Len(kept) \in Nat
        /\ EndsAt(kept, arrived * PacketLen) /\ Len(kept) <= MaxCap
    BY KeptType, KeptEndsAt
  <2>2. /\ inbox' = <<>> /\ arrived' = arrived
        /\ pre_buf' = kept \/ pre_buf' = SubSeq(kept, k + 1, Len(kept))
    BY <1>5 DEF RxTurn
  <2> HIDE DEF kept
  <2>3. CASE pre_buf' = kept
    BY <1>3, <2>1, <2>2, <2>3
  <2>4. CASE pre_buf' = SubSeq(kept, k + 1, Len(kept)) /\ k <= Len(kept)
    <3>1. k + 1 \in 1 .. Len(kept) + 1 /\ k \in Nat
      BY <2>1, <2>4, PlayoutAssumption
    <3>2. EndsAt(pre_buf', arrived * PacketLen) /\ Len(pre_buf') = Len(kept) - (k + 1) + 1
      BY <1>n, <2>1, <2>4, <3>1, EndsAtDrop
    <3>3. Len(pre_buf') <= MaxCap
      BY <1>n, <2>1, <3>1, <3>2
    <3> QED
      BY <1>3, <2>2, <3>2, <3>3
  <2>5. CASE pre_buf' = SubSeq(kept, k + 1, Len(kept)) /\ ~ (k <= Len(kept))
    <3>1. pre_buf' = <<>>
      BY <2>1, <2>5, PlayoutAssumption, SubSeqEmpty
    <3> QED
      BY <1>3, <1>e, <1>n, <2>2, <3>1
  <2> QED
    BY <2>2, <2>3, <2>4, <2>5
<1> QED
  BY <1>1, <1>2, <1>4, <1>5, VoiceSteps DEF VoiceNext, voiceVars, rxVars, vars

(* Ending there is being a suffix of all that was drained.                 *)
LEMMA RecentSuffix == RxTypes /\ Recent => RecentOnly
<1> SUFFICES ASSUME RxTypes, Recent PROVE RecentOnly
  OBVIOUS
<1> DEFINE q == [i \in 1 .. arrived - Len(inbox) |-> i]
<1> DEFINE d == Decode(q)
<1> DEFINE n == Len(pre_buf)
<1>1. /\ PacketLen \in Nat \ {0} /\ MaxCap \in Nat /\ Drained \in Nat
      /\ Drained * PacketLen \in Nat /\ n \in Nat
  <2>1. PacketLen \in Nat \ {0} /\ MaxCap \in Nat
    BY PlayoutAssumption DEF MaxCap
  <2>2. arrived \in Nat /\ Len(inbox) \in Nat /\ Len(pre_buf) \in Nat
    BY PlayoutAssumption, LenProperties DEF RxTypes
  <2>3. Drained \in Nat
    BY <2>2 DEF Recent, InboxIsNewest, Drained
  <2> QED
    BY <2>1, <2>2, <2>3
<1>2. q \in Seq(Nat) /\ Len(q) = Drained /\ \A i \in 1 .. Drained : q[i] = i
  BY <1>1 DEF Drained
<1> HIDE DEF q
<1>3. d \in Seq(Nat) /\ Len(d) = Drained * PacketLen
      /\ \A i \in 1 .. Drained * PacketLen : d[i] = PacketOf(i)
  <2>1. d \in Seq(Nat)
    BY <1>2, DecodeType
  <2>2. Len(d) = Drained * PacketLen
    BY <1>1, <1>2 DEF Decode
  <2>3. ASSUME NEW i \in 1 .. Drained * PacketLen PROVE d[i] = PacketOf(i)
    BY <1>1, <1>2, PacketOfSample DEF Decode, PacketOf
  <2> QED
    BY <2>1, <2>2, <2>3
<1> HIDE DEF d
<1>4. n <= Drained * PacketLen /\ n <= MaxCap
      /\ \A i \in 1 .. n : pre_buf[i] = PacketOf(Drained * PacketLen - n + i)
  BY DEF Recent, EndsAt
<1>5. pre_buf \in Seq(Nat)
  BY NumbersSeq, PlayoutAssumption DEF RxTypes
<1> HIDE DEF n
<1> DEFINE t == SubSeq(d, Len(d) - n + 1, Len(d))
<1>6. /\ t \in Seq(Nat) /\ Len(t) = n
      /\ \A i \in 1 .. n : t[i] = d[Drained * PacketLen - n + i]
  <2>1. \A i \in Len(d) - n + 1 .. Len(d) : d[i] \in Nat
    BY <1>1, <1>3, <1>4, ElementOfSeq
  <2>2. /\ t \in Seq(Nat) /\ Len(t) = n
        /\ \A i \in 1 .. Len(d) - (Len(d) - n + 1) + 1 : t[i] = d[(Len(d) - n + 1) + i - 1]
    BY <1>1, <1>3, <1>4, <2>1, SubSeqProperties
  <2>3. ASSUME NEW i \in 1 .. n
        PROVE  /\ i \in 1 .. Len(d) - (Len(d) - n + 1) + 1
               /\ (Len(d) - n + 1) + i - 1 = Drained * PacketLen - n + i
    BY <1>1, <1>3
  <2> QED
    BY <2>2, <2>3
<1>7. \A i \in 1 .. n : t[i] = pre_buf[i]
  <2>1. ASSUME NEW i \in 1 .. n PROVE Drained * PacketLen - n + i \in 1 .. Drained * PacketLen
    BY <1>1, <1>4
  <2> QED
    BY <1>3, <1>4, <1>6, <2>1
<1>8. pre_buf = t
  BY <1>5, <1>6, <1>7, SeqEqual DEF n
<1>9. n \in 0 .. MaxCap
  BY <1>1, <1>4
<1> QED
  BY <1>8, <1>9 DEF RecentOnly, d, q

(* What is heard next is never more than the cap behind the newest sample  *)
(* that was drained, whatever the lengths of packets, bursts and pops      *)
(* (push_packet, pop_sample, rx_loop).                                     *)
THEOREM RecentOnlyHolds == VoiceSpec => []RecentOnly
<1>1. VoiceInit => RxTypes /\ NoStuckAudio
  BY InitRx
<1>2. VoiceInit => Recent
  <2> SUFFICES ASSUME VoiceInit PROVE Recent
    OBVIOUS
  <2>1. arrived = 0 /\ inbox = <<>> /\ pre_buf = <<>> /\ Len(<<>>) = 0
    BY DEF VoiceInit
  <2>2. MaxCap \in Nat /\ Drained * PacketLen = 0
    BY <2>1, PlayoutAssumption DEF MaxCap, Drained
  <2> QED
    BY <2>1, <2>2 DEF Recent, InboxIsNewest, EndsAt
<1> QED
  BY <1>1, <1>2, RxStep, RecentStep, RecentSuffix, PTL DEF VoiceSpec
=============================================================================
