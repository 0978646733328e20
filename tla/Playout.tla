------------------------------ MODULE Playout ------------------------------
(***************************************************************************)
(* The voice path from one client's channel net_out to another's speaker:  *)
(* AudioPump, the network, and the receiving RX thread                     *)
(* (crates/verio-app/src/pipeline.rs).  That thread keeps one stream per   *)
(* sender, for as long as the pipeline runs and whatever sessions come and *)
(* go: a jitter buffer that is armed when 40 ms have come together,        *)
(* loses its oldest samples beyond 60 ms, and disarms when it runs dry.    *)
(* Here are one stream, and whether any other source (another stream,      *)
(* loopback, music monitor, cue) has audio, which makes the thread pop     *)
(* from every stream.  A sample is labelled with the place in the order    *)
(* of arrival of the packet it came in; late packets are only counted, so  *)
(* sequence numbers play no part in what is heard.                         *)
(***************************************************************************)
EXTENDS AudioPump

CONSTANTS PacketLen,   \* samples a packet decodes to
          Prebuffer,   \* PREBUFFER_SAMPLES
          MaxPop,      \* bound: samples the output asks for at a time
          MaxArrivals  \* bound: packets that arrive

ASSUME PlayoutAssumption ==
    /\ PacketLen \in Nat \ {0} /\ Prebuffer \in Nat \ {0}
    /\ MaxPop \in Nat \ {0} /\ MaxArrivals \in Nat

MaxCap == (Prebuffer * 3) \div 2

VARIABLES
    arrived,  \* packets that reached the channel of the pipeline
    inbox,    \* those the RX thread has not drained yet
    pre_buf,  \* the stream's samples
    armed     \* it is being played

rxVars == <<arrived, inbox, pre_buf, armed>>
voiceVars == <<vars, rxVars>>

VoiceTypeOK ==
    /\ TypeOK
    /\ arrived \in 0 .. MaxArrivals
    /\ inbox \in Seq(1 .. MaxArrivals)
    /\ pre_buf \in Seq(1 .. MaxArrivals)
    /\ armed \in BOOLEAN

VoiceInit == Init /\ arrived = 0 /\ inbox = <<>> /\ pre_buf = <<>> /\ armed = FALSE

(* The last n elements of s, or all.                                       *)
Newest(s, n) == IF Len(s) <= n THEN s ELSE SubSeq(s, Len(s) - n + 1, Len(s))

(* The samples of a sequence of packets.                                   *)
Decode(q) == [i \in 1 .. Len(q) * PacketLen |-> q[((i - 1) \div PacketLen) + 1]]

-----------------------------------------------------------------------------
(* The packets of a session - the frames in its queue, and a silent one    *)
(* whenever a peer-to-peer driver sent nothing for 400 ms - are lost,      *)
(* reordered and duplicated on their way (an unordered and unreliable      *)
(* channel, or the UDP relay).                                             *)
Deliver(s) ==
    /\ s \in past \cup {active} /\ arrived < MaxArrivals
    /\ arrived' = arrived + 1
    /\ inbox' = Append(inbox, arrived + 1)
    /\ UNCHANGED <<vars, pre_buf, armed>>

(* push_packet for each packet of q: what is in the buffer afterwards, and *)
(* whether one of them armed it.                                           *)
Pushed(q) == pre_buf \o Decode(q)

(* Faulty: beyond the cap the new samples are refused.                     *)
KeptOldest(q) == SubSeq(Pushed(q), 1, IF Len(Pushed(q)) < MaxCap THEN Len(Pushed(q)) ELSE MaxCap)

Kept(q) == Newest(Pushed(q), MaxCap)

(* Faulty: it takes more than the pre-buffer to arm.                       *)
ArmsAbove(q) == armed \/ (q # <<>> /\ Len(Pushed(q)) > Prebuffer)

Arms(q) == armed \/ (q # <<>> /\ Len(Pushed(q)) >= Prebuffer)

(* A turn of rx_loop: drain the channel; then, if any source has audio,    *)
(* pop k samples from every stream, none when the output is full.  A pop   *)
(* that finds the buffer empty disarms it.  (Deafened, the samples are     *)
(* popped all the same.)                                                   *)
RxTurn(k, other) ==
    /\ inbox' = <<>>
    /\ IF other \/ (Arms(inbox) /\ Kept(inbox) # <<>>)
       THEN /\ pre_buf' = IF Arms(inbox) THEN SubSeq(Kept(inbox), k + 1, Len(Kept(inbox)))
                          ELSE Kept(inbox)
            /\ armed' = (Arms(inbox) /\ k <= Len(Kept(inbox)))
       ELSE pre_buf' = Kept(inbox) /\ armed' = Arms(inbox)
    /\ UNCHANGED <<vars, arrived>>

(* restart_pipeline: a new channel and no streams.                         *)
Restart ==
    /\ inbox' = <<>> /\ pre_buf' = <<>> /\ armed' = FALSE
    /\ UNCHANGED <<vars, arrived>>

VoiceNext ==
    \/ Next /\ UNCHANGED rxVars
    \/ \E s \in Session : Deliver(s)
    \/ \E k \in 0 .. MaxPop, other \in BOOLEAN : RxTurn(k, other)
    \/ Restart

VoiceSpec == VoiceInit /\ [][VoiceNext]_voiceVars /\ PumpFairness

-----------------------------------------------------------------------------
(* A stream that holds 40 ms or more is armed: nothing that came together  *)
(* waits unheard for the next talk spurt (push_packet against the disarm   *)
(* in pop_sample, driven by the audio of other streams).                   *)
NoStuckAudio == ~armed => Len(pre_buf) < Prebuffer

(* What is heard next is never more than 60 ms behind the newest sample    *)
(* that came in, however packets arrive in bursts or pile up while nothing *)
(* is popped: the buffer is a suffix, of bounded length, of what arrived.  *)
RecentOnly ==
    LET drained == Decode([i \in 1 .. arrived - Len(inbox) |-> i])
    IN  \E n \in 0 .. MaxCap : pre_buf = SubSeq(drained, Len(drained) - n + 1, Len(drained))
=============================================================================
