----------------------------- MODULE MCRelayMedia -----------------------------
(***************************************************************************)
(* Locking on, for two clients of a room: Early was answered, Late was     *)
(* not.  The clients are interchangeable, so one ordered pair speaks for   *)
(* all of them.                                                            *)
(***************************************************************************)
EXTENDS RelayMedia

CONSTANTS Early, Late

ASSUME PairAssumption == {Early, Late} \subseteq Peer /\ Early # Late

LateSpec == Spec /\ Fairness(Late, Early)

(* Once one of two clients of a room was answered, so is the other unless  *)
(* they part: its probing registers it where the first one's pings find it *)
(* (lib.rs:1600-1644), even when the hub still held its old address.       *)
LockSpreads ==
    Together(Early, Late) /\ locked[Early] ~> locked[Late] \/ ~Together(Early, Late)
===============================================================================
