---------------------------- MODULE MCRoomSession ----------------------------
(***************************************************************************)
(* Every kind of flow against every other, without having them all at the  *)
(* same time: at most MaxFlows flows are ever started, and at most         *)
(* MaxRooms of them are room flows.                                        *)
(***************************************************************************)
EXTENDS RoomSession

CONSTANTS MaxFlows, MaxRooms

Started(F) == Cardinality({f \in F : pc'[f] # "unused"})

FewFlows == Started(Flow) <= MaxFlows /\ Started(Vps) <= MaxRooms

(* All flows together, except that a bad blob is never refused over a      *)
(* session of another flow.                                                *)
AloneSpec == Init /\ [][Next /\ RefusesAlone]_vars
==============================================================================
