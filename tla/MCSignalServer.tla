--------------------------- MODULE MCSignalServer ---------------------------
(* SignalServer for TLC: clients, connections and codes are interchangeable. *)
EXTENDS SignalServer, TLC

Symmetry == Permutations(Client) \cup Permutations(Conn) \cup Permutations(Code)
=============================================================================
