------------------------------- MODULE MCHub -------------------------------
(***************************************************************************)
(* model-checking instance of Server: all connections belong to one device,   *)
(* so that reconnections race, and are interchangeable.                    *)
(***************************************************************************)
EXTENDS Server, TLC

OneDevice == [c \in Conns |-> CHOOSE d \in Devices : TRUE]

ConnSymmetry == Permutations(Conns)
============================================================================
