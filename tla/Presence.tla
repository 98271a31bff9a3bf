------------------------------ MODULE Presence ------------------------------
(***************************************************************************)
(* What the hub promises the rest of the server about a device's presence, *)
(* without goroutines, stages or locks.  A device has at most one session. *)
(* A connection becomes its device's session at most once: it may be       *)
(* replaced by a newer connection at any time, but is dropped, leaving the *)
(* device absent, only after it has hung up.  A restart hangs up on every  *)
(* connection so far.                                                      *)
(***************************************************************************)
EXTENDS FiniteSets

CONSTANTS Devices, Conns, DeviceID, None

VARIABLES
    session,    \* the connection that speaks for each device, or None
    used,       \* connections that had their chance to become a session
    gone        \* connections that hung up

presenceVars == <<session, used, gone>>

Init ==
    /\ session = [d \in Devices |-> None]
    /\ used = {}
    /\ gone = {}

Join(c) ==
    /\ c \notin used
    /\ used' = used \cup {c}
    /\ session' = [session EXCEPT ![DeviceID[c]] = c]
    /\ UNCHANGED gone

Refuse(c) ==
    /\ used' = used \cup {c}
    /\ UNCHANGED <<session, gone>>

HangUp(c) ==
    /\ gone' = gone \cup {c}
    /\ UNCHANGED <<session, used>>

Leave(c) ==
    /\ session[DeviceID[c]] = c
    /\ c \in gone
    /\ session' = [session EXCEPT ![DeviceID[c]] = None]
    /\ UNCHANGED <<used, gone>>

Restart ==
    /\ session' = [d \in Devices |-> None]
    /\ used' \in SUBSET Conns /\ used \subseteq used'
    /\ gone' = gone \cup used'

Next ==
    \/ \E c \in Conns : Join(c) \/ Refuse(c) \/ HangUp(c) \/ Leave(c)
    \/ Restart

Spec == Init /\ [][Next]_presenceVars
=============================================================================
