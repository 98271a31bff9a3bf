------------------------------- MODULE Agent -------------------------------
(***************************************************************************)
(* The life of a puls-agent process: Run, ensureRegistered and register    *)
(* (cmd/puls-agent/agent.go), the state file (cmd/puls-agent/state.go) and *)
(* the server's handleRegister (internal/server/routes_device.go).         *)
(*                                                                         *)
(* A registration is a number: the device id and the token the server      *)
(* issued with it.  The state file holds a registration, nothing, or bytes *)
(* that loadState cannot use.                                              *)
(***************************************************************************)
EXTENDS Integers

CONSTANTS
    MaxBackoff,     \* maxBackoff, in units of the initial delay
    MaxDevices,     \* bound: registrations the server grants
    MaxRevoked      \* bound: times the server stops accepting issued tokens

ASSUME AgentAssumption ==
    /\ MaxBackoff \in Nat \ {0}
    /\ MaxDevices \in Nat /\ MaxRevoked \in Nat

Absent  == 0    \* no state file, or one with an empty field
Garbage == -1   \* a file that cannot be read or parsed

VARIABLES
    pc,         \* where Run is
    secret,     \* the process was given a registration secret
    first,      \* Run has not returned from its first ensureRegistered
    st,         \* Run's local: the registration in use
    backoff,    \* Run's local: the next delay
    file,       \* the state file
    devices,    \* the number of rows the server has created
    revoked,    \* registrations up to this number have a token it rejects
    rotations,  \* the number of times that happened
    dials,      \* history: dials since the last delay
    excused     \* history: registrations that were to be lost or replaced

agentVars  == <<pc, secret, first, st, backoff, file>>
serverVars == <<devices, revoked, rotations>>
vars == <<agentVars, serverVars, dials, excused>>

\* No process: not started or stopped, or Run returned an error.
Down   == {"off", "failed"}
Stages == Down \cup {"load", "register", "save", "dial", "serving", "clear", "delay"}

Usable(f) == f > 0

TypeOK ==
    /\ pc \in Stages
    /\ first \in BOOLEAN /\ secret \in BOOLEAN
    /\ st \in 0..devices
    /\ backoff \in 1..MaxBackoff
    /\ file \in Garbage..devices
    /\ devices \in 0..MaxDevices
    /\ revoked \in 0..devices
    /\ rotations \in 0..MaxRevoked
    /\ dials \in Nat
    /\ excused \in Nat

Init ==
    /\ pc = "off"
    /\ secret = TRUE
    /\ first = TRUE
    /\ st = 0
    /\ backoff = 1
    /\ file \in {Absent, Garbage}
    /\ devices = 0
    /\ revoked = 0
    /\ rotations = 0
    /\ dials = 0
    /\ excused = 0

----------------------------------------------------------------------------
(* Slips a change to the code could make; substituted for the definition   *)
(* named beside it, each breaks one of the properties below.               *)

Uncapped(b)    == 2 * b                      \* Doubled
StraightToDial == "dial"                     \* AfterReregistration
Emptied(s)     == Absent                     \* Written
Shadowed(s)    == IF first THEN s ELSE st    \* Assigned

----------------------------------------------------------------------------
(* Starting, and the two calls of ensureRegistered.                        *)

Start ==
    /\ pc \in Down
    /\ pc' = "load"
    /\ secret' \in BOOLEAN
    /\ first' = TRUE
    /\ st' = 0
    /\ backoff' = 1
    /\ dials' = 0
    /\ UNCHANGED <<file, serverVars, excused>>

\* After a registration inside the loop Run waits, whatever it obtained.
AfterReregistration == "delay"

\* What Run's st becomes.
Assigned(s) == s

Obtained(s) ==
    /\ st' = Assigned(s)
    /\ first' = FALSE
    /\ pc' = IF first THEN "dial" ELSE AfterReregistration

ReturnsError ==
    /\ pc' = "failed"
    /\ UNCHANGED <<first, st>>

\* loadState: an error is logged and treated like a missing file.
LoadState ==
    /\ pc = "load"
    /\ \/ Usable(file) /\ Obtained(file)
       \/ ~Usable(file) /\ ~secret /\ ReturnsError
       \/ /\ ~Usable(file) /\ secret
          /\ pc' = "register"
          /\ UNCHANGED <<first, st>>
    /\ UNCHANGED <<secret, backoff, file, serverVars, dials, excused>>

\* handleRegister creates the row and then issues the token.
Registered ==
    /\ pc = "register"
    /\ devices < MaxDevices
    /\ devices' = devices + 1
    /\ pc' = "save"
    /\ UNCHANGED <<secret, first, st, backoff, file, revoked, rotations,
                   dials, excused>>

\* Any failure ends Run, the first time and from the loop.  The row may have
\* been created all the same (no token issued, answer lost).
RegisterFails ==
    /\ pc = "register"
    /\ \/ UNCHANGED <<devices, excused>>
       \/ /\ devices < MaxDevices
          /\ devices' = devices + 1
          /\ excused' = excused + 1
    /\ ReturnsError
    /\ UNCHANGED <<secret, backoff, file, revoked, rotations, dials>>

\* What WriteFile puts into the file.
Written(s) == s

\* saveState, of the registration just granted.  An error is only logged, and
\* WriteFile may have truncated the file by then.
SaveState ==
    /\ pc = "save"
    /\ \/ /\ file' = Written(devices)
          /\ excused' = excused
       \/ /\ file' \in {file, Garbage}
          /\ excused' = excused + 1
    /\ Obtained(devices)
    /\ UNCHANGED <<secret, backoff, serverVars, dials>>

----------------------------------------------------------------------------
(* The loop of Run.                                                        *)

Accepted == st > revoked

Dialled(stage) ==
    /\ pc = "dial"
    /\ pc' = stage
    /\ dials' = dials + 1
    /\ UNCHANGED <<secret, first, st, backoff, file, serverVars, excused>>

DialSucceeds == Accepted /\ Dialled("serving")

\* The server answers 401.
DialRejected == ~Accepted /\ Dialled("clear")

\* Anything else: unreachable, rate limited, shutting down.
DialFails == Dialled("delay")

\* connectAndServe returns.  It lasted longer than backoffResetAfter, or not.
ConnectionLost ==
    /\ pc = "serving"
    /\ pc' = "delay"
    /\ backoff' \in {1, backoff}
    /\ UNCHANGED <<secret, first, st, file, serverVars, dials, excused>>

Cleared == Absent

\* clearState; an error is only logged, and ensureRegistered then finds the
\* rejected registration in the file again.
ClearState ==
    /\ pc = "clear"
    /\ \/ /\ file' = Cleared
          /\ excused' = IF Usable(file) /\ file' # file THEN excused + 1 ELSE excused
       \/ UNCHANGED <<file, excused>>
    /\ pc' = "load"
    /\ UNCHANGED <<secret, first, st, backoff, serverVars, dials>>

Doubled(b) == IF 2 * b > MaxBackoff THEN MaxBackoff ELSE 2 * b

Delay ==
    /\ pc = "delay"
    /\ backoff' = IF backoff < MaxBackoff THEN Doubled(backoff) ELSE backoff
    /\ pc' = "dial"
    /\ dials' = 0
    /\ UNCHANGED <<secret, first, st, file, serverVars, excused>>

----------------------------------------------------------------------------
(* Around the agent.                                                       *)

\* The context is canceled, or the process killed, at any point.  A process
\* that ends between the registration and the end of the save loses it.
Stop ==
    /\ pc \notin Down
    /\ pc' = "off"
    /\ \/ /\ pc = "save"
          /\ file' \in {file, Garbage}
          /\ excused' = excused + 1
       \/ /\ pc # "save"
          /\ UNCHANGED <<file, excused>>
    /\ UNCHANGED <<secret, first, st, backoff, serverVars, dials>>

\* The tokens issued so far expire, or the server gets another signing key.
Revoke ==
    /\ rotations < MaxRevoked
    /\ revoked < devices
    /\ revoked' = devices
    /\ rotations' = rotations + 1
    /\ UNCHANGED <<agentVars, devices, dials, excused>>

----------------------------------------------------------------------------
\* The steps of Run that neither begin nor end a connection.
Loop ==
    \/ LoadState \/ Registered \/ RegisterFails \/ SaveState \/ ClearState
    \/ Delay \/ DialRejected \/ DialFails

Next ==
    \/ Start \/ Loop \/ DialSucceeds \/ ConnectionLost \/ Stop \/ Revoke

Spec == Init /\ [][Next]_vars

----------------------------------------------------------------------------
(* Properties.                                                             *)

(***************************************************************************)
(* Run's loop never dials twice without a delay in between, not even when  *)
(* every token it obtains is rejected at once.                             *)
(***************************************************************************)
NoHammering == dials <= 1

(***************************************************************************)
(* A restart reconnects as the same device: once Run has a registration, a *)
(* state file that can be loaded holds that one, after re-registrations,   *)
(* failed saves and failed removals too.                                   *)
(***************************************************************************)
SameIdentity ==
    pc \in {"dial", "serving", "delay"} /\ Usable(file) => file = st

(***************************************************************************)
(* The agent does not litter the device list: every row beyond the first   *)
(* is owed to a rejected token, a state file that could not be written, or *)
(* a registration cut off before it was saved.                             *)
(***************************************************************************)
NoNeedlessDevice == devices <= excused + 1

(***************************************************************************)
(* agent.go, of Run: it "connects and stays connected until ctx is         *)
(* canceled, reconnecting with backoff on drops".  Once it has its         *)
(* registration, Run gives up only because it was stopped.  The code does  *)
(* not keep this: a re-registration that is refused ends Run.              *)
(***************************************************************************)
StaysUntilCanceled == pc = "failed" => first
=============================================================================
