--------------------------- MODULE UpdateTransfer ---------------------------
(***************************************************************************)
(* What a transport promises its user, whichever wire it uses: the tool    *)
(* reports success only when the device has installed the file during that *)
(* very run of the tool, and the device installs nothing that no run of    *)
(* the tool has sent to its end.  It may always fail, and it may fail      *)
(* although the device has installed the file.                             *)
(***************************************************************************)
CONSTANTS Files, Good, NoFile

VARIABLES
    sender,     \* the tool: idle, active, ok, failed
    file,       \* the file of its last run
    ended,      \* files that a run has sent to the end
    installed,  \* files the device has installed
    landed      \* the file installed since the run began

vars == <<sender, file, ended, installed, landed>>

Init ==
    /\ sender = "idle" /\ file = NoFile
    /\ ended = {} /\ installed = {} /\ landed = NoFile

Start ==
    /\ sender # "active" /\ sender' = "active"
    /\ file' \in Files /\ landed' = NoFile
    /\ UNCHANGED <<ended, installed>>

SendEnd ==
    /\ sender = "active" /\ ended' = ended \cup {file}
    /\ UNCHANGED <<sender, file, installed, landed>>

Install(f) ==
    /\ f \in ended
    /\ installed' = installed \cup {f} /\ landed' = f
    /\ UNCHANGED <<sender, file, ended>>

Succeed ==
    /\ sender = "active" /\ landed = file /\ sender' = "ok"
    /\ UNCHANGED <<file, ended, installed, landed>>

Fail ==
    /\ sender = "active" /\ sender' \in {"failed", "idle"}
    /\ UNCHANGED <<file, ended, installed, landed>>

Next == Start \/ SendEnd \/ Succeed \/ Fail \/ \E f \in Good : Install(f)

Spec == Init /\ [][Next]_vars
=============================================================================
