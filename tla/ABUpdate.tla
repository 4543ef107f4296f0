------------------------------ MODULE ABUpdate ------------------------------
(***************************************************************************)
(* What a device with a fixed slot A and an updatable slot B promises,     *)
(* without pages, records, packages or return codes: which image slot B    *)
(* can be started with, which slot is chosen, and how an unconfirmed image *)
(* spends the starts it is granted.                                        *)
(***************************************************************************)
EXTENDS Naturals

CONSTANTS
    Installable,   \* images slot B may be given
    Startable,     \* images that can be jumped to
    NoImage,       \* slot B holds nothing that would pass verification
    MaxTrials      \* starts granted to an unconfirmed image

VARIABLES
    slot,      \* the verified image in slot B, or NoImage
    choice,    \* [slot, trial, spent]: what the next start takes
    ticket,    \* a start of a trial image has been paid for
    running    \* "A", "B" or "none"

vars == <<slot, choice, ticket, running>>

ChooseA == [slot |-> "A", trial |-> FALSE, spent |-> 0]
Trial(n) == [slot |-> "B", trial |-> TRUE, spent |-> n]
ChooseB == [slot |-> "B", trial |-> FALSE, spent |-> 0]

Init == slot = NoImage /\ choice = ChooseA /\ ticket = FALSE /\ running = "none"

(* A transfer destroys slot B, or completes an image in it.                *)
Invalidate == running = "none" /\ slot' = NoImage /\ UNCHANGED <<choice, ticket, running>>
Complete ==
    /\ running = "none" /\ slot = NoImage /\ ~ticket
    /\ slot' \in Installable
    /\ UNCHANGED <<choice, ticket, running>>

(* Only an image that is completely there is put on trial.                 *)
Commit ==
    /\ running = "none" /\ slot # NoImage
    /\ choice' = Trial(0)
    /\ UNCHANGED <<slot, ticket, running>>

(* A start of a trial image is paid for before it happens.                 *)
Pay ==
    /\ running = "none" /\ choice.trial /\ choice.spent < MaxTrials
    /\ choice' = Trial(choice.spent + 1) /\ ticket' = TRUE
    /\ UNCHANGED <<slot, running>>

StartB ==
    /\ running = "none" /\ choice.slot = "B"
    /\ choice.trial => ticket
    /\ slot \in Installable \cap Startable
    /\ running' = "B" /\ ticket' = FALSE
    /\ UNCHANGED <<slot, choice>>

StartA ==
    /\ running = "none" /\ choice = ChooseA
    /\ running' = "A"
    /\ UNCHANGED <<slot, choice, ticket>>

Confirm ==
    /\ running = "B" /\ choice.trial
    /\ choice' = ChooseB
    /\ UNCHANGED <<slot, ticket, running>>

(* Rollback, rejection, or a record lost in a power failure.               *)
GiveUpB == choice' = ChooseA /\ ticket' = FALSE /\ UNCHANGED <<slot, running>>

Restart ==
    /\ running' = "none" /\ ticket' = FALSE
    /\ choice' \in {choice, ChooseA}
    /\ UNCHANGED slot

Next == \/ Invalidate \/ Complete \/ Commit \/ Pay
        \/ StartB \/ StartA \/ Confirm \/ GiveUpB \/ Restart

Spec == Init /\ [][Next]_vars
=============================================================================
