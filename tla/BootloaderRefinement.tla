------------------------ MODULE BootloaderRefinement ------------------------
(***************************************************************************)
(* Bootloader implements ABUpdate as long as no flash operation reports an *)
(* error (MaxFaults = 0); power may fail at any time.                      *)
(***************************************************************************)
EXTENDS Bootloader

(* A save takes effect when the old record is gone: from then on the new   *)
(* record is written or, if power fails first, none is.                    *)
Effective == IF pc = "saveWrite" THEN work ELSE Loaded

Choice(m) == [slot |-> m.active, trial |-> m.pending, spent |-> m.count]

(* Between the save of an increased count and the jump it pays for.        *)
Ticket ==
    /\ OnTrial(Effective)
    /\ \/ pc = "saveWrite" /\ then = "select"
       \/ pc \in {"select", "verifyB"}
       \/ pc = "saveErase" /\ then = "verifyA"

VerifiedImage == IF SecureBootB THEN image ELSE Erased

AB == INSTANCE ABUpdate WITH
        Installable <- Published \ TooSmall,
        Startable   <- Bootable,
        NoImage     <- Erased,
        MaxTrials   <- OTA_MAX_BOOT_COUNT,
        slot        <- VerifiedImage,
        choice      <- Choice(Effective),
        ticket      <- Ticket

(* Erases, writes, saves, restarts and returns of the code are steps of    *)
(* the abstract update or leave it alone.                                  *)
ImplementsABUpdate == AB!Init /\ [][AB!Next]_AB!vars

-----------------------------------------------------------------------------
(* What holds between RAM and flash when no flash operation fails: the     *)
(* invariant the refinement rests on.                                      *)
Loading == pc = "load" \/ InSave({"window"})

FaultFreeInv ==
    /\ metaOk \/ Loading \/ pc = "saveWrite"
    /\ pc \in RxPhase \cup (Install \ {"ackEnd"}) \cup (Booting \ {"load"}) =>
         metaOk /\ meta = stored
    /\ InSave({"window", "verifyA"}) => work = meta /\ work.active = "A"
    /\ pc = "saveErase" /\ then = "select" => OnTrial(stored) /\ work = ApplyRollback(stored)
    /\ InSave({"select"}) => work.active = "A" \/ OnTrial(work)
    /\ ~InSave({"prepare"})
    /\ InSave({"app"}) => running = "B" /\ work.active = "B" /\ ~work.pending
    /\ pc = "saveErase" /\ then = "app" => OnTrial(stored)
    /\ pc = "verifyA" \/ running = "A" => metaOk /\ stored.active = "A"
    /\ pc = "verifyB" => meta.active = "B"
=============================================================================
