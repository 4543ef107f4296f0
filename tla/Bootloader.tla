----------------------------- MODULE Bootloader -----------------------------
(***************************************************************************)
(* The device: main(), the phases of ota_receive_update_can(), the secure  *)
(* boot check, the choice of a slot and the jump, over a flash in which    *)
(* every erase and every program is a step of its own.  Power may fail     *)
(* between any two steps, and a flash operation may report an error.       *)
(*                                                                         *)
(* The frames of a transfer are those of module CanOta; here a transfer is *)
(* the package it carries and the phases the receiver goes through, each   *)
(* of which may instead end in an error status (Abort).                    *)
(***************************************************************************)
EXTENDS OtaMetadata

CONSTANTS
    Published,   \* images for which a publisher signature exists
    TooSmall,    \* images of fewer than 8 bytes: secure boot refuses them
    Bootable,    \* images whose stack pointer and reset handler are in range
    Packages,    \* the packages a sender may transfer
    NoPackage,
    ConfirmChecksSlot,  \* the confirm call first compares active_slot
    MaxFaults,   \* bound on flash operations that report an error
    MaxCrashes   \* bound on power failures

(* What the receiver's checks can tell about a package.  fw is the image   *)
(* the header describes, plain what the ciphertext decrypts to (Partial    *)
(* for bytes that are no known image).                                     *)
Package == [sizeOk : BOOLEAN, hdrOk : BOOLEAN, keyOk : BOOLEAN, fw : Image,
            sig : BOOLEAN, tagOk : BOOLEAN, plain : Image \cup {Partial}]

ASSUME ImageAssumption ==
    Published \subseteq Image /\ TooSmall \subseteq Image /\ Bootable \subseteq Image
ASSUME PackageAssumption == Packages \subseteq Package /\ NoPackage \notin Package
ASSUME SwitchAssumption == ConfirmChecksSlot \in BOOLEAN
ASSUME BoundAssumption == MaxFaults \in Nat /\ MaxCrashes \in Nat

VARIABLES
    pc,        \* where the processor is
    appA,      \* flash: slot A holds an authenticated, startable image
    image,     \* flash: image area of slot B
    manifest,  \* flash: manifest page of slot B, [fw, sig]
    metaOk,    \* flash: magic and CRC of the metadata record match
    stored,    \* flash: the record, meaningful when metaOk
    meta,      \* RAM: the record main() loaded before any transfer
    work,      \* RAM: the record handed to ota_metadata_save
    then,      \* where ota_metadata_save returns to
    pkg,       \* the package being received
    inLoop,    \* main() has reached its final while (1)
    running,   \* the slot whose application runs, or "none"
    faults,    \* history: flash errors so far
    crashes,   \* history: power failures so far
    starts,    \* history: unconfirmed starts of B since the last commit
    blessed    \* history: the image in B has confirmed itself

slotB   == <<image, manifest>>
record  == <<metaOk, stored>>
flash   == <<appA, slotB, record>>
ram     == <<meta, work, then, pkg, inLoop>>
history == <<starts, blessed>>
budget  == <<faults, crashes>>
vars == <<pc, flash, ram, running, budget, history>>

RxPhase  == {"rxSize", "rxHeader", "rxSignature", "rxPayload", "rxEnd"}
Install  == {"eraseImage", "eraseManifest", "tag", "hash", "manifestHeader",
             "manifestSignature", "verifyInstall", "commitLoad", "prepare", "ackEnd"}
Booting  == {"load", "window", "rollback", "select", "verifyB", "verifyA", "wait"}
Saving   == {"saveErase", "saveWrite"}
Return   == {"window", "select", "verifyA", "prepare", "ackEnd", "app"}
Location == RxPhase \cup Install \cup Booting \cup Saving \cup {"app"}

(* The manifest page: the image its header names, and whether the stored   *)
(* signature verifies for that header.                                     *)
Manifest == [fw : Image \cup {Erased, Partial}, sig : BOOLEAN]

NoManifest == [fw |-> Erased, sig |-> FALSE]

(* ota_metadata_save is under way and will return to one of the labels.    *)
InSave(labels) == pc \in Saving /\ then \in labels

Transferring == pc \in RxPhase \cup Install \/ InSave({"prepare", "ackEnd"})

FlagsOK == appA \in BOOLEAN /\ metaOk \in BOOLEAN /\ inLoop \in BOOLEAN /\ blessed \in BOOLEAN

TypeOK ==
    /\ FlagsOK
    /\ pc \in Location
    /\ image \in Image \cup {Erased, Partial}
    /\ manifest \in Manifest
    /\ stored \in Meta /\ meta \in Meta /\ work \in Meta
    /\ then \in Return
    /\ pkg \in Packages \cup {NoPackage}
    /\ Transferring => pkg \in Packages
    /\ running \in Slot \cup {"none"}
    /\ faults \in 0..MaxFaults /\ crashes \in 0..MaxCrashes
    /\ starts \in Nat

(* A device as it leaves the factory: slot B and the metadata are blank;   *)
(* slot A is provisioned or not, and nothing here ever writes it.          *)
Init ==
    /\ pc = "load"
    /\ appA \in BOOLEAN
    /\ image = Erased /\ manifest = NoManifest
    /\ metaOk = FALSE /\ stored = DefaultMeta
    /\ meta = DefaultMeta /\ work = DefaultMeta /\ then = "window"
    /\ pkg = NoPackage /\ inLoop = FALSE /\ running = "none"
    /\ faults = 0 /\ crashes = 0 /\ starts = 0 /\ blessed = FALSE

-----------------------------------------------------------------------------
(* Checks.                                                                 *)

(* A header and a signature verify together when the publisher signed that *)
(* header: the key signs published images only.                            *)
SignatureVerifies(p) == p.sig /\ p.fw \in Published

(* What a package has shown when slot B is erased for it.                  *)
Accepted(p) == p.sizeOk /\ p.hdrOk /\ p.keyOk /\ SignatureVerifies(p)

(* Mutant: secure boot without the publisher signature.                    *)
SecureBootUnsigned == manifest.fw \in Image \ TooSmall /\ image = manifest.fw

(* secure_boot_verify_app on slot B: a complete manifest that names a      *)
(* large enough image, is signed, and matches what is in the image area.   *)
SecureBootB ==
    /\ manifest.fw \in Image \ TooSmall
    /\ manifest.sig
    /\ image = manifest.fw

IsValidAppB == image \in Bootable

-----------------------------------------------------------------------------
(* ota_metadata_load_or_init and ota_metadata_save.                        *)

Loaded == IF metaOk THEN stored ELSE DefaultMeta

SaveThen(rec, label) ==
    /\ work' = rec /\ then' = label /\ pc' = "saveErase"

(* Out of ota_receive_update_can with 0: back to main(), at the boot        *)
(* attempt or in the final loop.                                           *)
LeaveReceive ==
    /\ pc' = IF inLoop THEN "wait" ELSE "rollback"
    /\ pkg' = NoPackage

FlashError == faults < MaxFaults /\ faults' = faults + 1 /\ UNCHANGED crashes

(* Mutant: nobody looks at it.                                             *)
SaveFailureIgnored == FlashError /\ pc' = then /\ UNCHANGED pkg

(* Only the commit looks at the result of ota_metadata_save (error 11).    *)
SaveFailed ==
    /\ FlashError
    /\ IF then = "ackEnd" THEN LeaveReceive ELSE pc' = then /\ UNCHANGED pkg

SaveErase ==
    /\ pc = "saveErase"
    /\ \/ /\ metaOk' = FALSE /\ stored' = DefaultMeta /\ pc' = "saveWrite"
          /\ UNCHANGED <<pkg, budget>>
       \/ SaveFailed /\ UNCHANGED record
       \/ SaveFailed /\ metaOk' = FALSE /\ stored' = DefaultMeta
    /\ UNCHANGED <<appA, slotB, meta, work, then, inLoop, running, history>>

SaveWrite ==
    /\ pc = "saveWrite"
    /\ \/ /\ metaOk' = TRUE /\ stored' = work /\ pc' = then
          /\ starts' = IF then = "ackEnd" THEN 0 ELSE starts
          /\ blessed' = (blessed \/ (then = "app" /\ running = "B" /\ work.active = "B"))
          /\ UNCHANGED <<pkg, budget>>
       \/ SaveFailed /\ UNCHANGED <<record, history>>
    /\ UNCHANGED <<appA, slotB, meta, work, then, inLoop, running>>

-----------------------------------------------------------------------------
(* ota_receive_update_can, phase by phase.                                 *)

(* A START frame accepted by ota_can_should_enter_update_mode, in the boot *)
(* window or in the final loop.                                            *)
EnterUpdate ==
    /\ pc \in {"window", "wait"}
    /\ \E p \in Packages : pkg' = p
    /\ pc' = "rxSize"
    /\ UNCHANGED <<flash, meta, work, then, inLoop, running, budget, history>>

(* A phase ends by a check: on to the next phase, or out with an error.    *)
Check(phase, ok, next) ==
    /\ pc = phase
    /\ IF ok THEN pc' = next /\ UNCHANGED pkg ELSE LeaveReceive
    /\ UNCHANGED <<flash, meta, work, then, inLoop, running, budget, history>>

(* Mutants: the header CRC is not checked; slot B is erased right after    *)
(* the header; the installed image is not verified.                        *)
KeyOnly            == pkg.keyOk
EraseAfterHeader   == Check("rxHeader", pkg.hdrOk /\ pkg.keyOk, "eraseImage")
InstalledUnverified == Check("verifyInstall", TRUE, "commitLoad")

HeaderValid     == pkg.hdrOk /\ pkg.keyOk
CheckSize       == Check("rxSize", pkg.sizeOk, "rxHeader")
HeaderReceived  == Check("rxHeader", HeaderValid, "rxSignature")
SignatureReceived == Check("rxSignature", SignatureVerifies(pkg), "eraseImage")
CheckTag        == Check("tag", pkg.tagOk, "hash")
CheckHash       == Check("hash", pkg.plain = pkg.fw, "manifestHeader")
VerifyInstalled == Check("verifyInstall", SecureBootB, "commitLoad")

(* Timeout, malformed frame, wrong command, sequence number or length      *)
(* (errors 6 and 9).                                                       *)
Abort ==
    /\ pc \in RxPhase \ {"rxSize"}
    /\ LeaveReceive
    /\ UNCHANGED <<flash, meta, work, then, inLoop, running, budget, history>>

(* A flash operation on slot B: it succeeds and control goes on, or it     *)
(* reports an error, having done nothing or part of its work.              *)
SlotWrite(phase, ok, torn, next) ==
    /\ pc = phase
    /\ \/ ok /\ pc' = next /\ UNCHANGED <<pkg, budget>>
       \/ FlashError /\ LeaveReceive /\ (UNCHANGED <<slotB, blessed>> \/ torn)
    /\ UNCHANGED <<appA, record, meta, work, then, inLoop, running, starts>>

SetImage(c) == image' = c /\ UNCHANGED <<manifest, blessed>>
SetManifest(m) == manifest' = m /\ UNCHANGED <<image, blessed>>

(* flash_if_erase_app_b erases pages upwards: the image area first, the    *)
(* manifest page last.                                                     *)
EraseImage ==
    LET gone == image' = Partial /\ blessed' = FALSE /\ UNCHANGED manifest
    IN  SlotWrite("eraseImage", gone, gone, "eraseManifest")

EraseManifest ==
    SlotWrite("eraseManifest",
              image' = Erased /\ manifest' = NoManifest /\ UNCHANGED blessed,
              SetImage(Erased), "rxPayload")

(* A full 256-byte buffer of plaintext goes to the flash.                  *)
WriteBlock == SlotWrite("rxPayload", SetImage(Partial), SetImage(Partial), "rxPayload")

(* The last DATA frame: it may or may not fill the buffer exactly.         *)
PayloadReceived ==
    SlotWrite("rxPayload", SetImage(image) \/ SetImage(pkg.plain), SetImage(Partial), "rxEnd")

(* END: what is left in the buffer, if anything, is written with padding.  *)
EndReceived ==
    \/ /\ pc = "rxEnd" /\ image # pkg.plain
       /\ SlotWrite("rxEnd", SetImage(pkg.plain), SetImage(Partial), "tag")
    \/ /\ pc = "rxEnd" /\ image = pkg.plain
       /\ Check("rxEnd", TRUE, "tag")

WriteManifestHeader ==
    SlotWrite("manifestHeader", SetManifest([fw |-> pkg.fw, sig |-> FALSE]),
              SetManifest([fw |-> Partial, sig |-> FALSE]), "manifestSignature")

WriteManifestSignature ==
    SlotWrite("manifestSignature", SetManifest([manifest EXCEPT !.sig = SignatureVerifies(pkg)]),
              FALSE, "verifyInstall")

(* The receiver loads a record of its own, which may write the default     *)
(* record first, and then saves the prepared one.                          *)
CommitLoad ==
    /\ pc = "commitLoad"
    /\ IF metaOk THEN work' = stored /\ pc' = "prepare" /\ UNCHANGED then
                 ELSE SaveThen(DefaultMeta, "prepare")
    /\ UNCHANGED <<flash, meta, pkg, inLoop, running, budget, history>>

Prepare ==
    /\ pc = "prepare"
    /\ SaveThen(PrepareAppB(pkg.fw), "ackEnd")
    /\ UNCHANGED <<flash, meta, pkg, inLoop, running, budget, history>>

-----------------------------------------------------------------------------
(* main() and ota_boot_selected_app.                                       *)

Reboot ==
    /\ pc' = "load"
    /\ meta' = DefaultMeta /\ work' = DefaultMeta /\ then' = "window"
    /\ pkg' = NoPackage /\ inLoop' = FALSE /\ running' = "none"
    /\ UNCHANGED <<flash, history>>

Load ==
    /\ pc = "load"
    /\ meta' = Loaded
    /\ IF metaOk THEN pc' = "window" /\ UNCHANGED <<work, then>>
                 ELSE SaveThen(DefaultMeta, "window")
    /\ UNCHANGED <<flash, pkg, inLoop, running, budget, history>>

(* No frame within the entry time, or a frame that is no START.            *)
WindowCloses == Check("window", TRUE, "rollback")

(* Mutant: the count is not saved before the jump.                         *)
RollbackUnsaved ==
    /\ pc = "rollback" /\ pc' = "select"
    /\ meta' = IF OnTrial(meta) THEN ApplyRollback(meta) ELSE meta
    /\ UNCHANGED <<flash, work, then, pkg, inLoop, running, budget, history>>

Rollback ==
    /\ pc = "rollback"
    /\ IF OnTrial(meta)
         THEN meta' = ApplyRollback(meta) /\ SaveThen(meta', "select")
         ELSE pc' = "select" /\ UNCHANGED <<meta, work, then>>
    /\ UNCHANGED <<flash, pkg, inLoop, running, budget, history>>

Select == Check("select", TRUE, IF SelectedApp(meta) = "B" THEN "verifyB" ELSE "verifyA")

(* Slot B is started, or rejected in favour of slot A.                     *)
StartB ==
    /\ pc = "verifyB" /\ SecureBootB /\ IsValidAppB
    /\ running' = "B" /\ pc' = "app"
    /\ starts' = IF meta.pending THEN starts + 1 ELSE starts
    /\ UNCHANGED <<flash, ram, budget, blessed>>

(* Mutant: slot B fails verification and stays selected.                   *)
RejectForgotten == ~(SecureBootB /\ IsValidAppB) /\ Check("verifyB", TRUE, "select")

(* Mutant: slot B fails verification and its rejection is not saved.       *)
RejectUnsaved ==
    /\ pc = "verifyB" /\ ~(SecureBootB /\ IsValidAppB)
    /\ meta' = RejectAppB(meta) /\ pc' = "verifyA"
    /\ UNCHANGED <<flash, work, then, pkg, inLoop, running, budget, history>>

RejectB ==
    /\ pc = "verifyB" /\ ~(SecureBootB /\ IsValidAppB)
    /\ meta' = RejectAppB(meta) /\ SaveThen(meta', "verifyA")
    /\ UNCHANGED <<flash, pkg, inLoop, running, budget, history>>

StartA ==
    /\ pc = "verifyA" /\ appA
    /\ running' = "A" /\ pc' = "app"
    /\ UNCHANGED <<flash, ram, budget, history>>

NoApp ==
    /\ pc = "verifyA" /\ ~appA
    /\ inLoop' = TRUE /\ pc' = "wait"
    /\ UNCHANGED <<flash, meta, work, then, pkg, running, budget, history>>

(* The reset that ends a committed transfer.                               *)
AckEnd == pc = "ackEnd" /\ Reboot /\ UNCHANGED budget

-----------------------------------------------------------------------------
(* The application and the world.                                          *)

MayConfirm(rec) == rec.pending /\ (ConfirmChecksSlot => rec.active = running)

(* The confirm call of a running application: ota_metadata.c's own         *)
(* (ConfirmChecksSlot = FALSE), which initialises an unreadable record, or *)
(* the application's (TRUE), which returns early instead.                  *)
AppConfirm ==
    /\ pc = "app"
    /\ \/ /\ MayConfirm(Loaded)
          /\ SaveThen(ConfirmActiveApp(Loaded), "app")
       \/ /\ ~metaOk /\ ~ConfirmChecksSlot
          /\ SaveThen(DefaultMeta, "app")
    /\ UNCHANGED <<flash, meta, pkg, inLoop, running, budget, history>>

(* Reset button, watchdog or fault of an application, or of a device that  *)
(* waits for a transfer.                                                   *)
Reset == pc \in {"app", "wait"} /\ Reboot /\ UNCHANGED budget

PowerLoss ==
    /\ crashes < MaxCrashes /\ crashes' = crashes + 1 /\ UNCHANGED faults
    /\ Reboot

Receive ==
    \/ CheckSize \/ HeaderReceived \/ SignatureReceived \/ Abort
    \/ EraseImage \/ EraseManifest
    \/ WriteBlock \/ PayloadReceived \/ EndReceived
    \/ CheckTag \/ CheckHash
    \/ WriteManifestHeader \/ WriteManifestSignature \/ VerifyInstalled
    \/ CommitLoad \/ Prepare \/ AckEnd

Boot ==
    \/ Load \/ WindowCloses \/ Rollback \/ Select
    \/ StartB \/ RejectB \/ StartA \/ NoApp

Save == SaveErase \/ SaveWrite

(* What the processor does of its own accord.                              *)
Progress == Receive \/ Boot \/ Save

Next == Progress \/ EnterUpdate \/ AppConfirm \/ Reset \/ PowerLoss

(* The processor does not stop: every wait in the code has a timeout.      *)
(* Nothing is assumed of senders, applications, faults or power.           *)
Fairness == WF_vars(Progress)

Spec == Init /\ [][Next]_vars /\ Fairness

-----------------------------------------------------------------------------
(* Safety.                                                                 *)

(* What runs from slot B is signed, complete and what its manifest says,   *)
(* however erases, writes and power failures interleaved since the image   *)
(* was installed (ota_boot_selected_app, secure_boot_verify_app).          *)
OnlyAuthenticRuns ==
    running = "B" =>
        /\ image \in Published \cap Bootable
        /\ image \notin TooSmall
        /\ manifest = [fw |-> image, sig |-> TRUE]

(* The image in slot B is given up only for a package whose header and     *)
(* signature have been accepted: no bad package costs a good image.        *)
SignatureBeforeErase ==
    [][slotB' # slotB => pkg # NoPackage /\ Accepted(pkg)]_vars

(* When the final ACK is sent, the flash holds the announced image, its    *)
(* manifest and a readable record that puts it on trial from zero.         *)
AckMeansCommitted ==
    pc = "ackEnd" =>
        /\ SecureBootB /\ manifest.fw = pkg.fw /\ pkg.tagOk
        /\ metaOk /\ OnTrial(stored) /\ stored.bValid
        /\ stored.count = 0 /\ stored.hash = pkg.fw

Consistent(m) ==
    /\ m.active = "B" <=> m.bValid
    /\ m.pending => m.active = "B"
    /\ m.count > 0 => m.pending
    /\ m.count <= OTA_MAX_BOOT_COUNT

(* Whatever sequence of transfers, trials, failed saves and restarts wrote *)
(* a record, its fields agree: a selected slot is a valid one, only slot B *)
(* is on trial, and a count never survives its trial.                      *)
RecordsConsistent == Consistent(stored) /\ Consistent(meta) /\ Consistent(work)

(* An image that never confirms is started at most OTA_MAX_BOOT_COUNT      *)
(* times, plus once for every flash error: the count is saved before the   *)
(* jump, but a save that fails is ignored.                                 *)
TrialBound == starts <= OTA_MAX_BOOT_COUNT + faults

(* A record that selects slot B without a trial is written only while the  *)
(* application in slot B runs.                                             *)
ConfirmedByItself ==
    [][(/\ metaOk' /\ stored'.active = "B" /\ ~stored'.pending
        /\ record' # record) => running = "B"]_vars

(* A new image, other than the one the record was written for, runs on     *)
(* trial until it has confirmed itself.  While the record is rewritten for *)
(* the application that runs, there is nothing to read.                    *)
UntestedRunsOnTrial ==
    running = "B" /\ ~blessed /\ image # stored.hash /\ ~InSave({"app"}) =>
        metaOk /\ stored.pending

(* app_b_valid: the image was completely written and verified.             *)
ValidFlagMeansVerified == metaOk /\ stored.bValid => SecureBootB

-----------------------------------------------------------------------------
(* The inductive invariant behind the safety properties.                   *)

(* A transfer has passed the checks behind it.                             *)
PackageInv ==
    /\ pc \in {"rxHeader", "rxSignature"} => pkg.sizeOk
    /\ pc = "rxSignature" => pkg.hdrOk /\ pkg.keyOk
    /\ pc \in Install \cup {"rxPayload", "rxEnd"} \/ InSave({"prepare", "ackEnd"}) =>
         Accepted(pkg)
    /\ pc \in {"hash", "manifestHeader", "manifestSignature", "verifyInstall"} => pkg.tagOk

(* A manifest that passes verification was signed by the publisher, and    *)
(* the old one is gone before the new image arrives.                       *)
ManifestInv ==
    /\ manifest.sig => manifest.fw \in Published
    /\ pc \in {"rxPayload", "rxEnd", "tag", "hash", "manifestHeader", "manifestSignature"} =>
         ~manifest.sig
    /\ pc \in {"manifestSignature", "verifyInstall"} => manifest.fw = pkg.fw

(* From the verification of the installed image to the final ACK.          *)
CommitInv ==
    /\ pc \in {"commitLoad", "prepare", "ackEnd"} \/ InSave({"prepare", "ackEnd"}) =>
         SecureBootB /\ manifest.fw = pkg.fw /\ pkg.tagOk
    /\ InSave({"ackEnd"}) =>
         OnTrial(work) /\ work.bValid /\ work.count = 0 /\ work.hash = pkg.fw
    /\ pc = "ackEnd" =>
         metaOk /\ OnTrial(stored) /\ stored.bValid /\ stored.count = 0 /\ stored.hash = pkg.fw

(* Applications run, and their saves return to them, and to nobody else.   *)
RunningInv ==
    /\ running # "none" <=> (pc = "app" \/ InSave({"app"}))
    /\ OnlyAuthenticRuns

SaveInv ==
    /\ pc = "saveWrite" => ~metaOk
    /\ InSave({"select"}) => work = meta
    /\ pc \in Saving /\ OnTrial(work) => then \in {"select", "ackEnd"}
    /\ pc \in Saving /\ ConfirmChecksSlot /\ work.active = "B" /\ ~work.pending =>
         running = "B"

(* From the increment of the count to the jump, one start is paid for.     *)
Paid == IF pc \in {"select", "verifyB"} \/ InSave({"select"}) THEN 1 ELSE 0

TrialInv ==
    /\ metaOk /\ OnTrial(stored) => starts <= stored.count + faults
    /\ running = "none" /\ OnTrial(meta) => starts + Paid <= meta.count + faults
    /\ pc \in {"select", "verifyB"} /\ OnTrial(meta) /\ metaOk /\ OnTrial(stored) =>
         starts + 1 <= stored.count + faults
    /\ TrialBound

IInv ==
    /\ TypeOK /\ RecordsConsistent
    /\ PackageInv /\ ManifestInv /\ CommitInv /\ RunningInv /\ SaveInv /\ TrialInv

-----------------------------------------------------------------------------
(* Liveness.                                                               *)

(* With finitely many power failures and committed transfers, however many *)
(* others senders start and break off, a device always comes back to an    *)
(* application; it waits for a transfer only when slot A is empty.         *)
AlwaysComesUp ==
    <>[](pc # "ackEnd") => []<>(pc = "app" \/ (pc = "wait" /\ ~appA))

(* On a device that is restarted again and again and receives no further   *)
(* package, a trial ends: the image is confirmed, rolled back or rejected. *)
TrialEnds ==
    ([]<>(pc = "load") /\ <>[](pkg = NoPackage)) => <>[]~(metaOk /\ stored.pending)
=============================================================================
