-------------------------- MODULE BootloaderProofs --------------------------
(***************************************************************************)
(* For every set of images and packages, every trial limit and any number  *)
(* of flash errors and power failures: the safety of Bootloader; and for   *)
(* all of them with no flash error (MaxFaults = 0): its refinement of      *)
(* ABUpdate.                                                               *)
(***************************************************************************)
EXTENDS BootloaderRefinement, TLAPS

(* The operations of ota_metadata.c yield records.                         *)
LEMMA MetaTyped ==
    /\ DefaultMeta \in Meta
    /\ \A m \in Meta : /\ RejectAppB(m) \in Meta
                       /\ ApplyRollback(m) \in Meta
                       /\ ConfirmActiveApp(m) \in Meta
    /\ \A fw \in Image : PrepareAppB(fw) \in Meta
<1>1. DefaultMeta \in Meta BY DEF Meta, Slot, DefaultMeta
<1>2. ASSUME NEW m \in Meta PROVE RejectAppB(m) \in Meta
  BY DEF Meta, Slot, RejectAppB
<1>3. ASSUME NEW m \in Meta PROVE ConfirmActiveApp(m) \in Meta
  BY DEF Meta, Slot, ConfirmActiveApp
<1>4. ASSUME NEW m \in Meta PROVE ApplyRollback(m) \in Meta
  BY <1>2 DEF Meta, Slot, ApplyRollback
<1>5. ASSUME NEW fw \in Image PROVE PrepareAppB(fw) \in Meta
  BY DEF Meta, Slot, PrepareAppB
<1>6. QED BY <1>1, <1>2, <1>3, <1>4, <1>5

(* The image a package names and the bytes it decrypts to.                 *)
LEMMA PackageTyped ==
    \A p \in Packages : p.fw \in Image /\ p.plain \in Image \cup {Partial}
  BY PackageAssumption DEF Package

(* Every value a step writes to the manifest page.                         *)
LEMMA ManifestTyped ==
    /\ NoManifest \in Manifest
    /\ \A fw \in Image \cup {Partial} : [fw |-> fw, sig |-> FALSE] \in Manifest
    /\ \A m \in Manifest, p \in Packages : [m EXCEPT !.sig = SignatureVerifies(p)] \in Manifest
<1>1. NoManifest \in Manifest BY DEF NoManifest, Manifest
<1>2. ASSUME NEW fw \in Image \cup {Partial} PROVE [fw |-> fw, sig |-> FALSE] \in Manifest
  BY DEF Manifest
<1>3. ASSUME NEW m \in Manifest, NEW p \in Packages
      PROVE  [m EXCEPT !.sig = SignatureVerifies(p)] \in Manifest
  BY DEF Manifest, SignatureVerifies
<1>4. QED BY <1>1, <1>2, <1>3

(* Each flag is assigned truth values only.                                *)
LEMMA FlagsStep == ASSUME FlagsOK, [Next]_vars PROVE FlagsOK'
<1> USE DEF FlagsOK, flash, slotB, record, ram, history, budget
<1>1. CASE CheckSize \/ HeaderReceived \/ SignatureReceived \/ Abort \/ CheckTag \/ CheckHash
           \/ VerifyInstalled \/ WindowCloses \/ Select
  BY <1>1, Zenon DEF CheckSize, HeaderReceived, SignatureReceived, Abort, CheckTag, CheckHash,
           VerifyInstalled, WindowCloses, Select, Check
<1>2. CASE EraseImage \/ EraseManifest
  BY <1>2 DEF EraseImage, EraseManifest, SlotWrite, SetImage
<1>3. CASE WriteBlock \/ PayloadReceived \/ EndReceived
  BY <1>3 DEF WriteBlock, PayloadReceived, EndReceived, SlotWrite, SetImage, Check
<1>4. CASE WriteManifestHeader \/ WriteManifestSignature
  BY <1>4 DEF WriteManifestHeader, WriteManifestSignature, SlotWrite, SetManifest
<1>5. CASE CommitLoad \/ Prepare \/ AckEnd
  BY <1>5 DEF CommitLoad, Prepare, AckEnd, Reboot
<1>6. CASE Load \/ Rollback \/ StartB \/ RejectB \/ StartA \/ NoApp
  BY <1>6 DEF Load, Rollback, StartB, RejectB, StartA, NoApp
<1>7. CASE SaveErase
  BY <1>7 DEF SaveErase
<1>8. CASE SaveWrite
  BY <1>8 DEF SaveWrite
<1>9. CASE EnterUpdate \/ AppConfirm \/ Reset \/ PowerLoss
  BY <1>9 DEF EnterUpdate, AppConfirm, Reset, PowerLoss, Reboot
<1>10. CASE UNCHANGED vars
  BY <1>10 DEF vars
<1>11. QED
  BY <1>1, <1>2, <1>3, <1>4, <1>5, <1>6, <1>7, <1>8, <1>9, <1>10
  DEF Next, Progress, Receive, Boot, Save

(* The initial states are typed.                                           *)
LEMMA TypeCorrectInit == Init => TypeOK
<1>1. Init => FlagsOK
  BY Zenon DEF Init, FlagsOK
<1>2. QED
BY <1>1, MetaTyped, ManifestTyped, BoundAssumption
DEF Init, TypeOK, Transferring, InSave, Location, RxPhase, Install, Booting, Saving, Return, Slot

(* Every step keeps the types.                                             *)
LEMMA TypeStep == ASSUME TypeOK, [Next]_vars PROVE TypeOK'
<1>0. FlagsOK' BY FlagsStep DEF TypeOK
<1> USE DEF TypeOK, Transferring, InSave, Location, RxPhase, Install, Booting, Saving, Return,
            Check, LeaveReceive, flash, slotB, record, ram, history, budget
<1>1. CASE CheckSize \/ HeaderReceived \/ SignatureReceived \/ Abort
  BY <1>0, <1>1 DEF CheckSize, HeaderReceived, SignatureReceived, Abort
<1>2. CASE CheckTag \/ CheckHash \/ VerifyInstalled
  BY <1>0, <1>2 DEF CheckTag, CheckHash, VerifyInstalled
<1>3. CASE EraseImage \/ EraseManifest
  BY <1>0, <1>3, BoundAssumption, ManifestTyped
  DEF EraseImage, EraseManifest, SlotWrite, FlashError, SetImage
<1>4. CASE WriteBlock \/ PayloadReceived \/ EndReceived
  BY <1>0, <1>4, BoundAssumption, PackageTyped, PackageAssumption
  DEF WriteBlock, PayloadReceived, EndReceived, SlotWrite, FlashError, SetImage
<1>5. CASE WriteManifestHeader \/ WriteManifestSignature
  <2>1. manifest' \in Manifest
    BY <1>5, PackageTyped, ManifestTyped
    DEF WriteManifestHeader, WriteManifestSignature, SlotWrite, SetManifest
  <2>2. QED
    BY <1>0, <1>5, <2>1, BoundAssumption
    DEF WriteManifestHeader, WriteManifestSignature, SlotWrite, FlashError, SetManifest
<1>6. CASE CommitLoad \/ Prepare \/ AckEnd
  BY <1>0, <1>6, MetaTyped, PackageTyped DEF CommitLoad, Prepare, AckEnd, SaveThen, Reboot
<1>7. CASE Load \/ WindowCloses \/ Rollback \/ Select
  BY <1>0, <1>7, MetaTyped DEF Load, Loaded, WindowCloses, Rollback, Select, SaveThen
<1>8. CASE StartB \/ RejectB \/ StartA \/ NoApp
  BY <1>0, <1>8, MetaTyped DEF StartB, RejectB, StartA, NoApp, SaveThen, Slot
<1>9. CASE SaveErase
  BY <1>0, <1>9, MetaTyped, BoundAssumption DEF SaveErase, SaveFailed, FlashError
<1>10. CASE SaveWrite
  BY <1>0, <1>10, BoundAssumption DEF SaveWrite, SaveFailed, FlashError
<1>11. CASE EnterUpdate \/ AppConfirm \/ Reset \/ PowerLoss
  BY <1>0, <1>11, MetaTyped, BoundAssumption
  DEF EnterUpdate, AppConfirm, Reset, PowerLoss, Loaded, SaveThen, Reboot
<1>12. CASE UNCHANGED vars
  BY <1>0, <1>12 DEF vars
<1>13. QED
  BY <1>1, <1>2, <1>3, <1>4, <1>5, <1>6, <1>7, <1>8, <1>9, <1>10, <1>11, <1>12
  DEF Next, Progress, Receive, Boot, Save

(* Type correctness: every variable stays in its range.                    *)
THEOREM TypeCorrect == Spec => []TypeOK
<1>1. TypeOK /\ [Next]_vars => TypeOK'
  BY TypeStep
<1>2. QED BY <1>1, TypeCorrectInit, PTL DEF Spec

-----------------------------------------------------------------------------
(* Records.                                                                *)

(* Every operation of ota_metadata.c keeps a record consistent.            *)
LEMMA MetaConsistent ==
    /\ Consistent(DefaultMeta)
    /\ \A m \in Meta : Consistent(m) =>
         /\ Consistent(RejectAppB(m))
         /\ Consistent(ConfirmActiveApp(m))
         /\ OnTrial(m) => Consistent(ApplyRollback(m))
    /\ \A fw \in Image : Consistent(PrepareAppB(fw))
<1> USE BootCountAssumption DEF Consistent
<1>1. Consistent(DefaultMeta) BY DEF DefaultMeta
<1>2. ASSUME NEW m \in Meta, Consistent(m) PROVE Consistent(RejectAppB(m))
  BY DEF Meta, RejectAppB
<1>3. ASSUME NEW m \in Meta, Consistent(m) PROVE Consistent(ConfirmActiveApp(m))
  BY <1>3 DEF Meta, Slot, ConfirmActiveApp
<1>4. ASSUME NEW m \in Meta, Consistent(m), OnTrial(m) PROVE Consistent(ApplyRollback(m))
  BY <1>2, <1>4 DEF Meta, Slot, ApplyRollback, OnTrial, RejectAppB
<1>5. ASSUME NEW fw \in Image PROVE Consistent(PrepareAppB(fw))
  BY DEF PrepareAppB
<1>6. QED BY <1>1, <1>2, <1>3, <1>4, <1>5

(* So does every step, in the flash and in both copies in RAM.             *)
LEMMA RecordsStep == ASSUME TypeOK, RecordsConsistent, [Next]_vars PROVE RecordsConsistent'
<1> USE DEF TypeOK, RecordsConsistent, flash, slotB, record, ram, history, budget, SaveThen
<1>1. CASE CheckSize \/ HeaderReceived \/ SignatureReceived \/ Abort \/ CheckTag \/ CheckHash
           \/ VerifyInstalled \/ WindowCloses \/ Select
  BY <1>1 DEF CheckSize, HeaderReceived, SignatureReceived, Abort, CheckTag, CheckHash,
           VerifyInstalled, WindowCloses, Select, Check
<1>2. CASE EraseImage \/ EraseManifest
  BY <1>2 DEF EraseImage, EraseManifest, SlotWrite
<1>3. CASE WriteBlock \/ PayloadReceived \/ EndReceived
  BY <1>3 DEF WriteBlock, PayloadReceived, EndReceived, SlotWrite, Check
<1>4. CASE WriteManifestHeader \/ WriteManifestSignature
  BY <1>4 DEF WriteManifestHeader, WriteManifestSignature, SlotWrite
<1>5. CASE CommitLoad \/ Prepare \/ AckEnd
  BY <1>5, MetaConsistent, PackageTyped
  DEF CommitLoad, Prepare, AckEnd, Reboot, Transferring, Install
<1>6. CASE Load \/ Rollback \/ RejectB
  BY <1>6, MetaTyped, MetaConsistent DEF Load, Loaded, Rollback, RejectB
<1>7. CASE StartB \/ StartA \/ NoApp
  BY <1>7 DEF StartB, StartA, NoApp
<1>8. CASE SaveErase
  BY <1>8, MetaConsistent DEF SaveErase
<1>9. CASE SaveWrite
  BY <1>9 DEF SaveWrite
<1>10. CASE EnterUpdate \/ AppConfirm \/ Reset \/ PowerLoss
  BY <1>10, MetaTyped, MetaConsistent
  DEF EnterUpdate, AppConfirm, Reset, PowerLoss, Reboot, Loaded
<1>11. CASE UNCHANGED vars
  BY <1>11 DEF vars
<1>12. QED
  BY <1>1, <1>2, <1>3, <1>4, <1>5, <1>6, <1>7, <1>8, <1>9, <1>10, <1>11
  DEF Next, Progress, Receive, Boot, Save

(* The fields of every record agree with each other, whatever sequence of  *)
(* transfers, trials, failed saves and restarts wrote it.                  *)
THEOREM RecordsAgree == Spec => []RecordsConsistent
<1>1. Init => RecordsConsistent
  BY MetaConsistent DEF Init, RecordsConsistent
<1>2. TypeOK /\ RecordsConsistent /\ [Next]_vars => RecordsConsistent'
  BY RecordsStep
<1>3. QED BY <1>1, <1>2, TypeCorrect, PTL DEF Spec

-----------------------------------------------------------------------------
(* Installation: from the checks of a package to the final ACK.            *)

(* Package, manifest and commit invariants, which need each other.         *)
LEMMA InstallStep ==
  ASSUME TypeOK, PackageInv, ManifestInv, CommitInv, [Next]_vars
  PROVE  PackageInv' /\ ManifestInv' /\ CommitInv'
<1> USE DEF TypeOK, PackageInv, ManifestInv, CommitInv, Transferring, InSave, Accepted,
            SignatureVerifies, SecureBootB,
            Location, RxPhase, Install, Booting, Saving, Return,
            flash, slotB, record, ram, history, budget
<1>1. CASE CheckSize \/ HeaderReceived \/ SignatureReceived \/ Abort
  BY <1>1
  DEF CheckSize, HeaderReceived, HeaderValid, SignatureReceived, Abort, Check, LeaveReceive
<1>2. CASE CheckTag \/ CheckHash \/ VerifyInstalled
  BY <1>2 DEF CheckTag, CheckHash, VerifyInstalled, Check, LeaveReceive
<1>3. CASE EraseImage \/ EraseManifest
  BY <1>3 DEF EraseImage, EraseManifest, SlotWrite, SetImage, LeaveReceive, NoManifest
<1>4. CASE WriteBlock \/ PayloadReceived \/ EndReceived
  BY <1>4 DEF WriteBlock, PayloadReceived, EndReceived, SlotWrite, SetImage, Check, LeaveReceive
<1>5. CASE WriteManifestHeader
  BY <1>5 DEF WriteManifestHeader, SlotWrite, SetManifest, LeaveReceive
<1>6. CASE WriteManifestSignature
  BY <1>6 DEF WriteManifestSignature, SlotWrite, SetManifest, LeaveReceive, Manifest
<1>7. CASE CommitLoad \/ AckEnd
  BY <1>7 DEF CommitLoad, AckEnd, Reboot, SaveThen
<1>8. CASE Prepare
  BY <1>8 DEF Prepare, SaveThen, PrepareAppB, OnTrial
<1>9. CASE Load \/ WindowCloses \/ Rollback \/ Select
  BY <1>9 DEF Load, WindowCloses, Rollback, Select, SaveThen, Check
<1>10. CASE StartB \/ RejectB \/ StartA \/ NoApp
  BY <1>10 DEF StartB, RejectB, StartA, NoApp, SaveThen
<1>11. CASE SaveErase
  BY <1>11 DEF SaveErase, SaveFailed, LeaveReceive
<1>12. CASE SaveWrite
  BY <1>12 DEF SaveWrite, SaveFailed, LeaveReceive
<1>13. CASE EnterUpdate \/ AppConfirm \/ Reset \/ PowerLoss
  BY <1>13 DEF EnterUpdate, AppConfirm, Reset, PowerLoss, SaveThen, Reboot
<1>14. CASE UNCHANGED vars
  BY <1>14 DEF vars
<1>15. QED
  BY <1>1, <1>2, <1>3, <1>4, <1>5, <1>6, <1>7, <1>8, <1>9, <1>10, <1>11, <1>12, <1>13, <1>14
  DEF Next, Progress, Receive, Boot, Save

-----------------------------------------------------------------------------
(* Running applications, and what saves are for.                           *)

(* Slot B runs only after the checks that StartB makes.                    *)
LEMMA RunningStep ==
  ASSUME TypeOK, ManifestInv, RunningInv, [Next]_vars
  PROVE  RunningInv'
<1> USE ImageAssumption
    DEF TypeOK, ManifestInv, RunningInv, OnlyAuthenticRuns, InSave, SecureBootB, IsValidAppB,
        Location, RxPhase, Install, Booting, Saving, Return, Slot,
        flash, slotB, record, ram, history, budget
<1>1. CASE CheckSize \/ HeaderReceived \/ SignatureReceived \/ Abort
  BY <1>1 DEF CheckSize, HeaderReceived, SignatureReceived, Abort, Check, LeaveReceive
<1>2. CASE CheckTag \/ CheckHash \/ VerifyInstalled
  BY <1>2 DEF CheckTag, CheckHash, VerifyInstalled, Check, LeaveReceive
<1>3. CASE EraseImage \/ EraseManifest
  BY <1>3 DEF EraseImage, EraseManifest, SlotWrite, LeaveReceive
<1>4. CASE WriteBlock \/ PayloadReceived \/ EndReceived
  BY <1>4 DEF WriteBlock, PayloadReceived, EndReceived, SlotWrite, Check, LeaveReceive
<1>5. CASE WriteManifestHeader \/ WriteManifestSignature
  BY <1>5 DEF WriteManifestHeader, WriteManifestSignature, SlotWrite, LeaveReceive
<1>6. CASE CommitLoad \/ Prepare \/ AckEnd
  BY <1>6 DEF CommitLoad, Prepare, AckEnd, Reboot, SaveThen
<1>7. CASE Load \/ WindowCloses \/ Rollback \/ Select
  BY <1>7 DEF Load, WindowCloses, Rollback, Select, SaveThen, Check
<1>8. CASE StartB
  BY <1>8 DEF StartB, Manifest
<1>9. CASE RejectB \/ StartA \/ NoApp
  BY <1>9 DEF RejectB, StartA, NoApp, SaveThen
<1>10. CASE SaveErase \/ SaveWrite
  BY <1>10 DEF SaveErase, SaveWrite, SaveFailed, LeaveReceive
<1>11. CASE EnterUpdate \/ AppConfirm \/ Reset \/ PowerLoss
  BY <1>11 DEF EnterUpdate, AppConfirm, Reset, PowerLoss, SaveThen, Reboot
<1>12. CASE UNCHANGED vars
  BY <1>12 DEF vars
<1>13. QED
  BY <1>1, <1>2, <1>3, <1>4, <1>5, <1>6, <1>7, <1>8, <1>9, <1>10, <1>11, <1>12
  DEF Next, Progress, Receive, Boot, Save

(* What a save under way may hold, and where it returns to.                *)
LEMMA SaveStep ==
  ASSUME TypeOK, RecordsConsistent, RunningInv, SaveInv, [Next]_vars
  PROVE  SaveInv'
<1> USE DEF TypeOK, SaveInv, InSave, Location, RxPhase, Install, Booting, Saving, Return, Slot,
            flash, slotB, record, ram, history, budget
<1>1. CASE CheckSize \/ HeaderReceived \/ SignatureReceived \/ Abort
  BY <1>1 DEF CheckSize, HeaderReceived, SignatureReceived, Abort, Check, LeaveReceive
<1>2. CASE CheckTag \/ CheckHash \/ VerifyInstalled
  BY <1>2 DEF CheckTag, CheckHash, VerifyInstalled, Check, LeaveReceive
<1>3. CASE EraseImage \/ EraseManifest
  BY <1>3 DEF EraseImage, EraseManifest, SlotWrite, LeaveReceive
<1>4. CASE WriteBlock \/ PayloadReceived \/ EndReceived
  BY <1>4 DEF WriteBlock, PayloadReceived, EndReceived, SlotWrite, Check, LeaveReceive
<1>5. CASE WriteManifestHeader \/ WriteManifestSignature
  BY <1>5 DEF WriteManifestHeader, WriteManifestSignature, SlotWrite, LeaveReceive
<1>6. CASE CommitLoad \/ Prepare \/ AckEnd
  BY <1>6 DEF CommitLoad, Prepare, AckEnd, Reboot, SaveThen, DefaultMeta, PrepareAppB, OnTrial
<1>7. CASE Load \/ WindowCloses \/ Select
  BY <1>7 DEF Load, WindowCloses, Select, SaveThen, Check, DefaultMeta, OnTrial
<1>8. CASE Rollback
  BY <1>8 DEF Rollback, SaveThen, ApplyRollback, RejectAppB, OnTrial, Meta
<1>9. CASE StartB \/ StartA \/ NoApp
  BY <1>9 DEF StartB, StartA, NoApp
<1>10. CASE RejectB
  BY <1>10 DEF RejectB, SaveThen, RejectAppB, OnTrial
<1>11. CASE SaveErase \/ SaveWrite
  BY <1>11 DEF SaveErase, SaveWrite, SaveFailed, LeaveReceive
<1>12. CASE AppConfirm
  <2>1. Loaded \in Meta
    BY MetaTyped DEF Loaded
  <2>2. ~DefaultMeta.pending /\ DefaultMeta.active = "A"
    BY DEF DefaultMeta
  <2>3. /\ ~ConfirmActiveApp(Loaded).pending
        /\ ConfirmActiveApp(Loaded).active = Loaded.active
    BY <2>1 DEF ConfirmActiveApp, Meta
  <2>4. QED
    BY <1>12, <2>2, <2>3 DEF AppConfirm, MayConfirm, SaveThen, OnTrial
<1>13. CASE EnterUpdate \/ Reset \/ PowerLoss
  BY <1>13 DEF EnterUpdate, Reset, PowerLoss, Reboot
<1>14. CASE UNCHANGED vars
  BY <1>14 DEF vars
<1>15. QED
  BY <1>1, <1>2, <1>3, <1>4, <1>5, <1>6, <1>7, <1>8, <1>9, <1>10, <1>11, <1>12,
     <1>13, <1>14
  DEF Next, Progress, Receive, Boot, Save

-----------------------------------------------------------------------------
(* The starts of an unconfirmed image.                                     *)

(* Every start is counted, or a flash error is to blame.                   *)
LEMMA TrialStep ==
  ASSUME TypeOK, RecordsConsistent, CommitInv, RunningInv, SaveInv, TrialInv, [Next]_vars
  PROVE  TrialInv'
<1>0. faults \in Nat /\ starts \in Nat /\ OTA_MAX_BOOT_COUNT \in Nat
  BY BootCountAssumption, BoundAssumption DEF TypeOK
<1>a. \A m \in Meta : m.count \in Nat
  BY DEF Meta
<1> USE <1>0, <1>a
    DEF TypeOK, TrialInv, TrialBound, Paid, InSave,
        Location, RxPhase, Install, Booting, Saving, Return, Slot,
        flash, slotB, record, ram, history, budget
<1>1. CASE CheckSize \/ HeaderReceived \/ SignatureReceived \/ Abort
  BY <1>1 DEF CheckSize, HeaderReceived, SignatureReceived, Abort, Check, LeaveReceive
<1>2. CASE CheckTag \/ CheckHash \/ VerifyInstalled
  BY <1>2 DEF CheckTag, CheckHash, VerifyInstalled, Check, LeaveReceive
<1>3. CASE EraseImage \/ EraseManifest
  BY <1>3 DEF EraseImage, EraseManifest, SlotWrite, LeaveReceive, FlashError
<1>4. CASE WriteBlock \/ PayloadReceived \/ EndReceived
  BY <1>4
  DEF WriteBlock, PayloadReceived, EndReceived, SlotWrite, Check, LeaveReceive, SetImage,
      FlashError
<1>5. CASE WriteManifestHeader \/ WriteManifestSignature
  BY <1>5 DEF WriteManifestHeader, WriteManifestSignature, SlotWrite, LeaveReceive, FlashError
<1>6. CASE CommitLoad \/ Prepare \/ AckEnd
  BY <1>6 DEF CommitLoad, Prepare, AckEnd, Reboot, SaveThen, DefaultMeta, OnTrial
<1>7. CASE Load
  BY <1>7 DEF Load, Loaded, SaveThen, DefaultMeta, OnTrial
<1>8. CASE WindowCloses \/ Select
  BY <1>8 DEF WindowCloses, Select, Check
<1>9. CASE Rollback
  BY <1>9 DEF Rollback, SaveThen, ApplyRollback, RejectAppB, OnTrial, Meta
<1>10. CASE StartB
  <2>1. running = "none" BY <1>10 DEF StartB, RunningInv
  <2>2. meta.pending => OnTrial(meta) /\ meta.count <= OTA_MAX_BOOT_COUNT
    BY DEF RecordsConsistent, Consistent, OnTrial
  <2>3. CASE meta.pending
    <3>1. starts' = starts + 1 /\ faults' = faults /\ pc' = "app" /\ running' = "B"
      BY <1>10, <2>3 DEF StartB
    <3>2. starts + 1 <= meta.count + faults
      BY <1>10, <2>1, <2>2, <2>3 DEF StartB
    <3>3. metaOk /\ OnTrial(stored) => starts + 1 <= stored.count + faults
      BY <1>10, <2>2, <2>3 DEF StartB
    <3>4. metaOk' = metaOk /\ stored' = stored
      BY <1>10 DEF StartB
    <3>5. QED BY <2>2, <2>3, <3>1, <3>2, <3>3, <3>4 DEF OnTrial
  <2>4. CASE ~meta.pending
    BY <1>10, <2>4 DEF StartB
  <2>5. QED BY <2>3, <2>4
<1>11. CASE StartA \/ NoApp
  BY <1>11 DEF StartA, NoApp
<1>12. CASE RejectB
  BY <1>12 DEF RejectB, SaveThen, RejectAppB, OnTrial
<1>13. CASE SaveErase
  BY <1>13 DEF SaveErase, SaveFailed, FlashError, LeaveReceive
<1>14. CASE SaveWrite
  <2>1. pc = "saveWrite" /\ ~metaOk /\ meta' = meta /\ running' = running
    BY <1>14 DEF SaveWrite, SaveInv
  <2>2. CASE /\ metaOk' = TRUE /\ stored' = work /\ pc' = then /\ faults' = faults
             /\ starts' = IF then = "ackEnd" THEN 0 ELSE starts
    <3>1. CASE then = "ackEnd"
      BY <2>1, <2>2, <3>1 DEF CommitInv
    <3>2. CASE then = "select"
      BY <2>1, <2>2, <3>2 DEF SaveInv, RunningInv
    <3>3. CASE then \notin {"ackEnd", "select"}
      BY <2>1, <2>2, <3>3 DEF SaveInv
    <3>4. QED BY <3>1, <3>2, <3>3
  <2>3. CASE SaveFailed /\ UNCHANGED <<record, history>>
    BY <2>1, <2>3 DEF SaveFailed, FlashError, LeaveReceive
  <2>4. QED BY <1>14, <2>2, <2>3 DEF SaveWrite
<1>15. CASE EnterUpdate \/ AppConfirm
  BY <1>15 DEF EnterUpdate, AppConfirm, SaveThen, RunningInv
<1>16. CASE Reset \/ PowerLoss
  BY <1>16 DEF Reset, PowerLoss, Reboot, DefaultMeta, OnTrial
<1>17. CASE UNCHANGED vars
  BY <1>17 DEF vars
<1>18. QED
  BY <1>1, <1>2, <1>3, <1>4, <1>5, <1>6, <1>7, <1>8, <1>9, <1>10, <1>11, <1>12,
     <1>13, <1>14, <1>15, <1>16, <1>17
  DEF Next, Progress, Receive, Boot, Save

-----------------------------------------------------------------------------
(* The theorems.                                                           *)

(* The inductive invariant.                                                *)
THEOREM Invariance == Spec => []IInv
<1>1. Init => IInv
  <2>1. Init => TypeOK
    BY TypeCorrectInit
  <2>2. ASSUME Init PROVE RecordsConsistent
    BY <2>2, MetaConsistent DEF Init, RecordsConsistent
  <2>3. ASSUME Init
        PROVE  PackageInv /\ ManifestInv /\ CommitInv /\ RunningInv /\ SaveInv /\ TrialInv
    BY <2>3, BootCountAssumption
    DEF Init, PackageInv, ManifestInv, CommitInv, RunningInv, OnlyAuthenticRuns, SaveInv, TrialInv,
        TrialBound, Paid, InSave, Saving, Install, NoManifest, DefaultMeta, OnTrial
  <2>4. QED BY <2>1, <2>2, <2>3 DEF IInv
<1>2. IInv /\ [Next]_vars => IInv'
  <2> SUFFICES ASSUME IInv, [Next]_vars PROVE IInv'
    OBVIOUS
  <2>1. TypeOK' /\ RecordsConsistent'
    BY TypeStep, RecordsStep DEF IInv
  <2>2. PackageInv' /\ ManifestInv' /\ CommitInv'
    BY InstallStep DEF IInv
  <2>3. RunningInv' /\ SaveInv'
    BY RunningStep, SaveStep DEF IInv
  <2>4. TrialInv'
    BY TrialStep DEF IInv
  <2>5. QED BY <2>1, <2>2, <2>3, <2>4 DEF IInv
<1>3. QED BY <1>1, <1>2, PTL DEF Spec

(* Only signed, complete and bootable images run from slot B.              *)
THEOREM Authenticity == Spec => []OnlyAuthenticRuns
<1>1. IInv => OnlyAuthenticRuns BY DEF IInv, RunningInv
<1>2. QED BY <1>1, Invariance, PTL

(* The final ACK is sent for an image that is installed and on trial.      *)
THEOREM AckIsTruthful == Spec => []AckMeansCommitted
<1>1. IInv => AckMeansCommitted BY DEF IInv, CommitInv, AckMeansCommitted
<1>2. QED BY <1>1, Invariance, PTL

(* An unconfirmed image gets its starts and one more for each flash error. *)
THEOREM TrialsBounded == Spec => []TrialBound
<1>1. IInv => TrialBound BY DEF IInv, TrialInv
<1>2. QED BY <1>1, Invariance, PTL

(* Slot B changes only under a package whose signature has been verified.  *)
THEOREM EraseIsAuthorised == Spec => SignatureBeforeErase
<1> DEFINE A == slotB' # slotB => pkg # NoPackage /\ Accepted(pkg)
<1>1. IInv /\ [Next]_vars => [A]_vars
  <2> SUFFICES ASSUME IInv, Next, slotB' # slotB PROVE pkg # NoPackage /\ Accepted(pkg)
    OBVIOUS
  <2>1. pc \in Install \cup {"rxPayload", "rxEnd"}
    <3>1. CASE EraseImage \/ EraseManifest \/ WriteBlock \/ PayloadReceived \/ EndReceived
                \/ WriteManifestHeader \/ WriteManifestSignature
      BY <3>1 DEF EraseImage, EraseManifest, WriteBlock, PayloadReceived, EndReceived,
                  WriteManifestHeader, WriteManifestSignature, SlotWrite, Install
    <3>2. CASE CheckSize \/ HeaderReceived \/ SignatureReceived \/ Abort \/ CheckTag \/ CheckHash
                \/ VerifyInstalled \/ WindowCloses \/ Select
      BY <3>2 DEF CheckSize, HeaderReceived, SignatureReceived, Abort, CheckTag, CheckHash,
                  VerifyInstalled, WindowCloses, Select, Check, flash
    <3>3. CASE CommitLoad \/ Prepare \/ AckEnd \/ Load \/ Rollback \/ StartB \/ RejectB
                \/ StartA \/ NoApp
      BY <3>3 DEF CommitLoad, Prepare, AckEnd, Load, Rollback, StartB, RejectB, StartA, NoApp,
                  Reboot, flash
    <3>4. CASE SaveErase \/ SaveWrite \/ EnterUpdate \/ AppConfirm \/ Reset \/ PowerLoss
      BY <3>4 DEF SaveErase, SaveWrite, EnterUpdate, AppConfirm, Reset, PowerLoss, Reboot, flash
    <3>5. QED BY <3>1, <3>2, <3>3, <3>4 DEF Next, Progress, Receive, Boot, Save
  <2>2. pkg \in Packages
    BY <2>1 DEF IInv, TypeOK, Transferring, RxPhase
  <2>3. QED BY <2>1, <2>2, PackageAssumption DEF IInv, PackageInv
<1>2. QED BY <1>1, Invariance, PTL DEF Spec, SignatureBeforeErase

(* Only a save changes the stored record.                                  *)
LEMMA RecordStep == ASSUME Next, record' # record PROVE SaveErase \/ SaveWrite
<1>1. CASE EraseImage \/ EraseManifest \/ WriteBlock \/ PayloadReceived \/ EndReceived
            \/ WriteManifestHeader \/ WriteManifestSignature
  BY <1>1 DEF EraseImage, EraseManifest, WriteBlock, PayloadReceived, EndReceived,
              WriteManifestHeader, WriteManifestSignature, SlotWrite, Check, flash
<1>2. CASE CheckSize \/ HeaderReceived \/ SignatureReceived \/ Abort \/ CheckTag \/ CheckHash
            \/ VerifyInstalled \/ WindowCloses \/ Select
  BY <1>2 DEF CheckSize, HeaderReceived, SignatureReceived, Abort, CheckTag, CheckHash,
              VerifyInstalled, WindowCloses, Select, Check, flash
<1>3. CASE CommitLoad \/ Prepare \/ AckEnd \/ Load \/ Rollback \/ StartB \/ RejectB
            \/ StartA \/ NoApp
  BY <1>3 DEF CommitLoad, Prepare, AckEnd, Load, Rollback, StartB, RejectB, StartA, NoApp,
              Reboot, flash
<1>4. CASE EnterUpdate \/ AppConfirm \/ Reset \/ PowerLoss
  BY <1>4 DEF EnterUpdate, AppConfirm, Reset, PowerLoss, Reboot, flash
<1>5. QED BY <1>1, <1>2, <1>3, <1>4 DEF Next, Progress, Receive, Boot, Save

(* With a confirm call that compares the slot, only the application in     *)
(* slot B ends its own trial in success.                                   *)
THEOREM SelfConfirmation == ConfirmChecksSlot => (Spec => ConfirmedByItself)
<1> SUFFICES ASSUME ConfirmChecksSlot PROVE Spec => ConfirmedByItself
  OBVIOUS
<1> DEFINE A == (/\ metaOk' /\ stored'.active = "B" /\ ~stored'.pending
                 /\ record' # record) => running = "B"
<1>1. IInv /\ [Next]_vars => [A]_vars
  <2> SUFFICES ASSUME IInv, Next, metaOk', stored'.active = "B", ~stored'.pending, record' # record
               PROVE  running = "B"
    OBVIOUS
  <2>1. SaveErase \/ SaveWrite
    BY RecordStep
  <2>2. pc = "saveWrite" /\ stored' = work
    BY <2>1 DEF SaveErase, SaveWrite, record
  <2>3. QED BY <2>2 DEF IInv, SaveInv, Saving
<1>2. QED BY <1>1, Invariance, PTL DEF Spec, ConfirmedByItself

-----------------------------------------------------------------------------
(* Without flash errors.                                                   *)

(* Without faults no flash operation reports an error.                     *)
LEMMA NoFlashError == ASSUME MaxFaults = 0, TypeOK PROVE ~FlashError
  BY DEF TypeOK, FlashError

(* The record in RAM is the stored one wherever main() uses it.            *)
LEMMA FaultFreeStep ==
  ASSUME MaxFaults = 0, IInv, FaultFreeInv, [Next]_vars
  PROVE  FaultFreeInv'
<1> USE NoFlashError
    DEF IInv, TypeOK, RunningInv, FaultFreeInv, Loading, InSave,
        Location, RxPhase, Install, Booting, Saving, Return, Slot,
        flash, slotB, record, ram, history, budget
<1>1. CASE CheckSize \/ HeaderReceived \/ SignatureReceived \/ Abort
  BY <1>1 DEF CheckSize, HeaderReceived, SignatureReceived, Abort, Check, LeaveReceive
<1>2. CASE CheckTag \/ CheckHash \/ VerifyInstalled
  BY <1>2 DEF CheckTag, CheckHash, VerifyInstalled, Check, LeaveReceive
<1>3. CASE EraseImage \/ EraseManifest
  BY <1>3 DEF EraseImage, EraseManifest, SlotWrite, LeaveReceive
<1>4. CASE WriteBlock \/ PayloadReceived \/ EndReceived
  BY <1>4 DEF WriteBlock, PayloadReceived, EndReceived, SlotWrite, Check, LeaveReceive
<1>5. CASE WriteManifestHeader \/ WriteManifestSignature
  BY <1>5 DEF WriteManifestHeader, WriteManifestSignature, SlotWrite, LeaveReceive
<1>6. CASE CommitLoad \/ Prepare \/ AckEnd
  BY <1>6 DEF CommitLoad, Prepare, AckEnd, Reboot, SaveThen
<1>7. CASE Load
  BY <1>7 DEF Load, Loaded, SaveThen, DefaultMeta
<1>8. CASE WindowCloses \/ Select
  <2>1. CASE WindowCloses
    BY <1>8, <2>1 DEF WindowCloses, Check
  <2>2. CASE Select
    <3>1. meta.active = IF SelectedApp(meta) = "B" THEN "B" ELSE "A"
      BY MetaConsistent DEF SelectedApp, RecordsConsistent, Consistent, Meta
    <3>2. /\ metaOk /\ meta = stored /\ pc = "select"
          /\ pc' = IF SelectedApp(meta) = "B" THEN "verifyB" ELSE "verifyA"
      BY <2>2 DEF Select, Check
    <3>3. UNCHANGED <<metaOk, stored, meta, work, then, running>>
      BY <2>2 DEF Select, Check
    <3>4. (pc' = "verifyB" /\ meta.active = "B") \/ (pc' = "verifyA" /\ meta.active = "A")
      BY <3>1, <3>2
    <3>5. QED
      BY <3>2, <3>3, <3>4
  <2>3. QED
    BY <1>8, <2>1, <2>2
<1>9. CASE Rollback
  BY <1>9 DEF Rollback, SaveThen, ApplyRollback, RejectAppB, OnTrial, Meta
<1>10. CASE StartB \/ StartA \/ NoApp
  BY <1>10 DEF StartB, StartA, NoApp
<1>11. CASE RejectB
  BY <1>11 DEF RejectB, SaveThen, RejectAppB, OnTrial
<1>12. CASE SaveErase
  BY <1>12 DEF SaveErase, SaveFailed
<1>13. CASE SaveWrite
  BY <1>13 DEF SaveWrite, SaveFailed, SaveInv
<1>14. CASE AppConfirm
  BY <1>14 DEF AppConfirm, MayConfirm, SaveThen, Loaded, ConfirmActiveApp, OnTrial, Meta,
                RecordsConsistent, Consistent
<1>15. CASE EnterUpdate \/ Reset \/ PowerLoss
  BY <1>15 DEF EnterUpdate, Reset, PowerLoss, Reboot
<1>16. CASE UNCHANGED vars
  BY <1>16 DEF vars
<1>17. QED
  BY <1>1, <1>2, <1>3, <1>4, <1>5, <1>6, <1>7, <1>8, <1>9, <1>10, <1>11, <1>12,
     <1>13, <1>14, <1>15, <1>16
  DEF Next, Progress, Receive, Boot, Save

-----------------------------------------------------------------------------
(* The mapping, value by value.                                            *)

(* The abstract content of slot B is an image or nothing.                  *)
LEMMA VerifiedTyped ==
  ASSUME TypeOK, ManifestInv
  PROVE  /\ SecureBootB => /\ VerifiedImage = image /\ image # Erased
                            /\ image \in Published \ TooSmall
         /\ ~SecureBootB => VerifiedImage = Erased
  BY ContentAssumption, ImageAssumption DEF TypeOK, ManifestInv, SecureBootB, VerifiedImage

(* The abstract state of every record ota_metadata.c produces.             *)
LEMMA ChoiceOf ==
  ASSUME NEW m \in Meta, Consistent(m)
  PROVE  /\ Choice(m).slot = m.active /\ Choice(m).trial = m.pending /\ Choice(m).spent = m.count
         /\ m.active = "A" => Choice(m) = AB!ChooseA
         /\ m.active = "B" /\ ~m.pending => Choice(m) = AB!ChooseB
         /\ OnTrial(m) => Choice(m) = AB!Trial(m.count)
<1>1. m.count \in Nat /\ m.active \in {"A", "B"} /\ m.pending \in BOOLEAN
  BY DEF Meta, Slot
<1>2. ~m.pending => m.count = 0
  BY <1>1 DEF Consistent
<1>3. m.active = "A" => m.pending = FALSE
  BY <1>1 DEF Consistent
<1>4. QED
  BY <1>1, <1>2, <1>3 DEF Choice, AB!ChooseA, AB!ChooseB, AB!Trial, OnTrial

(* The abstract choice and count are typed.                                *)
LEMMA EffectiveTyped ==
  ASSUME TypeOK, RecordsConsistent
  PROVE  /\ Effective \in Meta /\ Consistent(Effective)
         /\ Ticket \in BOOLEAN
<1>1. Loaded \in Meta /\ Consistent(Loaded)
  BY MetaTyped, MetaConsistent DEF Loaded, TypeOK, RecordsConsistent
<1>2. Effective \in Meta /\ Consistent(Effective)
  BY <1>1 DEF Effective, TypeOK, RecordsConsistent
<1>3. Ticket \in BOOLEAN
  BY Zenon DEF Ticket
<1>4. QED BY <1>2, <1>3

(* A step that changes no mapped variable is a stuttering step.            *)
LEMMA Stutter ==
  ASSUME UNCHANGED VerifiedImage, UNCHANGED Effective, UNCHANGED Ticket, UNCHANGED running
  PROVE  [AB!Next]_AB!vars
  BY DEF AB!vars, Choice

-----------------------------------------------------------------------------
(* The steps.                                                              *)

(* The abstract image depends on slot B only.                              *)
LEMMA SameSlot == ASSUME UNCHANGED slotB PROVE UNCHANGED VerifiedImage
  BY DEF slotB, VerifiedImage, SecureBootB

(* The abstract choice depends on the record and on saves under way.       *)
LEMMA SameRecord ==
  ASSUME UNCHANGED record, pc # "saveWrite", pc' # "saveWrite"
  PROVE  UNCHANGED Effective
  BY DEF record, Effective, Loaded

(* No start is paid for unless the pc is at one of these labels.           *)
LEMMA NoTicket ==
  ASSUME pc \notin {"select", "verifyB"}, ~(pc = "saveWrite" /\ then = "select"),
         ~(pc = "saveErase" /\ then = "verifyA")
  PROVE  Ticket = FALSE
  BY Zenon DEF Ticket

(* Where no start has been counted, none is pending.                       *)
LEMMA NoTicketNext ==
  ASSUME pc' \notin {"select", "verifyB"}, ~(pc' = "saveWrite" /\ then' = "select"),
         ~(pc' = "saveErase" /\ then' = "verifyA")
  PROVE  Ticket' = FALSE
  BY Zenon DEF Ticket

(* Steps of the receiver that leave the flash alone.                       *)
LEMMA QuietStep ==
  ASSUME \/ CheckSize \/ HeaderReceived \/ SignatureReceived \/ Abort
         \/ CheckTag \/ CheckHash \/ VerifyInstalled \/ WindowCloses \/ EnterUpdate
  PROVE  [AB!Next]_AB!vars
<1>1. /\ pc \notin {"saveErase", "saveWrite", "select", "verifyB"}
      /\ pc' \notin {"saveErase", "saveWrite", "select", "verifyB"}
      /\ UNCHANGED slotB /\ UNCHANGED record /\ UNCHANGED running
  BY DEF CheckSize, HeaderReceived, SignatureReceived, Abort, CheckTag, CheckHash,
         VerifyInstalled, WindowCloses, EnterUpdate, Check, LeaveReceive, RxPhase, flash
<1>2. UNCHANGED VerifiedImage /\ UNCHANGED Effective
  BY <1>1, SameSlot, SameRecord
<1>3. UNCHANGED Ticket
  BY <1>1, NoTicket, NoTicketNext
<1>4. QED BY <1>1, <1>2, <1>3, Stutter

(* Steps that write slot B: they invalidate it, or complete an image.      *)
LEMMA WriteStep ==
  ASSUME MaxFaults = 0, IInv, IInv',
         \/ EraseImage \/ EraseManifest \/ WriteBlock \/ PayloadReceived \/ EndReceived
         \/ WriteManifestHeader \/ WriteManifestSignature
  PROVE  [AB!Next]_AB!vars
<1> USE NoFlashError DEF IInv
<1>1. /\ pc \in {"eraseImage", "eraseManifest", "rxPayload", "rxEnd",
                 "manifestHeader", "manifestSignature"}
      /\ pc' \notin {"saveErase", "saveWrite", "select", "verifyB"}
      /\ UNCHANGED record /\ UNCHANGED running
  BY DEF EraseImage, EraseManifest, WriteBlock, PayloadReceived, EndReceived,
         WriteManifestHeader, WriteManifestSignature, SlotWrite, Check, LeaveReceive, flash
<1>2. UNCHANGED Effective
  BY <1>1, SameRecord
<1>3. Ticket = FALSE /\ Ticket' = FALSE
  BY <1>1, NoTicket, NoTicketNext
<1>4. running = "none"
  BY <1>1 DEF RunningInv, InSave, Saving
<1>5. VerifiedImage' = Erased \/ (VerifiedImage = Erased /\ VerifiedImage' \in Published \ TooSmall)
  <2>1. CASE pc = "eraseImage"
    <3>1. image' = Partial /\ manifest' = manifest
      BY <2>1 DEF EraseImage, EraseManifest, WriteBlock, PayloadReceived, EndReceived,
             WriteManifestHeader, WriteManifestSignature, SlotWrite
    <3>2. ~SecureBootB'
      BY <3>1, ContentAssumption DEF SecureBootB
    <3>3. QED BY <3>2 DEF VerifiedImage
  <2>2. CASE pc \in {"eraseManifest", "rxPayload", "rxEnd", "manifestHeader"}
    <3>1. manifest'.sig = FALSE
      BY <2>2 DEF EraseImage, EraseManifest, WriteBlock, PayloadReceived, EndReceived,
             WriteManifestHeader, WriteManifestSignature, SlotWrite, Check, ManifestInv,
             SetImage, SetManifest, NoManifest, slotB, flash
    <3>2. ~SecureBootB'
      BY <3>1 DEF SecureBootB
    <3>3. QED BY <3>2 DEF VerifiedImage
  <2>3. CASE pc = "manifestSignature"
    <3>1. ~SecureBootB
      BY <2>3 DEF SecureBootB, ManifestInv
    <3>2. SecureBootB' => image' \in Published \ TooSmall
      BY DEF SecureBootB, ManifestInv
    <3>3. QED BY <3>1, <3>2 DEF VerifiedImage
  <2>4. QED BY <1>1, <2>1, <2>2, <2>3
<1>6. CASE VerifiedImage' = Erased
  BY <1>1, <1>2, <1>3, <1>4, <1>6 DEF AB!Next, AB!Invalidate, Choice
<1>7. CASE VerifiedImage = Erased /\ VerifiedImage' \in Published \ TooSmall
  BY <1>1, <1>2, <1>3, <1>4, <1>7 DEF AB!Next, AB!Complete, Choice
<1>8. QED BY <1>5, <1>6, <1>7

(* Steps that prepare a save or take a decision: they stutter.             *)
LEMMA DecisionStep ==
  ASSUME IInv, FaultFreeInv,
         CommitLoad \/ Prepare \/ Load \/ Rollback \/ Select \/ RejectB \/ NoApp \/ AppConfirm
  PROVE  [AB!Next]_AB!vars
<1> USE DEF IInv
<1>1. /\ pc # "saveWrite" /\ pc' # "saveWrite" /\ pc # "saveErase"
      /\ UNCHANGED slotB /\ UNCHANGED record /\ UNCHANGED running
  BY DEF CommitLoad, Prepare, Load, Rollback, Select, RejectB, NoApp, AppConfirm,
         Check, SaveThen, flash
<1>2. UNCHANGED VerifiedImage /\ UNCHANGED Effective
  BY <1>1, SameSlot, SameRecord
<1>3. UNCHANGED Ticket
  <2>1. CASE CommitLoad \/ Prepare \/ Load \/ AppConfirm
    <3>1. pc \notin {"select", "verifyB"} /\ pc' \notin {"select", "verifyB"}
      BY <2>1 DEF CommitLoad, Prepare, Load, AppConfirm, SaveThen
    <3>2. pc' = "saveErase" => then' # "verifyA"
      BY <2>1, <1>1 DEF CommitLoad, Prepare, Load, AppConfirm, SaveThen
    <3>3. QED BY <1>1, <3>1, <3>2, NoTicket, NoTicketNext
  <2>2. CASE Rollback
    <3>1. pc = "rollback" /\ metaOk /\ meta = stored
      BY <2>2 DEF Rollback, FaultFreeInv, Booting
    <3>2. Effective = meta
      BY <3>1 DEF Effective, Loaded
    <3>3. \/ pc' = "saveErase" /\ then' = "select"
          \/ pc' = "select" /\ ~OnTrial(Effective)
      BY <2>2, <3>2 DEF Rollback, SaveThen
    <3>4. Ticket' = FALSE
      <4>1. CASE pc' = "saveErase" /\ then' = "select"
        BY <4>1, NoTicketNext
      <4>2. CASE ~OnTrial(Effective)
        BY <4>2, <1>2, Zenon DEF Ticket, OnTrial
      <4>3. QED BY <3>3, <4>1, <4>2
    <3>5. Ticket = FALSE
      BY <3>1, NoTicket
    <3>6. QED BY <3>4, <3>5
  <2>3. CASE Select
    <3>1. pc = "select" /\ metaOk /\ meta = stored
      BY <2>3 DEF Select, Check, FaultFreeInv, Booting
    <3>2. Effective = meta
      BY <3>1 DEF Effective, Loaded
    <3>3. OnTrial(Effective) => pc' = "verifyB"
      BY <2>3, <3>2 DEF Select, Check, SelectedApp, OnTrial, RecordsConsistent, Consistent
    <3>4. Ticket' <=> Ticket
      BY <1>2, <3>1, <3>3 DEF Ticket, OnTrial
    <3>5. Ticket \in BOOLEAN /\ Ticket' \in BOOLEAN
      BY Zenon DEF Ticket
    <3>6. QED BY <3>4, <3>5
  <2>4. CASE RejectB
    <3>1. pc = "verifyB" /\ pc' = "saveErase" /\ then' = "verifyA"
      BY <2>4 DEF RejectB, SaveThen
    <3>2. Ticket' <=> Ticket
      BY <1>2, <3>1 DEF Ticket, OnTrial
    <3>3. Ticket \in BOOLEAN /\ Ticket' \in BOOLEAN
      BY Zenon DEF Ticket
    <3>4. QED BY <3>2, <3>3
  <2>5. CASE NoApp
    BY <2>5, NoTicket, NoTicketNext DEF NoApp
  <2>6. QED BY <2>1, <2>2, <2>3, <2>4, <2>5
<1>4. QED BY <1>1, <1>2, <1>3, Stutter

(* Starts of an application.                                               *)
LEMMA StartStep ==
  ASSUME IInv, IInv', FaultFreeInv, StartB \/ StartA
  PROVE  [AB!Next]_AB!vars
<1> USE DEF IInv
<1>1. /\ pc \in {"verifyB", "verifyA"} /\ pc' = "app" /\ running = "none"
      /\ UNCHANGED slotB /\ UNCHANGED record
  BY DEF StartB, StartA, flash, RunningInv, InSave, Saving
<1>2. UNCHANGED VerifiedImage /\ UNCHANGED Effective
  BY <1>1, SameSlot, SameRecord
<1>3. metaOk /\ meta = stored /\ Effective = stored
  BY <1>1 DEF FaultFreeInv, Booting, Effective, Loaded
<1>4. Effective \in Meta /\ Consistent(Effective)
  BY EffectiveTyped
<1>5. Ticket' = FALSE
  BY <1>1, NoTicketNext
<1>6. CASE StartB
  <2>1. /\ Choice(Effective).slot = "B"
        /\ Choice(Effective).trial => Ticket
    BY <1>3, <1>4, <1>6, ChoiceOf DEF StartB, FaultFreeInv, Ticket, OnTrial
  <2>2. VerifiedImage \in Published \ TooSmall /\ VerifiedImage \in Bootable
    BY <1>6, VerifiedTyped DEF StartB, IsValidAppB
  <2>3. running' = "B"
    BY <1>6 DEF StartB
  <2>4. QED
    BY <1>1, <1>2, <1>5, <2>1, <2>2, <2>3 DEF AB!Next, AB!StartB, Choice
<1>7. CASE StartA
  <2>1. Choice(Effective) = AB!ChooseA
    BY <1>3, <1>4, <1>7, ChoiceOf DEF StartA, FaultFreeInv
  <2>2. Ticket = FALSE
    BY <1>7, NoTicket DEF StartA
  <2>3. running' = "A"
    BY <1>7 DEF StartA
  <2>4. QED
    BY <1>1, <1>2, <1>5, <2>1, <2>2, <2>3 DEF AB!Next, AB!StartA, Choice
<1>8. QED BY <1>6, <1>7

(* A restart keeps the record or, in the middle of a save, loses it.       *)
LEMMA RestartStep ==
  ASSUME IInv, IInv', AckEnd \/ Reset \/ PowerLoss
  PROVE  [AB!Next]_AB!vars
<1> USE DEF IInv
<1>1. /\ pc' = "load" /\ running' = "none" /\ UNCHANGED slotB /\ UNCHANGED record
  BY DEF AckEnd, Reset, PowerLoss, Reboot, flash
<1>2. UNCHANGED VerifiedImage /\ Ticket' = FALSE
  BY <1>1, SameSlot, NoTicketNext
<1>3. Effective' = Loaded
  BY <1>1 DEF Effective, Loaded, record
<1>4. Choice(Effective)' \in {Choice(Effective), AB!ChooseA}
  <2>1. CASE pc = "saveWrite"
    <3>1. Effective' = DefaultMeta
      BY <1>3, <2>1 DEF Loaded, SaveInv
    <3>2. Choice(Effective') = AB!ChooseA
      BY <3>1 DEF Choice, DefaultMeta, AB!ChooseA
    <3>3. QED BY <3>2 DEF Choice
  <2>2. CASE pc # "saveWrite"
    <3>1. Effective' = Effective
      BY <1>3, <2>2 DEF Effective
    <3>2. QED BY <3>1 DEF Choice
  <2>3. QED BY <2>1, <2>2
<1>5. QED
  BY <1>1, <1>2, <1>4 DEF AB!Next, AB!Restart

(* The erase that opens a save is where the new record takes effect.       *)
LEMMA SaveEraseStep ==
  ASSUME MaxFaults = 0, IInv, IInv', FaultFreeInv, SaveErase
  PROVE  [AB!Next]_AB!vars
<1> USE DEF IInv
<1>1. /\ pc = "saveErase" /\ pc' = "saveWrite" /\ work' = work /\ then' = then
      /\ UNCHANGED slotB /\ UNCHANGED running
  BY NoFlashError DEF SaveErase, SaveFailed
<1>2. UNCHANGED VerifiedImage
  BY <1>1, SameSlot
<1>3. Effective = Loaded /\ Effective' = work
  BY <1>1 DEF Effective
<1>4. work \in Meta /\ Consistent(work)
  BY DEF TypeOK, RecordsConsistent
<1>5. Choice(Effective)' = Choice(work)
  BY <1>3 DEF Choice
<1>6. then \in {"window", "verifyA", "select", "ackEnd", "app"}
  BY <1>1 DEF TypeOK, Return, FaultFreeInv, InSave, Saving
<1>7. CASE then \in {"window", "verifyA"}
  <2>1. work.active = "A"
    BY <1>1, <1>7 DEF FaultFreeInv, InSave, Saving
  <2>2. Choice(work) = AB!ChooseA
    BY <1>4, <2>1, ChoiceOf
  <2>3. Ticket' = FALSE
    BY <1>1, <1>7, NoTicketNext
  <2>4. QED
    BY <1>1, <1>2, <1>5, <2>2, <2>3 DEF AB!Next, AB!GiveUpB
<1>8. CASE then = "select"
  <2>1. metaOk /\ OnTrial(stored) /\ work = ApplyRollback(stored)
    BY <1>1, <1>8 DEF FaultFreeInv, Loading, InSave, Saving
  <2>2. Effective = stored /\ stored \in Meta /\ Consistent(stored)
    BY <1>3, <2>1 DEF Loaded, TypeOK, RecordsConsistent
  <2>3. running = "none"
    BY <1>1, <1>8 DEF RunningInv, InSave, Saving
  <2>4. Choice(Effective) = AB!Trial(stored.count) /\ stored.count \in Nat
    BY <2>1, <2>2, ChoiceOf DEF Meta
  <2>5. CASE stored.count >= OTA_MAX_BOOT_COUNT
    <3>1. work.active = "A"
      BY <2>1, <2>5 DEF ApplyRollback, RejectAppB
    <3>2. Choice(work) = AB!ChooseA
      BY <1>4, <3>1, ChoiceOf
    <3>3. Ticket' = FALSE
      BY <1>3, <3>1, Zenon DEF Ticket, OnTrial
    <3>4. QED
      BY <1>1, <1>2, <1>5, <3>2, <3>3 DEF AB!Next, AB!GiveUpB
  <2>6. CASE ~(stored.count >= OTA_MAX_BOOT_COUNT)
    <3>1. work = [stored EXCEPT !.count = stored.count + 1]
      BY <2>1, <2>6 DEF ApplyRollback
    <3>2. OnTrial(work) /\ work.count = stored.count + 1
      BY <2>1, <2>2, <3>1 DEF OnTrial, Meta
    <3>3. Choice(work) = AB!Trial(stored.count + 1)
      BY <1>4, <3>2, ChoiceOf
    <3>4. Ticket' = TRUE
      BY <1>1, <1>3, <1>8, <3>2, Zenon DEF Ticket, OnTrial
    <3>5. Choice(Effective).trial /\ Choice(Effective).spent = stored.count
      BY <2>4 DEF AB!Trial
    <3>6. stored.count < OTA_MAX_BOOT_COUNT
      BY <2>4, <2>6, BootCountAssumption
    <3>7. QED
      BY <1>1, <1>2, <1>5, <2>3, <3>3, <3>4, <3>5, <3>6 DEF AB!Next, AB!Pay
  <2>7. QED BY <2>5, <2>6
<1>9. CASE then = "ackEnd"
  <2>1. SecureBootB /\ OnTrial(work) /\ work.count = 0
    BY <1>1, <1>9 DEF CommitInv, InSave, Saving
  <2>2. VerifiedImage # Erased
    BY <2>1, VerifiedTyped
  <2>3. Choice(work) = AB!Trial(0)
    BY <1>4, <2>1, ChoiceOf
  <2>4. Ticket = FALSE /\ Ticket' = FALSE
    BY <1>1, <1>9, NoTicket, NoTicketNext
  <2>5. running = "none"
    BY <1>1, <1>9 DEF RunningInv, InSave, Saving
  <2>6. QED
    BY <1>1, <1>2, <1>5, <2>2, <2>3, <2>4, <2>5 DEF AB!Next, AB!Commit
<1>10. CASE then = "app"
  <2>1. /\ running = "B" /\ work.active = "B" /\ ~work.pending /\ OnTrial(stored) /\ metaOk
    BY <1>1, <1>10 DEF FaultFreeInv, Loading, InSave, Saving
  <2>2. Choice(work) = AB!ChooseB
    BY <1>4, <2>1, ChoiceOf
  <2>3. Choice(Effective).trial
    BY <1>3, <2>1 DEF Loaded, OnTrial, Choice
  <2>4. Ticket = FALSE /\ Ticket' = FALSE
    BY <1>1, <1>10, NoTicket, NoTicketNext
  <2>5. QED
    BY <1>1, <1>2, <1>5, <2>1, <2>2, <2>3, <2>4 DEF AB!Next, AB!Confirm
<1>11. QED BY <1>6, <1>7, <1>8, <1>9, <1>10

(* The write of a record is where choice and count change.                 *)
LEMMA SaveWriteStep ==
  ASSUME MaxFaults = 0, IInv, FaultFreeInv, SaveWrite
  PROVE  [AB!Next]_AB!vars
<1> USE DEF IInv
<1>1. /\ pc = "saveWrite" /\ pc' = then /\ metaOk' = TRUE /\ stored' = work
      /\ UNCHANGED slotB /\ UNCHANGED running
  BY NoFlashError DEF SaveWrite, SaveFailed
<1>2. then \in Return
  BY DEF TypeOK
<1>3. UNCHANGED VerifiedImage
  BY <1>1, SameSlot
<1>4. Effective' = work /\ Effective = work
  BY <1>1, <1>2 DEF Effective, Loaded, Return
<1>5. UNCHANGED Ticket
  <2>1. CASE then = "select"
    <3>1. Ticket' <=> Ticket
      BY <1>1, <1>4, <2>1 DEF Ticket, OnTrial
    <3>2. Ticket \in BOOLEAN /\ Ticket' \in BOOLEAN
      BY Zenon DEF Ticket
    <3>3. QED BY <3>1, <3>2
  <2>2. CASE then # "select"
    BY <1>1, <1>2, <2>2, NoTicket, NoTicketNext DEF Return
  <2>3. QED BY <2>1, <2>2
<1>6. QED BY <1>1, <1>3, <1>4, <1>5, Stutter

-----------------------------------------------------------------------------
(* The theorems.                                                           *)

(* Without flash errors the RAM record and the stored one never disagree   *)
(* where the code relies on their agreement (main() boots with the record  *)
(* it loaded before the transfer).                                         *)
THEOREM FaultFree == MaxFaults = 0 => (Spec => []FaultFreeInv)
<1> SUFFICES ASSUME MaxFaults = 0 PROVE Spec => []FaultFreeInv
  OBVIOUS
<1>1. Init => FaultFreeInv
  BY DEF Init, FaultFreeInv, Loading, InSave, RxPhase, Install, Booting, Saving, DefaultMeta
<1>2. IInv /\ FaultFreeInv /\ [Next]_vars => FaultFreeInv'
  BY FaultFreeStep
<1>3. QED BY <1>1, <1>2, Invariance, PTL DEF Spec

(* The bootloader implements the abstract A/B update: slot B is completed  *)
(* before it is put on trial, every trial start is paid for before the     *)
(* jump, and what a restart or a broken save costs is the choice of B.     *)
THEOREM Refinement == MaxFaults = 0 => (Spec => ImplementsABUpdate)
<1> SUFFICES ASSUME MaxFaults = 0 PROVE Spec => ImplementsABUpdate
  OBVIOUS
<1>1. Init => AB!Init
  <2> SUFFICES ASSUME Init PROVE AB!Init
    OBVIOUS
  <2>1. VerifiedImage = Erased
    BY DEF Init, VerifiedImage, SecureBootB, NoManifest
  <2>2. Effective = DefaultMeta
    BY DEF Init, Effective, Loaded
  <2>3. Choice(Effective) = AB!ChooseA
    BY <2>2 DEF Choice, DefaultMeta, AB!ChooseA
  <2>4. Ticket = FALSE
    BY NoTicket DEF Init
  <2>5. QED BY <2>1, <2>3, <2>4 DEF Init, AB!Init
<1>2. IInv /\ IInv' /\ FaultFreeInv /\ [Next]_vars => [AB!Next]_AB!vars
  <2> SUFFICES ASSUME IInv, IInv', FaultFreeInv, [Next]_vars PROVE [AB!Next]_AB!vars
    OBVIOUS
  <2>1. CASE \/ CheckSize \/ HeaderReceived \/ SignatureReceived \/ Abort
             \/ CheckTag \/ CheckHash \/ VerifyInstalled \/ WindowCloses \/ EnterUpdate
    BY <2>1, QuietStep
  <2>2. CASE \/ EraseImage \/ EraseManifest \/ WriteBlock \/ PayloadReceived \/ EndReceived
             \/ WriteManifestHeader \/ WriteManifestSignature
    BY <2>2, WriteStep
  <2>3. CASE \/ CommitLoad \/ Prepare \/ Load \/ Rollback \/ Select \/ RejectB
             \/ NoApp \/ AppConfirm
    BY <2>3, DecisionStep
  <2>4. CASE StartB \/ StartA
    BY <2>4, StartStep
  <2>5. CASE AckEnd \/ Reset \/ PowerLoss
    BY <2>5, RestartStep
  <2>6. CASE SaveErase \/ SaveWrite
    BY <2>6, SaveEraseStep, SaveWriteStep
  <2>7. CASE UNCHANGED vars
    <3>1. UNCHANGED slotB /\ UNCHANGED running /\ UNCHANGED Effective /\ UNCHANGED Ticket
      BY <2>7 DEF vars, flash, ram, record, Effective, Loaded, Ticket, OnTrial
    <3>2. QED BY <3>1, SameSlot, Stutter
  <2>8. QED
    BY <2>1, <2>2, <2>3, <2>4, <2>5, <2>6, <2>7 DEF Next, Progress, Receive, Boot, Save
<1>3. QED
  BY <1>1, <1>2, Invariance, FaultFree, PTL DEF Spec, ImplementsABUpdate

(* Without flash errors only the application in slot B ends its own trial  *)
(* in success, although the confirm call does not compare the slots: when  *)
(* slot A runs, the rejection of slot B has been saved.                    *)
THEOREM ConfirmsItself == MaxFaults = 0 => (Spec => ConfirmedByItself)
<1> SUFFICES ASSUME MaxFaults = 0 PROVE Spec => ConfirmedByItself
  OBVIOUS
<1> DEFINE A == (/\ metaOk' /\ stored'.active = "B" /\ ~stored'.pending
                 /\ record' # record) => running = "B"
<1>1. IInv /\ FaultFreeInv /\ [Next]_vars => [A]_vars
  <2> SUFFICES ASSUME IInv, FaultFreeInv, Next, metaOk', stored'.active = "B",
                      ~stored'.pending, record' # record
               PROVE  running = "B"
    OBVIOUS
  <2>1. pc = "saveWrite" /\ stored' = work
    BY RecordStep DEF SaveErase, SaveWrite, record
  <2>2. then \in Return /\ InSave({then})
    BY <2>1 DEF IInv, TypeOK, InSave, Saving
  <2>3. QED
    BY <2>1, <2>2 DEF IInv, CommitInv, FaultFreeInv, InSave, Saving, Return, OnTrial
<1>2. QED BY <1>1, Invariance, FaultFree, PTL DEF Spec, ConfirmedByItself
=============================================================================
