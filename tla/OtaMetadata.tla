---------------------------- MODULE OtaMetadata ----------------------------
(***************************************************************************)
(* The boot record kept in the metadata pages of the flash, and the pure   *)
(* part of ota_metadata.c: how a record is initialised, prepared for a     *)
(* trial of slot B, counted, rolled back, rejected and read for a slot.    *)
(*                                                                         *)
(* What the record abstracts: magic and crc32 are represented by the flag  *)
(* "the stored record is readable" of module Bootloader; app_a_valid is    *)
(* written once by ota_metadata_set_default and never read; the sizes and  *)
(* hashes are represented by the image they describe.                      *)
(***************************************************************************)
EXTENDS Naturals

CONSTANTS
    Image,              \* every firmware image that can be named by a header
    Erased, Partial,    \* flash content that is no image: blank, half written
    OTA_MAX_BOOT_COUNT  \* starts granted to an unconfirmed image

ASSUME ContentAssumption == Erased \notin Image /\ Partial \notin Image /\ Erased # Partial
ASSUME BootCountAssumption == OTA_MAX_BOOT_COUNT \in Nat

Slot == {"A", "B"}

Meta == [active  : Slot,
         bValid  : BOOLEAN,
         pending : BOOLEAN,
         count   : Nat,
         hash    : Image \cup {Erased}]

DefaultMeta ==
    [active |-> "A", bValid |-> FALSE, pending |-> FALSE, count |-> 0, hash |-> Erased]

(* Every field that is kept here is overwritten.                           *)
PrepareAppB(fw) ==
    [active |-> "B", bValid |-> TRUE, pending |-> TRUE, count |-> 0, hash |-> fw]

(* Mutant: a rejected image stays on trial.                                *)
RejectKeepsTrial(m) == [m EXCEPT !.active = "A", !.bValid = FALSE]

(* Rollback and rejection write the same fields; the hash is left alone.   *)
RejectAppB(m) ==
    [active |-> "A", bValid |-> FALSE, pending |-> FALSE, count |-> 0, hash |-> m.hash]

ConfirmActiveApp(m) == [m EXCEPT !.pending = FALSE, !.count = 0]

OnTrial(m) == m.active = "B" /\ m.pending

(* Mutant: one start too many.                                             *)
RollbackLate(m) ==
    IF m.count > OTA_MAX_BOOT_COUNT THEN RejectAppB(m) ELSE [m EXCEPT !.count = @ + 1]

ApplyRollback(m) ==
    IF m.count >= OTA_MAX_BOOT_COUNT THEN RejectAppB(m) ELSE [m EXCEPT !.count = @ + 1]

SelectedApp(m) == IF m.active = "B" /\ m.bValid THEN "B" ELSE "A"
=============================================================================
