----------------------------- MODULE FlashCalls -----------------------------
(***************************************************************************)
(* Any sequence of calls of the flash driver, with any address: what the   *)
(* comment in flash_if_is_writable_range promises, that the bootloader and *)
(* slot A are never erased or programmed, against the bank, page and range *)
(* arithmetic behind it.                                                   *)
(***************************************************************************)
EXTENDS FlashIf

CONSTANTS
    Byte,       \* what is written
    MaxLength   \* the longest write a caller asks for

ASSUME ByteAssumption == Blank \in Byte
(* Rounding the length up to double words stays below 2^32; the callers'   *)
(* longest write is the signature of 3309 bytes.                           *)
ASSUME LengthAssumption == MaxLength \in Nat /\ MaxLength + Word < Modulus

VARIABLES
    flash,  \* its contents
    last    \* the last call: what it was and what it returned

calls == <<flash, last>>

Memory == [Address -> Byte]
Call   == [op : {"none", "eraseAppB", "eraseMetadata", "write"}, ok : BOOLEAN]

TypeOK == flash \in Memory /\ last \in Call

CallsInit == flash \in Memory /\ last = [op |-> "none", ok |-> TRUE]

Return(op, result) == flash' = result.mem /\ last' = [op |-> op, ok |-> result.ok]

CallEraseAppB ==
    \E done \in 0..PageCount(APP_B_SIZE) :
        Return("eraseAppB", EraseRange(flash, APP_B_START_ADDR, APP_B_SIZE, done))

CallEraseMetadata ==
    \E done \in 0..PageCount(OTA_METADATA_SIZE) :
        Return("eraseMetadata",
               EraseRange(flash, OTA_METADATA_ADDR, OTA_METADATA_SIZE, done))

CallWrite ==
    \E address \in U32, length \in 0..MaxLength, pad \in BOOLEAN :
        \E data \in [1..length -> Byte], done \in 0..Units(length, Word) :
            Return("write", Write(flash, address, data, pad, done))

CallsNext == CallEraseAppB \/ CallEraseMetadata \/ CallWrite

CallsSpec == CallsInit /\ [][CallsNext]_calls

-----------------------------------------------------------------------------
Kept(area) == \A a \in area : flash'[a] = flash[a]

(* A call touches slot B or the metadata, never both and nothing else,     *)
(* whatever address and length it is given, also where address + length or *)
(* the padded length reaches the end of the address space                  *)
(* (flash_if_is_writable_range, flash_page_from_addr).                     *)
OneAreaPerCall ==
    [][Kept(Address \ AppB) \/ Kept(Address \ Metadata)]_calls

(* An erase that reports success leaves its whole area blank: the bank and *)
(* page numbers it asks the hardware for are those of the area.            *)
EraseIsWhole ==
    /\ last = [op |-> "eraseAppB", ok |-> TRUE] => \A a \in AppB : flash[a] = Blank
    /\ last = [op |-> "eraseMetadata", ok |-> TRUE] => \A a \in Metadata : flash[a] = Blank
=============================================================================
