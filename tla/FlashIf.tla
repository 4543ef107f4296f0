------------------------------ MODULE FlashIf ------------------------------
(***************************************************************************)
(* flash_if.c: which addresses may be erased and programmed, with the      *)
(* 32-bit arithmetic of the check, and what an erase and a padded write    *)
(* leave in the flash.  A flash is a function from addresses to bytes; how *)
(* many pages or double words the hardware manages before it reports an    *)
(* error is a parameter (done).                                            *)
(***************************************************************************)
EXTENDS Naturals, Sequences

CONSTANTS
    Modulus,                            \* 2^32
    FLASH_BASE_ADDR, FLASH_END_ADDR,
    Bank2Start,                         \* FLASH_BASE_ADDR + 0x00100000
    FLASH_PAGE_SIZE,
    APP_B_START_ADDR, APP_B_SIZE,
    OTA_METADATA_ADDR, OTA_METADATA_SIZE,
    Word,                               \* bytes of a double word: 8
    Blank                               \* the erased byte: 0xFF

ASSUME WidthAssumption ==
    Modulus \in Nat \ {0} /\ FLASH_PAGE_SIZE \in Nat \ {0} /\ Word \in Nat \ {0}
ASSUME LayoutAssumption ==
    /\ FLASH_BASE_ADDR \in Nat /\ Bank2Start \in Nat /\ FLASH_END_ADDR \in Nat
    /\ APP_B_START_ADDR \in Nat /\ APP_B_SIZE \in Nat
    /\ OTA_METADATA_ADDR \in Nat /\ OTA_METADATA_SIZE \in Nat
    /\ FLASH_BASE_ADDR <= Bank2Start /\ Bank2Start <= APP_B_START_ADDR
    /\ APP_B_START_ADDR + APP_B_SIZE <= OTA_METADATA_ADDR
    /\ OTA_METADATA_ADDR + OTA_METADATA_SIZE <= FLASH_END_ADDR
    /\ FLASH_END_ADDR < Modulus

(* Slot B and the metadata start and end with pages of bank 2.             *)
ASSUME PageAssumption ==
    /\ (APP_B_START_ADDR - Bank2Start) % FLASH_PAGE_SIZE = 0
    /\ (OTA_METADATA_ADDR - Bank2Start) % FLASH_PAGE_SIZE = 0
    /\ APP_B_SIZE % FLASH_PAGE_SIZE = 0
    /\ OTA_METADATA_SIZE % FLASH_PAGE_SIZE = 0

Address == FLASH_BASE_ADDR .. FLASH_END_ADDR - 1
U32     == 0 .. Modulus - 1

From(start, length) == {a \in Address : start <= a /\ a < start + length}
AppB     == From(APP_B_START_ADDR, APP_B_SIZE)
Metadata == From(OTA_METADATA_ADDR, OTA_METADATA_SIZE)

(* How many units hold n bytes.                                            *)
Units(n, unit) == (n + unit - 1) \div unit

(* Mutant: a sum that overflows is not noticed.                            *)
OverflowUnnoticed(address, length) ==
    LET end == (address + length) % Modulus IN
    \/ length = 0
    \/ address >= APP_B_START_ADDR /\ end <= APP_B_START_ADDR + APP_B_SIZE
    \/ address >= OTA_METADATA_ADDR /\ end <= OTA_METADATA_ADDR + OTA_METADATA_SIZE

WritableRange(address, length) ==
    LET end == (address + length) % Modulus IN
    \/ length = 0
    \/ /\ end >= address
       /\ \/ address >= APP_B_START_ADDR /\ end <= APP_B_START_ADDR + APP_B_SIZE
          \/ address >= OTA_METADATA_ADDR /\ end <= OTA_METADATA_ADDR + OTA_METADATA_SIZE

-----------------------------------------------------------------------------
(* Erase.                                                                  *)

BankStart(address) == IF address >= Bank2Start THEN Bank2Start ELSE FLASH_BASE_ADDR
PageFromAddr(address) == (address - BankStart(address)) \div FLASH_PAGE_SIZE

(* Mutant: one page too few when the length is a number of whole pages.    *)
PagesShort(length) == Units(length, FLASH_PAGE_SIZE) - 1
PageCount(length)  == Units(length, FLASH_PAGE_SIZE)

(* HAL_FLASHEx_Erase: done pages of a bank, from the first one upwards.    *)
Erase(mem, start, done) ==
    LET region == From(BankStart(start) + PageFromAddr(start) * FLASH_PAGE_SIZE,
                       done * FLASH_PAGE_SIZE)
    IN  [a \in Address |-> IF a \in region THEN Blank ELSE mem[a]]

EraseRange(mem, start, length, done) ==
    IF WritableRange(start, length)
      THEN [ok |-> done = PageCount(length), mem |-> Erase(mem, start, done)]
      ELSE [ok |-> FALSE, mem |-> mem]

-----------------------------------------------------------------------------
(* Write.                                                                  *)

(* HAL_FLASH_Program takes an aligned double word that has been erased.    *)
Programmable(mem, a) ==
    a % Word = 0 /\ \A b \in a .. a + Word - 1 : b \in Address /\ mem[b] = Blank

(* A short last double word is written with padding or not at all.         *)
WordsOf(length, pad) == IF pad THEN Units(length, Word) ELSE length \div Word

CheckedLength(length, pad) ==
    IF pad /\ length % Word # 0 THEN (Units(length, Word) * Word) % Modulus ELSE length

(* The double words before the first that cannot be programmed, at most    *)
(* done of them.                                                           *)
Written(mem, address, length, pad, done) ==
    {i \in 0 .. WordsOf(length, pad) - 1 :
        i < done /\ \A j \in 0..i : Programmable(mem, address + j * Word)}

Padding == Blank

Program(mem, address, data, words) ==
    [a \in Address |->
        IF \E i \in words : a \in address + i * Word .. address + i * Word + Word - 1
          THEN IF a - address < Len(data) THEN data[a - address + 1] ELSE Padding
          ELSE mem[a]]

Write(mem, address, data, pad, done) ==
    LET words == Written(mem, address, Len(data), pad, done)
    IN  IF WritableRange(address, CheckedLength(Len(data), pad))
          THEN [ok  |-> words = 0 .. Units(Len(data), Word) - 1,
                mem |-> Program(mem, address, data, words)]
          ELSE [ok |-> FALSE, mem |-> mem]
=============================================================================
