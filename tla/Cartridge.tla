----------------------------- MODULE Cartridge -----------------------------
(***************************************************************************)
(* The chips of the NES runner (src/src/bin/nes.rs): the iNES file that is *)
(* loaded, the ROM made of it, and the RAM chip, with their mirrors.  A    *)
(* byte of the ROM is the place in the file it was taken from.             *)
(***************************************************************************)
EXTENDS Integers, Sequences

CONSTANTS
  MaxAddr,      (* Last address: 65535.                                    *)
  BankSize,     (* PRG_ROM_PAGE_SIZE: 16384.                               *)
  ChrBankSize,  (* CHR_ROM_PAGE_SIZE: 8192.                                *)
  TrainerSize,  (* 512.                                                    *)
  ChipSize,     (* Bytes of the RAM chip: 2048.                            *)
  RamEnd,       (* RAM_MIRRORS_END: $1FFF.                                 *)
  PpuEnd,       (* PPU_REGISTERS_MIRRORS_END: $3FFF.                       *)
  RomStart      (* Where the ROM is mapped: $4020.                         *)

HeaderSize == 16

PrgStart == MaxAddr + 1 - 2 * BankSize

ASSUME LayoutAssumption ==
  /\ {MaxAddr, BankSize, ChrBankSize, TrainerSize, ChipSize, RamEnd, PpuEnd, RomStart} \subseteq Nat
  /\ 0 < ChipSize /\ 1 < BankSize
  /\ RamEnd < PpuEnd /\ PpuEnd < RomStart /\ RomStart <= PrgStart
  /\ (RamEnd + 1) % ChipSize = 0 /\ (PpuEnd + 1) % ChipSize = 0

(* A file by the fields of its header that decide anything, and its size.  *)
(* The mapper and the mirroring of the screen are stored and never used.   *)
Files == [tag: BOOLEAN, version: 0 .. 3, prg: Nat, chr: Nat, trainer: BOOLEAN, size: Nat]

----------------------------------------------------------------------------
(* Rom::new.                                                               *)

PrgRomStart(file) == HeaderSize + (IF file.trainer THEN TrainerSize ELSE 0)
PrgRomSize(file)  == file.prg * BankSize
ChrRomStart(file) == PrgRomStart(file) + PrgRomSize(file)
ChrRomEnd(file)   == ChrRomStart(file) + file.chr * ChrBankSize

(* Slices and indices past the end of the file panic; what is no iNES file *)
(* of version 0 is an Err.                                                 *)
RomNew(file) ==
  IF file.size < 4 THEN "panic"
  ELSE IF ~file.tag THEN "err"
  ELSE IF file.size < 8 THEN "panic"
  ELSE IF file.version # 0 THEN "err"
  ELSE IF ChrRomEnd(file) > file.size THEN "panic"
  ELSE "ok"

Rom(file) == [start |-> PrgRomStart(file), len |-> PrgRomSize(file)]

(* Fault: one bank is not mirrored.                                        *)
RomIndexUnmirrored(rom, addr) == addr - PrgStart

RomIndex(rom, addr) ==
  IF rom.len = BankSize THEN (addr - PrgStart) % BankSize ELSE addr - PrgStart

RomPanics(rom, addr) == addr >= PrgStart /\ RomIndex(rom, addr) >= rom.len

(* Below PrgStart the ROM answers 0; here, no byte of the file.            *)
RomRead(rom, addr) ==
  IF addr >= PrgStart THEN rom.start + RomIndex(rom, addr) ELSE 0

----------------------------------------------------------------------------
(* The RAM chip: the low bits of the address.                              *)

Mirror(addr) == addr % ChipSize

(* What main maps, in its order.                                           *)
Layout ==
  << [region |-> <<0, RamEnd>>, chip |-> "ram"],
     [region |-> <<RamEnd + 1, PpuEnd>>, chip |-> "ram"],
     [region |-> <<RomStart, MaxAddr>>, chip |-> "rom"] >>
=============================================================================
