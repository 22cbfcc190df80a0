----------------------------- MODULE MCNesMain -----------------------------
(***************************************************************************)
(* 12 addresses: the RAM chip of 2 bytes twice at 0-3 and again at 4-5,    *)
(* nothing at 6, the ROM from 7, its two banks of 2 bytes from 8.  A       *)
(* cycle is 2 ticks of the clock and f32 is off by a quarter.  The files   *)
(* have 0 to 3 banks, a trainer or none, and may be cut or of another kind.*)
(***************************************************************************)
EXTENDS NesMain

Cartridge(prg, chr, trainer, size) ==
  [tag |-> TRUE, version |-> 0, prg |-> prg, chr |-> chr, trainer |-> trainer, size |-> size]

Good == {Cartridge(1, 1, TRUE, 22), Cartridge(3, 0, FALSE, 22)}

Bad ==
  {Cartridge(0, 1, FALSE, 17), Cartridge(2, 1, FALSE, 19), Cartridge(2, 0, TRUE, 20),
   [Cartridge(1, 0, FALSE, 18) EXCEPT !.tag = FALSE],
   [Cartridge(1, 0, FALSE, 18) EXCEPT !.version = 2],
   Cartridge(1, 0, FALSE, 3), Cartridge(1, 0, FALSE, 6)}

MCCartridges == Good \cup Bad

MCOps == {[len |-> 1, cycles |-> 2, jumps |-> FALSE],
          [len |-> 3, cycles |-> 3, jumps |-> TRUE]}
MCTicks == {-4, 3}
=============================================================================
