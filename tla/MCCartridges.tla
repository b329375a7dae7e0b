----------------------------- MODULE MCCartridges -----------------------------
(* Images of every mapper, mirroring and size that the mappers tell apart,
   with and without a trainer, one with a byte too few and one with a few too
   many, and one of an MMC1, whose registers are what is left to vary.  spare is what
   a file has behind its image. *)
EXTENDS Cartridges, Integers

File(mapper, bits, prg, chr, spare) ==
  [magic |-> TRUE, flags6 |-> 16 * mapper + bits, flags7 |-> 0, prg |-> prg, chr |-> chr,
   spare |-> spare,
   length |-> 16 + (IF bits \in {4, 5} THEN 512 ELSE 0) + 16384 * prg + 8192 * chr + spare]

MCImages ==
  {File(0, bits, prg, 1, spare) : bits \in {0, 1, 2, 4, 5, 8}, prg \in {1, 2}, spare \in {-1, 0, 9}}
  \cup {File(0, 1, 2, 0, 0), File(1, 0, 4, 2, 0), File(4, 0, 2, 1, 0)}
  \cup {File(2, bits, prg, 0, 0) : bits \in {0, 5}, prg \in {2, 8}}
  \cup {File(3, bits, prg, chr, 0) : bits \in {1, 4}, prg \in {1, 2}, chr \in {0, 1, 4}}
  \cup {File(7, bits, prg, 0, 0) : bits \in {0, 5}, prg \in {2, 16}}

\* For what the documentation says of boards that switch their name tables.
MCSwitching == {File(1, 0, 2, 1, 0)}
=============================================================================
