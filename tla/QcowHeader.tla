------------------------------ MODULE QcowHeader ------------------------------
(***************************************************************************)
(* What an open makes of the file header: whether it takes the file, and   *)
(* the shifts, masks and sizes with which it finds its way from a media    *)
(* offset to a reference, and from a reference to a place in the file      *)
(* (libqcow_file_header and libqcow_internal_file_open_read).              *)
(*                                                                         *)
(* The numbers of the format are constants: the code has them as 64, 9, 3  *)
(* and 512.  A mask is the number of its bits.                             *)
(***************************************************************************)
EXTENDS Integers, Sequences

CONSTANTS
  Files,           \* the files that are opened, see FileHeader
  NoFile,          \* there is none: the inflater is called on its own
  Width,           \* bits of a reference and of an offset: 64
  SectorBits,      \* 2 ^ SectorBits is 512
  EntryBits,       \* 2 ^ EntryBits is the size of a reference, 8
  HeaderSize,      \* bytes read for the header: 512
  MaxAllocation,   \* MEMORY_MAXIMUM_ALLOCATION_SIZE
  MaxReferences    \* UINT32_MAX

ASSUME HeaderConstants ==
  /\ {Width, SectorBits, EntryBits, HeaderSize, MaxAllocation, MaxReferences}
       \subseteq Nat \ {0}
  /\ EntryBits < SectorBits
  /\ NoFile \notin Files

(* The fields of a header, as they are in the file.  size is that of the    *)
(* file, and signature tells whether it starts with the right bytes.        *)
FileHeader == [
  size : Nat, signature : BOOLEAN, format_version : Nat,
  number_of_cluster_block_bits : Nat, number_of_level2_table_bits : Nat,
  number_of_level1_table_references : Nat, media_size : Nat,
  encryption_method : {0, 1},
  level1_table_offset_is_negative : BOOLEAN,
  incompatible_feature_flags : Nat, compatible_feature_flags : Nat,
  header_size : Nat]

ASSUME FilesHaveHeaders == \A f \in Files : f.header \in FileHeader

VARIABLES
  file,          \* the file that is opened, or NoFile
  shifts,        \* of bits: see Shifts
  tables,        \* numbers of references of the tables: see Tables
  opening        \* "closed", "header", "shifts", "open" or "refused"

headerVars == <<file, shifts, tables, opening>>

header == file.header

Shifts == [number_of_level2_table_bits : Int, level1_index_bit_shift : Int,
           compression_bit_shift : Int, offset_bits : Int]
NoShifts == [number_of_level2_table_bits |-> 0, level1_index_bit_shift |-> 0,
             compression_bit_shift |-> 0, offset_bits |-> 0]

Tables == [level1_entries : Nat, level2_entries : Nat]
NoTables == [level1_entries |-> 0, level2_entries |-> 0]

HeaderInit ==
  /\ file \in Files
  /\ shifts = NoShifts
  /\ tables = NoTables
  /\ opening = "closed"

Refuse ==
  /\ opening' = "refused"
  /\ UNCHANGED <<file, shifts, tables>>

-----------------------------------------------------------------------------
(* The header.                                                             *)

FeaturesAreKnown(h) ==
  /\ h.incompatible_feature_flags <= 1
  /\ h.compatible_feature_flags <= 1
  /\ h.header_size \in {104, 112}

IsHeader(h) ==
  /\ h.size >= HeaderSize
  /\ h.signature
  /\ h.format_version \in 1..3
  /\ ~h.level1_table_offset_is_negative
  /\ h.format_version = 3 => FeaturesAreKnown(h)

ReadFileHeader ==
  /\ opening = "closed"
  /\ IsHeader(header)
  /\ opening' = "header"
  /\ UNCHANGED <<file, shifts, tables>>

CannotReadFileHeader ==
  /\ opening = "closed"
  /\ ~IsHeader(header)
  /\ Refuse

-----------------------------------------------------------------------------
(* Shifts and masks.                                                       *)

(* Mutant: the width itself is let through. *)
BitsAreWide(h) ==
  /\ h.number_of_cluster_block_bits <= Width
  /\ IF h.format_version = 1 THEN h.number_of_level2_table_bits < Width
     ELSE h.number_of_cluster_block_bits > SectorBits - 1

(* The smallest cluster block of version 2 and 3 is larger than half a      *)
(* sector; version 1 says how many references a level 2 table has.          *)
BitsAreValid(h) ==
  /\ h.number_of_cluster_block_bits < Width
  /\ IF h.format_version = 1 THEN h.number_of_level2_table_bits < Width
     ELSE h.number_of_cluster_block_bits > SectorBits - 1

Level2Bits(h) ==
  IF h.format_version = 1 THEN h.number_of_level2_table_bits
  ELSE h.number_of_cluster_block_bits - EntryBits

(* The highest bit, or the two highest, are flags; the size of a compressed *)
(* cluster block comes below them, in bytes or in sectors.                  *)
OffsetBits(h) == IF h.format_version = 1 THEN Width - 1 ELSE Width - 2

SizeBits(h) ==
  IF h.format_version = 1 THEN h.number_of_cluster_block_bits
  ELSE h.number_of_cluster_block_bits - (SectorBits - 1)

SetShifts ==
  /\ opening = "header"
  /\ BitsAreValid(header)
  /\ shifts' = [
       number_of_level2_table_bits |-> Level2Bits(header),
       level1_index_bit_shift |->
         header.number_of_cluster_block_bits + Level2Bits(header),
       compression_bit_shift |-> OffsetBits(header) - SizeBits(header),
       offset_bits |-> OffsetBits(header)]
  /\ opening' = "shifts"
  /\ UNCHANGED <<file, tables>>

CannotSetShifts ==
  /\ opening = "header"
  /\ ~BitsAreValid(header)
  /\ Refuse

-----------------------------------------------------------------------------
(* Sizes.                                                                  *)

cluster_block_size == 2 ^ header.number_of_cluster_block_bits
level2_entries == 2 ^ shifts.number_of_level2_table_bits

(* Bytes of media that one reference of the level 1 table of version 1 has. *)
level1_table_size == cluster_block_size * level2_entries

(* Mutant: what is left over has no reference. *)
WholeLevel1Entries ==
  IF header.format_version # 1 THEN header.number_of_level1_table_references
  ELSE header.media_size \div level1_table_size

Level1Entries ==
  IF header.format_version # 1 THEN header.number_of_level1_table_references
  ELSE (header.media_size \div level1_table_size)
         + (IF header.media_size % level1_table_size # 0 THEN 1 ELSE 0)

SizesAreValid ==
  /\ shifts.level1_index_bit_shift < Width
  /\ IF header.format_version = 1
     THEN /\ cluster_block_size <= MaxAllocation \div level2_entries
          /\ header.media_size \div level1_table_size <= MaxReferences - 1
     ELSE cluster_block_size <= MaxAllocation
  /\ Level1Entries > 0
  /\ Level1Entries <= MaxAllocation \div (2 ^ EntryBits)
  /\ level2_entries <= MaxAllocation \div (2 ^ EntryBits)

SetTables ==
  /\ opening = "shifts"
  /\ SizesAreValid
  /\ tables' = [level1_entries |-> Level1Entries,
                level2_entries |-> level2_entries]
  /\ opening' = "open"
  /\ UNCHANGED <<file, shifts>>

CannotSetTables ==
  /\ opening = "shifts"
  /\ ~SizesAreValid
  /\ Refuse

OpenRead ==
  \/ ReadFileHeader \/ CannotReadFileHeader
  \/ SetShifts \/ CannotSetShifts
  \/ SetTables \/ CannotSetTables

HeaderSpec == HeaderInit /\ [][OpenRead]_headerVars

-----------------------------------------------------------------------------
(* Every variable has its type. *)
HeaderTypeOK ==
  /\ file = NoFile \/ header \in FileHeader
  /\ shifts \in Shifts
  /\ tables \in Tables
  /\ opening \in {"closed", "header", "shifts", "open", "refused"}

(* No shift of the library is by the width of the number or more, or by     *)
(* less than nothing, which C leaves undefined: neither when the masks are  *)
(* made nor when an offset or a reference is taken apart with them, however *)
(* odd the header is (libqcow_internal_file_open_read).                     *)
ShiftsDefined ==
  opening \in {"shifts", "open"} =>
    /\ header.number_of_cluster_block_bits \in 0..(Width - 1)
    /\ shifts.number_of_level2_table_bits \in 0..(Width - 1)
    /\ shifts.compression_bit_shift \in 0..(Width - 1)
    /\ opening = "open" => shifts.level1_index_bit_shift \in 0..(Width - 1)

(* The three parts of a media offset make up the offset, and each of them   *)
(* has its place: the level 2 table has all the references that the index   *)
(* can ask for, and the level 1 table of version 1, whose size is worked    *)
(* out and not read, reaches to the end of the media and no further than it *)
(* must.                                                                    *)
OffsetsSplit ==
  opening = "open" =>
    LET cluster == 2 ^ header.number_of_cluster_block_bits
        table == 2 ^ shifts.level1_index_bit_shift
    IN  /\ table = cluster * tables.level2_entries
        /\ header.format_version = 1 =>
             /\ tables.level1_entries * table >= header.media_size
             /\ (tables.level1_entries - 1) * table < header.media_size
=============================================================================
