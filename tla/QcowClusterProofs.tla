-------------------------- MODULE QcowClusterProofs --------------------------
(***************************************************************************)
(* Theorems about QcowCluster, and about QcowHeader on its own: whatever   *)
(* is in the header of a file no shift of the library is undefined, the    *)
(* parts of an offset of the media make up the offset, each of them within *)
(* its table, and whatever the compressed data that a reference leads to   *)
(* the inflater stays in its buffers.  Of a file that was written as       *)
(* QcowFormat says, what was written is read.                              *)
(***************************************************************************)
EXTENDS QcowCluster, QcowFormat, QcowDeflateProofs

-----------------------------------------------------------------------------
(* The header.                                                             *)

(* The bits of the header that are let through are those the code compares, *)
(* and the shifts follow from them.                                         *)
ShiftsFollow ==
  opening \in {"shifts", "open"} =>
    /\ BitsAreValid(header)
    /\ shifts.number_of_level2_table_bits = Level2Bits(header)
    /\ shifts.level1_index_bit_shift =
         header.number_of_cluster_block_bits + Level2Bits(header)
    /\ shifts.compression_bit_shift = OffsetBits(header) - SizeBits(header)
    /\ shifts.offset_bits = OffsetBits(header)

(* The last shift is only tested with the sizes: an open that went through *)
(* them has it below the width.                                             *)
IndexShiftTested ==
  opening = "open" => shifts.level1_index_bit_shift < Width

(* The numbers of references of the tables are those that are worked out. *)
TablesFollow ==
  opening = "open" =>
    /\ tables.level1_entries = Level1Entries
    /\ tables.level2_entries = level2_entries

HeaderInv ==
  /\ file \in Files
  /\ shifts \in Shifts
  /\ tables \in Tables
  /\ opening \in {"closed", "header", "shifts", "open", "refused"}
  /\ ShiftsFollow
  /\ IndexShiftTested
  /\ TablesFollow

LEMMA HeaderOfFile ==
  ASSUME file \in Files
  PROVE  /\ header.number_of_cluster_block_bits \in Nat
         /\ header.number_of_level2_table_bits \in Nat
         /\ header.format_version \in Nat
BY FilesHaveHeaders DEF header, FileHeader

LEMMA ConstantsAreNumbers ==
  /\ Width \in Nat \ {0}
  /\ SectorBits \in Nat \ {0}
  /\ EntryBits \in Nat \ {0}
  /\ EntryBits < SectorBits
BY HeaderConstants

(* A level 2 table of version 2 and 3 has at least one reference, and the   *)
(* size of a compressed cluster block takes at least no bits and at most    *)
(* those below the flags.                                                   *)
LEMMA ValidBitsGiveShifts ==
  ASSUME file \in Files, BitsAreValid(header)
  PROVE  /\ header.number_of_cluster_block_bits \in 0..(Width - 1)
         /\ Level2Bits(header) \in 0..(Width - 1)
         /\ OffsetBits(header) - SizeBits(header) \in 0..(Width - 1)
<1> DEFINE c == header.number_of_cluster_block_bits
           l == header.number_of_level2_table_bits
           v == header.format_version
<1>1. c \in Nat /\ l \in Nat /\ v \in Nat
  BY HeaderOfFile
<1>2. c < Width
  BY DEF BitsAreValid
<1>3. CASE v = 1
  <2>1. l < Width
    BY <1>3 DEF BitsAreValid
  <2>2. Level2Bits(header) = l
    BY <1>3 DEF Level2Bits
  <2>3. OffsetBits(header) = Width - 1 /\ SizeBits(header) = c
    BY <1>3 DEF OffsetBits, SizeBits
  <2> QED
    BY <1>1, <1>2, <2>1, <2>2, <2>3, ConstantsAreNumbers
<1>4. CASE v # 1
  <2>1. c > SectorBits - 1
    BY <1>4 DEF BitsAreValid
  <2>2. Level2Bits(header) = c - EntryBits
    BY <1>4 DEF Level2Bits
  <2>3. OffsetBits(header) = Width - 2 /\ SizeBits(header) = c - (SectorBits - 1)
    BY <1>4 DEF OffsetBits, SizeBits
  <2> QED
    BY <1>1, <1>2, <2>1, <2>2, <2>3, ConstantsAreNumbers
<1> QED
  BY <1>3, <1>4

LEMMA HeaderInvInit == HeaderInit => HeaderInv
<1> SUFFICES ASSUME HeaderInit PROVE HeaderInv
  OBVIOUS
<1>1. NoShifts \in Shifts /\ NoTables \in Tables
  BY DEF NoShifts, Shifts, NoTables, Tables
<1> QED
  BY <1>1 DEF HeaderInit, HeaderInv, ShiftsFollow, IndexShiftTested, TablesFollow

(* Once the shifts are set, the sizes they give are numbers that are not 0. *)
LEMMA TableSizesAreNumbers ==
  ASSUME HeaderInv, opening \in {"shifts", "open"}
  PROVE  /\ cluster_block_size \in Nat \ {0}
         /\ level2_entries \in Nat \ {0}
         /\ level1_table_size \in Nat \ {0}
         /\ 2 ^ (header.number_of_cluster_block_bits + Level2Bits(header))
              = level1_table_size
         /\ Level1Entries \in Nat
<1>1. /\ header.number_of_cluster_block_bits \in Nat
      /\ Level2Bits(header) \in Nat
  <2>1. BitsAreValid(header) /\ file \in Files
    BY DEF HeaderInv, ShiftsFollow
  <2>2. /\ header.number_of_cluster_block_bits \in 0..(Width - 1)
        /\ Level2Bits(header) \in 0..(Width - 1)
    BY <2>1, ValidBitsGiveShifts
  <2> QED
    BY <2>2
<1>2. shifts.number_of_level2_table_bits = Level2Bits(header)
  BY DEF HeaderInv, ShiftsFollow
<1> DEFINE c == header.number_of_cluster_block_bits
           l == Level2Bits(header)
<1>3. cluster_block_size = 2 ^ c /\ level2_entries = 2 ^ l
  BY <1>2 DEF cluster_block_size, level2_entries
<1>4. 2 ^ c \in Nat \ {0} /\ 2 ^ l \in Nat \ {0}
  BY <1>1, PowerIsNat
<1>5. cluster_block_size \in Nat \ {0} /\ level2_entries \in Nat \ {0}
  BY <1>3, <1>4
<1>6. 2 ^ (c + l) = level1_table_size
  <2>1. 2 ^ (c + l) = (2 ^ c) * (2 ^ l)
    BY <1>1, PowerOfSum
  <2> QED
    BY <1>3, <2>1 DEF level1_table_size
<1>7. level1_table_size \in Nat \ {0}
  BY <1>5 DEF level1_table_size
<1>8. Level1Entries \in Nat
  <2> DEFINE m == header.media_size
             t == level1_table_size
  <2>1. m \in Nat /\ header.number_of_level1_table_references \in Nat
    BY FilesHaveHeaders DEF HeaderInv, header, FileHeader
  <2>2. m \div t \in Nat
    BY <1>7, <2>1, Division
  <2>3. CASE header.format_version # 1
    BY <2>1, <2>3 DEF Level1Entries
  <2>4. CASE header.format_version = 1
    <3>1. Level1Entries = (m \div t) + (IF m % t # 0 THEN 1 ELSE 0)
      BY <2>4 DEF Level1Entries
    <3> HIDE DEF m, t
    <3> QED
      BY <2>2, <3>1
  <2> QED
    BY <2>3, <2>4
<1> QED
  BY <1>5, <1>6, <1>7, <1>8, Zenon

LEMMA HeaderInvNext == HeaderInv /\ [OpenRead]_headerVars => HeaderInv'
<1> SUFFICES ASSUME HeaderInv, [OpenRead]_headerVars
             PROVE  HeaderInv'
  OBVIOUS
<1> USE DEF HeaderInv, header
<1>1. CASE ReadFileHeader
  BY <1>1 DEF ReadFileHeader, ShiftsFollow, IndexShiftTested, TablesFollow
<1>2. CASE CannotReadFileHeader \/ CannotSetShifts \/ CannotSetTables
  <2>1. opening' = "refused" /\ UNCHANGED <<file, shifts, tables>>
    BY <1>2 DEF CannotReadFileHeader, CannotSetShifts, CannotSetTables, Refuse
  <2> QED
    BY <2>1 DEF ShiftsFollow, IndexShiftTested, TablesFollow
<1>3. CASE SetShifts
  <2>1. file' = file /\ tables' = tables /\ opening' = "shifts"
        /\ BitsAreValid(header)
    BY <1>3 DEF SetShifts
  <2>2. shifts' = [
          number_of_level2_table_bits |-> Level2Bits(header),
          level1_index_bit_shift |->
            header.number_of_cluster_block_bits + Level2Bits(header),
          compression_bit_shift |-> OffsetBits(header) - SizeBits(header),
          offset_bits |-> OffsetBits(header)]
    BY <1>3 DEF SetShifts
  <2>3. ShiftsFollow'
    BY <2>1, <2>2 DEF ShiftsFollow
  <2>4. shifts' \in Shifts
    <3>1. /\ header.number_of_cluster_block_bits \in 0..(Width - 1)
          /\ Level2Bits(header) \in 0..(Width - 1)
          /\ OffsetBits(header) - SizeBits(header) \in 0..(Width - 1)
      BY <2>1, ValidBitsGiveShifts
    <3>2. OffsetBits(header) \in Int
      BY ConstantsAreNumbers DEF OffsetBits
    <3>3. /\ header.number_of_cluster_block_bits + Level2Bits(header) \in Int
          /\ Level2Bits(header) \in Int
          /\ OffsetBits(header) - SizeBits(header) \in Int
      BY <3>1, ConstantsAreNumbers
    <3> QED
      BY <2>2, <3>2, <3>3 DEF Shifts
  <2> QED
    BY <2>1, <2>3, <2>4 DEF IndexShiftTested, TablesFollow
<1>4. CASE SetTables
  <2>1. UNCHANGED <<file, shifts>> /\ opening = "shifts" /\ opening' = "open"
    BY <1>4 DEF SetTables
  <2>2. shifts.level1_index_bit_shift < Width
    BY <1>4 DEF SetTables, SizesAreValid
  <2>3. tables' = [level1_entries |-> Level1Entries,
                   level2_entries |-> level2_entries]
    BY <1>4 DEF SetTables
  <2>4. Level1Entries \in Nat /\ level2_entries \in Nat
    <3>1. opening \in {"shifts", "open"}
      BY <2>1
    <3> QED
      BY <3>1, TableSizesAreNumbers, Zenon
  <2>5. tables' \in Tables
    BY <2>3, <2>4 DEF Tables
  <2>6. TablesFollow'
    <3>1. Level1Entries' = Level1Entries /\ level2_entries' = level2_entries
      BY <2>1 DEF Level1Entries, level1_table_size, cluster_block_size,
                  level2_entries
    <3> QED
      BY <2>3, <3>1 DEF TablesFollow
  <2> QED
    BY <2>1, <2>2, <2>5, <2>6 DEF ShiftsFollow, IndexShiftTested
<1>5. CASE UNCHANGED headerVars
  BY <1>5 DEF headerVars, ShiftsFollow, IndexShiftTested, TablesFollow,
              Level1Entries, level1_table_size, cluster_block_size, level2_entries
<1> QED
  BY <1>1, <1>2, <1>3, <1>4, <1>5 DEF OpenRead

LEMMA HeaderInvImplies == HeaderInv => ShiftsDefined
<1> SUFFICES ASSUME HeaderInv, opening \in {"shifts", "open"}
             PROVE  /\ header.number_of_cluster_block_bits \in 0..(Width - 1)
                    /\ shifts.number_of_level2_table_bits \in 0..(Width - 1)
                    /\ shifts.compression_bit_shift \in 0..(Width - 1)
                    /\ opening = "open" =>
                         shifts.level1_index_bit_shift \in 0..(Width - 1)
  BY DEF ShiftsDefined
<1>1. file \in Files /\ BitsAreValid(header)
  BY DEF HeaderInv, ShiftsFollow
<1>2. /\ header.number_of_cluster_block_bits \in 0..(Width - 1)
      /\ Level2Bits(header) \in 0..(Width - 1)
      /\ OffsetBits(header) - SizeBits(header) \in 0..(Width - 1)
  BY <1>1, ValidBitsGiveShifts
<1>3. /\ shifts.number_of_level2_table_bits \in 0..(Width - 1)
      /\ shifts.compression_bit_shift \in 0..(Width - 1)
  BY <1>2 DEF HeaderInv, ShiftsFollow
<1>4. ASSUME opening = "open"
      PROVE  shifts.level1_index_bit_shift \in 0..(Width - 1)
  <2>1. shifts.level1_index_bit_shift =
          header.number_of_cluster_block_bits + Level2Bits(header)
    BY DEF HeaderInv, ShiftsFollow
  <2>2. shifts.level1_index_bit_shift < Width
    BY <1>4 DEF HeaderInv, IndexShiftTested
  <2> QED
    BY <1>2, <2>1, <2>2, ConstantsAreNumbers
<1> QED
  BY <1>2, <1>3, <1>4

LEMMA HeaderInvTyped == HeaderInv => HeaderTypeOK
BY FilesHaveHeaders DEF HeaderInv, HeaderTypeOK, header

(* The level 1 table of version 1 has one reference for each full table of  *)
(* references and one for the rest.                                         *)
LEMMA HeaderInvSplits == HeaderInv => OffsetsSplit
<1> DEFINE cluster == 2 ^ header.number_of_cluster_block_bits
           table == 2 ^ shifts.level1_index_bit_shift
           n == tables.level1_entries
           m == header.media_size
<1> SUFFICES ASSUME HeaderInv, opening = "open"
             PROVE  /\ table = cluster * tables.level2_entries
                    /\ header.format_version = 1 =>
                         n * table >= m /\ (n - 1) * table < m
  BY DEF OffsetsSplit
<1>1. /\ shifts.level1_index_bit_shift =
           header.number_of_cluster_block_bits + Level2Bits(header)
      /\ n = Level1Entries
      /\ tables.level2_entries = level2_entries
  BY DEF HeaderInv, ShiftsFollow, TablesFollow
<1>2. table = level1_table_size /\ table \in Nat \ {0}
  <2>1. opening \in {"shifts", "open"}
    OBVIOUS
  <2>2. /\ level1_table_size \in Nat \ {0}
        /\ 2 ^ (header.number_of_cluster_block_bits + Level2Bits(header))
             = level1_table_size
    BY <2>1, TableSizesAreNumbers, Zenon
  <2> QED
    BY <1>1, <2>2, Zenon
<1>3. table = cluster * tables.level2_entries
  BY <1>1, <1>2 DEF level1_table_size, cluster_block_size
<1>4. m \in Nat
  BY FilesHaveHeaders DEF HeaderInv, header, FileHeader
<1>5. ASSUME header.format_version = 1
      PROVE  n * table >= m /\ (n - 1) * table < m
  <2> DEFINE q == m \div table
             r == m % table
  <2>1. n = q + (IF r # 0 THEN 1 ELSE 0)
    BY <1>1, <1>2, <1>5 DEF Level1Entries
  <2>2. q \in Nat /\ r \in 0..(table - 1) /\ m = (q * table) + r
    BY <1>2, <1>4, Division
  <2> HIDE DEF n, table, m, q, r
  <2>3. q * table \in Nat
    BY <1>2, <2>2
  <2>4. (q + 1) * table = (q * table) + table
        /\ (q - 1) * table = (q * table) - table
    BY <1>2, <2>2
  <2>5. CASE r = 0
    <3>1. n = q /\ m = q * table
      BY <2>1, <2>2, <2>3, <2>5
    <3> QED
      BY <1>2, <2>3, <2>4, <3>1
  <2>6. CASE r # 0
    <3>1. n = q + 1 /\ n - 1 = q /\ r \in 1..(table - 1)
      BY <1>2, <2>1, <2>2, <2>6
    <3> QED
      BY <1>2, <2>2, <2>3, <2>4, <3>1
  <2> QED
    BY <2>5, <2>6
<1> QED
  BY <1>3, <1>5

(* The invariant holds, for every set of files. *)
LEMMA HeaderInvariance == HeaderSpec => []HeaderInv
BY HeaderInvInit, HeaderInvNext, PTL DEF HeaderSpec

(* Whatever the header says, and however wide numbers, sectors and          *)
(* references are, nothing is shifted by less than nothing or by the width  *)
(* of the number or more (libqcow_internal_file_open_read).                 *)
THEOREM ShiftsCorrect == HeaderSpec => []ShiftsDefined
BY HeaderInvariance, HeaderInvImplies, PTL

(* The masks and shifts of an offset and the sizes of the tables fit        *)
(* together, in every version and for every number of bits.                 *)
THEOREM SplitCorrect == HeaderSpec => []OffsetsSplit
BY HeaderInvariance, HeaderInvSplits, PTL

-----------------------------------------------------------------------------
(* A read.                                                                 *)

(* The inflater is called on its own. *)
OnlyInflater ==
  /\ file = NoFile
  /\ shifts = NoShifts
  /\ tables = NoTables
  /\ opening = "closed"
  /\ reading = "no"

(* What is read is in the media of an open file. *)
ReadInv ==
  /\ offset \in Nat
  /\ reference \in Nat
  /\ reading \in {"no", "reference", "compressed", "inflating", "plain",
                  "sparse", "error"}
  /\ reading # "no" =>
       opening = "open" /\ offset \in file.offsets /\ offset < header.media_size

(* The inflater has not started before a read calls it. *)
CallInv ==
  /\ input \in Inputs
  /\ file # NoFile /\ reading # "inflating" => NothingInflated

ClusterInv ==
  /\ OnlyInflater \/ HeaderInv
  /\ ReadInv
  /\ CallInv
  /\ InflaterInv

LEMMA FileOfHeader ==
  ASSUME OnlyInflater \/ HeaderInv, file # NoFile
  PROVE  HeaderInv
BY DEF OnlyInflater

LEMMA ClusterInvInit == Init => ClusterInv
<1> SUFFICES ASSUME Init PROVE ClusterInv
  OBVIOUS
<1>1. ReadInv
  BY DEF Init, ReadInv
<1>2. input \in Inputs
  <2>1. NoInput \in Inputs
    <3>1. <<>> \in Seq(Bytes)
      OBVIOUS
    <3> QED
      BY <3>1 DEF NoInput, Inputs
  <2> QED
    BY <2>1, CallsAreInputs DEF Init, InflaterInit
<1>3. NothingInflated
  BY DEF Init, InflaterInit
<1>4. OnlyInflater \/ HeaderInv
  BY HeaderInvInit DEF Init, OnlyInflater
<1> QED
  BY <1>1, <1>2, <1>3, <1>4, NothingInflatedInv DEF ClusterInv, CallInv

(* A step that leaves the inflater alone. *)
LEMMA InflaterKept ==
  ASSUME CallInv, InflaterInv, UNCHANGED inflaterVars, UNCHANGED file,
         reading' # "inflating" => reading # "inflating"
  PROVE  CallInv' /\ InflaterInv'
<1>1. InflaterInv'
  BY InflaterNextKeepsInv
<1>2. UNCHANGED <<input, byte_stream_offset, bit_buffer, last_block_flag,
                  literals_tree, distances_tree, codes_tree, code_size_array,
                  number_of_literal_codes, number_of_distance_codes,
                  compression_size, uncompressed_data, checksum, at>>
  BY DEF inflaterVars, stream, decoding, trees, sizes
<1>3. CallInv'
  BY <1>2 DEF CallInv, NothingInflated
<1> QED
  BY <1>1, <1>3

LEMMA OpenStepKeepsInv ==
  ASSUME ClusterInv, OpenStep
  PROVE  ClusterInv'
<1>1. HeaderInv /\ OpenRead /\ UNCHANGED <<inflaterVars, readVars>>
  BY FileOfHeader DEF ClusterInv, OpenStep
<1>2. HeaderInv'
  BY <1>1, HeaderInvNext
<1>3. file' = file /\ opening # "open"
  BY <1>1 DEF OpenRead, ReadFileHeader, CannotReadFileHeader, SetShifts,
              CannotSetShifts, SetTables, CannotSetTables, Refuse
<1>4. UNCHANGED <<offset, reference, reading>> /\ UNCHANGED inflaterVars
  BY <1>1 DEF readVars
<1>5. ReadInv'
  BY <1>3, <1>4 DEF ClusterInv, ReadInv
<1>6. CallInv' /\ InflaterInv'
  BY <1>3, <1>4, InflaterKept DEF ClusterInv
<1> QED
  BY <1>2, <1>5, <1>6 DEF ClusterInv

(* A step of a read that leaves the header and the inflater alone. *)
LEMMA ReadKeepsInv ==
  ASSUME ClusterInv, HeaderInv, UNCHANGED <<headerVars, inflaterVars>>, ReadInv',
         reading # "inflating"
  PROVE  ClusterInv'
<1>1. HeaderInv'
  BY HeaderInvNext
<1>2. UNCHANGED file /\ UNCHANGED inflaterVars
  BY DEF headerVars
<1>3. CallInv' /\ InflaterInv'
  BY <1>2, InflaterKept DEF ClusterInv
<1> QED
  BY <1>1, <1>3 DEF ClusterInv

(* The masks keep a reference a number. *)
LEMMA MaskedIsNumber ==
  ASSUME HeaderInv, opening = "open", NEW r \in Nat
  PROVE  Masked(r) \in Nat
<1> DEFINE under == r % (2 ^ shifts.offset_bits)
<1>1. shifts.offset_bits \in Nat
  <2>1. shifts.offset_bits = OffsetBits(header) /\ BitsAreValid(header)
        /\ file \in Files
    BY DEF HeaderInv, ShiftsFollow
  <2>2. header.number_of_cluster_block_bits \in Nat
    BY <2>1, HeaderOfFile
  <2>3. CASE header.format_version = 1
    BY <2>1, <2>3, ConstantsAreNumbers DEF OffsetBits
  <2>4. CASE header.format_version # 1
    BY <2>1, <2>2, <2>4, ConstantsAreNumbers DEF OffsetBits, BitsAreValid
  <2> QED
    BY <2>3, <2>4
<1>2. 2 ^ shifts.offset_bits \in Nat \ {0}
  BY <1>1, PowerIsNat
<1>3. under \in Nat
  <2>1. under \in 0..((2 ^ shifts.offset_bits) - 1)
    BY <1>2, Division
  <2> HIDE DEF under
  <2> QED
    BY <1>2, <2>1
<1> HIDE DEF under
<1>4. (under \div 2) * 2 \in Nat
  BY <1>3
<1>5. Masked(r) = under \/ Masked(r) = (under \div 2) * 2
  BY DEF Masked, under
<1> QED
  BY <1>3, <1>4, <1>5

LEMMA ReadBufferAtOffsetKeepsInv ==
  ASSUME ClusterInv, file # NoFile, NEW o \in file.offsets, ReadBufferAtOffset(o)
  PROVE  ClusterInv'
<1>1. HeaderInv
  BY FileOfHeader DEF ClusterInv
<1>2. o \in Nat
  BY <1>1, FilesHaveContents DEF HeaderInv
<1>3. /\ opening = "open" /\ reading = "no" /\ o < header.media_size
      /\ offset' = o /\ reading' = "reference"
      /\ UNCHANGED <<headerVars, inflaterVars>> /\ reference' = reference
  BY DEF ReadBufferAtOffset
<1>4. ReadInv'
  BY <1>2, <1>3 DEF ClusterInv, ReadInv, headerVars, header
<1> QED
  BY <1>1, <1>3, <1>4, ReadKeepsInv

LEMMA GetClusterBlockOffsetKeepsInv ==
  ASSUME ClusterInv, file # NoFile, GetClusterBlockOffset
  PROVE  ClusterInv'
<1>1. HeaderInv
  BY FileOfHeader DEF ClusterInv
<1>2. /\ reading = "reference" /\ offset' = offset
      /\ reference' = Masked(Found)
      /\ reading' \in {"sparse", "compressed", "plain"}
      /\ UNCHANGED <<headerVars, inflaterVars>>
  BY DEF GetClusterBlockOffset
<1>3. Found \in Nat
  BY <1>1, FilesHaveContents DEF HeaderInv, Found
<1>4. opening = "open"
  BY <1>2 DEF ClusterInv, ReadInv
<1>5. reference' \in Nat
  BY <1>1, <1>2, <1>3, <1>4, MaskedIsNumber
<1>6. ReadInv'
  BY <1>2, <1>5 DEF ClusterInv, ReadInv, headerVars, header
<1> QED
  BY <1>1, <1>2, <1>6, ReadKeepsInv

(* A read that fails, or turns to a plain cluster block. *)
LEMMA OtherReadsKeepInv ==
  ASSUME ClusterInv, file # NoFile,
         CannotGetClusterBlockOffset \/ ReadWithoutSize \/ CannotReadClusterBlock
  PROVE  ClusterInv'
<1>1. HeaderInv
  BY FileOfHeader DEF ClusterInv
<1>2. /\ reading \in {"reference", "compressed"}
      /\ reading' \in {"error", "plain"}
      /\ UNCHANGED <<headerVars, inflaterVars, offset, reference>>
  BY DEF CannotGetClusterBlockOffset, ReadWithoutSize, CannotReadClusterBlock
<1>3. ReadInv'
  BY <1>2 DEF ClusterInv, ReadInv, headerVars, header
<1> QED
  BY <1>1, <1>2, <1>3, ReadKeepsInv

(* What is read of the file for a reference is a part of it. *)
LEMMA CompressedDataOfFile ==
  ASSUME ClusterInv, file # NoFile, reading = "compressed", CanReadCompressed,
         ReadSize > 0
  PROVE  CompressedData \in Seq(Bytes)
<1>1. HeaderInv /\ opening = "open" /\ offset \in file.offsets /\ reference \in Nat
  BY FileOfHeader DEF ClusterInv, ReadInv
<1>2. file.contents \in Seq(Bytes) /\ header.size = Len(file.contents)
  BY <1>1, FilesHaveContents DEF HeaderInv, header
<1> DEFINE b == 2 ^ shifts.compression_bit_shift
           s == cluster_block_size
           o == compressed_offset
           n == ReadSize
<1>3. b \in Nat \ {0}
  <2>1. ShiftsDefined
    BY <1>1, HeaderInvImplies
  <2>2. shifts.compression_bit_shift \in 0..(Width - 1)
    BY <1>1, <2>1 DEF ShiftsDefined
  <2>3. shifts.compression_bit_shift \in Nat
    BY <2>2
  <2> QED
    BY <2>3, PowerIsNat
<1>4. o \in Nat
  <2>1. o \in 0..(b - 1)
    BY <1>1, <1>3, Division DEF compressed_offset
  <2> HIDE DEF o, b
  <2> QED
    BY <1>3, <2>1
<1>5. n \in Int
  <2>1. compressed_size \in Nat
    BY <1>1, <1>3, Division DEF compressed_size
  <2>2. s \in Nat \ {0}
    BY <1>1, TableSizesAreNumbers
  <2>3. EndOfCompressed \in Int
    <3> DEFINE c == (o + s - 1) \div s
    <3>1. o + s - 1 \in Nat
      BY <1>4, <2>2
    <3>2. c \in Nat
      BY <2>2, <3>1, Division
    <3>3. EndOfCompressed = Least((c + 1) * s, header.size)
      BY DEF EndOfCompressed
    <3> HIDE DEF c, s
    <3>4. (c + 1) * s \in Int /\ header.size \in Int
      BY <1>2, <2>2, <3>2
    <3> QED
      BY <3>3, <3>4 DEF Least
  <2>4. 2 ^ SectorBits \in Nat
    BY ConstantsAreNumbers, PowerIsNat
  <2> DEFINE x == (compressed_size + 1) * (2 ^ SectorBits)
             y == EndOfCompressed - o
  <2>5. n = compressed_size \/ n = x \/ n = y
    BY DEF ReadSize, Least
  <2>6. x \in Int
    BY <2>1, <2>4
  <2> HIDE DEF o
  <2>7. y \in Int
    BY <1>4, <2>3
  <2> HIDE DEF n, x, y
  <2> QED
    BY <2>1, <2>5, <2>6, <2>7
<1>6. n > 0 /\ o + n <= Len(file.contents)
  BY <1>2 DEF CanReadCompressed
<1>7. CompressedData = SubSeq(file.contents, o + 1, o + n)
  BY DEF CompressedData
<1> HIDE DEF o, n
<1>8. SubSeq(file.contents, o + 1, o + n) \in Seq(Bytes)
  <2>1. o + 1 \in Nat /\ o + n \in Nat /\ 1 <= o + 1 /\ o + n <= Len(file.contents)
        /\ o + 1 <= (o + n) + 1
    BY <1>4, <1>5, <1>6
  <2> HIDE DEF o, n
  <2> QED
    BY <1>2, <2>1, SubSeqOf
<1> QED
  BY <1>7, <1>8

LEMMA ReadClusterBlockKeepsInv ==
  ASSUME ClusterInv, file # NoFile, ReadClusterBlock
  PROVE  ClusterInv'
<1>1. HeaderInv /\ offset \in file.offsets /\ file \in Files
  BY FileOfHeader DEF ClusterInv, ReadInv, ReadClusterBlock, HeaderInv
<1>2. /\ reading = "compressed" /\ reading' = "inflating"
      /\ UNCHANGED headerVars /\ UNCHANGED <<offset, reference>>
      /\ UNCHANGED <<stream, decoding, uncompressed_data, checksum, at>>
  BY DEF ReadClusterBlock
<1>3. input' \in Inputs
  <2> DEFINE text == IF file.sound THEN file.streams[offset].text ELSE <<>>
  <2>1. input' = [data |-> CompressedData, size |-> cluster_block_size,
                  zlib |-> FALSE, text |-> text, damage |-> Damage(CompressedData)]
    BY DEF ReadClusterBlock
  <2>2. CompressedData \in Seq(Bytes)
    BY CompressedDataOfFile DEF ReadClusterBlock
  <2>3. cluster_block_size \in Nat
    <3>1. opening \in {"shifts", "open"}
      BY <1>2 DEF ClusterInv, ReadInv
    <3> QED
      BY <1>1, <3>1, TableSizesAreNumbers
  <2>4. text \in Seq(Bytes)
    <3>1. CASE file.sound
      <4>1. file.streams[offset] \in [bytes : Seq(Bytes), text : Seq(Bytes)]
        BY <1>1, <3>1, WellWritten
      <4> QED
        BY <3>1, <4>1
    <3>2. CASE ~file.sound
      BY <3>2
    <3> QED
      BY <3>1, <3>2
  <2>5. Damage(CompressedData) \in {"none", "cut", "altered"}
    BY DEF Damage
  <2> HIDE DEF text
  <2> QED
    BY <2>1, <2>2, <2>3, <2>4, <2>5 DEF Inputs
<1>4. NothingInflated'
  <2>1. NothingInflated
    BY <1>2 DEF ClusterInv, CallInv
  <2> QED
    BY <1>2, <2>1 DEF NothingInflated, stream, decoding, trees, sizes
<1>5. (NothingInflated /\ input \in Inputs => InflaterInv)'
  BY NothingInflatedInv, PTL
<1>6. ReadInv'
  BY <1>2 DEF ClusterInv, ReadInv, headerVars, header
<1>7. HeaderInv'
  BY <1>1, <1>2, HeaderInvNext
<1> QED
  BY <1>2, <1>3, <1>4, <1>5, <1>6, <1>7 DEF ClusterInv, CallInv

LEMMA InflaterStepKeepsInv ==
  ASSUME ClusterInv, InflaterStep
  PROVE  ClusterInv'
<1>1. /\ file = NoFile \/ reading = "inflating"
      /\ InflaterNext /\ UNCHANGED headerVars /\ UNCHANGED readVars
  BY DEF InflaterStep
<1>2. InflaterInv'
  BY <1>1, InflaterNextKeepsInv DEF ClusterInv
<1>3. /\ UNCHANGED <<file, shifts, tables, opening>>
      /\ UNCHANGED <<offset, reference, reading>>
  BY <1>1 DEF headerVars, readVars
<1>4. CallInv'
  BY <1>1, <1>3, InflaterKeepsInput DEF ClusterInv, CallInv
<1>5. ReadInv'
  BY <1>3 DEF ClusterInv, ReadInv, header
<1>6. (OnlyInflater \/ HeaderInv)'
  <2>1. CASE OnlyInflater
    BY <1>3, <2>1 DEF OnlyInflater
  <2>2. CASE HeaderInv
    BY <1>1, <2>2, HeaderInvNext
  <2> QED
    BY <2>1, <2>2 DEF ClusterInv
<1> QED
  BY <1>2, <1>4, <1>5, <1>6 DEF ClusterInv

LEMMA ClusterInvNext == ClusterInv /\ [Next]_vars => ClusterInv'
<1> SUFFICES ASSUME ClusterInv, [Next]_vars PROVE ClusterInv'
  OBVIOUS
<1>1. CASE OpenStep
  BY <1>1, OpenStepKeepsInv
<1>2. CASE file # NoFile /\ ReadStep
  BY <1>2, ReadBufferAtOffsetKeepsInv, GetClusterBlockOffsetKeepsInv,
     OtherReadsKeepInv, ReadClusterBlockKeepsInv DEF ReadStep
<1>3. CASE InflaterStep
  BY <1>3, InflaterStepKeepsInv
<1>4. CASE UNCHANGED vars
  <2>1. /\ UNCHANGED headerVars /\ UNCHANGED inflaterVars
        /\ UNCHANGED <<file, shifts, tables, opening>>
        /\ UNCHANGED <<offset, reference, reading>>
    BY <1>4 DEF vars, headerVars, readVars
  <2>2. CallInv' /\ InflaterInv'
    BY <2>1, InflaterKept DEF ClusterInv
  <2>3. ReadInv'
    BY <2>1 DEF ClusterInv, ReadInv, header
  <2>4. (OnlyInflater \/ HeaderInv)'
    <3>1. CASE OnlyInflater
      BY <2>1, <3>1 DEF OnlyInflater
    <3>2. CASE HeaderInv
      BY <2>1, <3>2, HeaderInvNext
    <3> QED
      BY <3>1, <3>2 DEF ClusterInv
  <2> QED
    BY <2>2, <2>3, <2>4 DEF ClusterInv
<1> QED
  BY <1>1, <1>2, <1>3, <1>4 DEF Next

(* The invariant holds, for every set of files and calls. *)
THEOREM ClusterInvariance == Spec => []ClusterInv
BY ClusterInvInit, ClusterInvNext, PTL DEF Spec

LEMMA ClusterInvTyped == ClusterInv => TypeOK
<1> SUFFICES ASSUME ClusterInv PROVE TypeOK
  OBVIOUS
<1>1. HeaderTypeOK
  <2>1. CASE OnlyInflater
    <3>1. NoShifts \in Shifts /\ NoTables \in Tables
      BY DEF NoShifts, Shifts, NoTables, Tables
    <3> QED
      BY <2>1, <3>1 DEF OnlyInflater, HeaderTypeOK
  <2>2. CASE HeaderInv
    BY <2>2, HeaderInvTyped
  <2> QED
    BY <2>1, <2>2 DEF ClusterInv
<1> QED
  BY <1>1, InvTyped DEF ClusterInv, TypeOK, ReadInv, CallInv

LEMMA ClusterInvShifts == ClusterInv => ShiftsDefined /\ OffsetsSplit
<1> SUFFICES ASSUME ClusterInv PROVE ShiftsDefined /\ OffsetsSplit
  OBVIOUS
<1>1. CASE OnlyInflater
  BY <1>1 DEF OnlyInflater, ShiftsDefined, OffsetsSplit
<1>2. CASE HeaderInv
  BY <1>2, HeaderInvImplies, HeaderInvSplits
<1> QED
  BY <1>1, <1>2 DEF ClusterInv

LEMMA ClusterInvInflates == ClusterInv => BitsInOrder /\ StaysInBuffer
BY InvInOrder, InvStays DEF ClusterInv

(* Every variable has its type, whatever is in the file.  In particular     *)
(* what is handed to the inflater is always a part of the file, and the     *)
(* inflater starts with nothing of an earlier one (read_cluster_block).     *)
THEOREM TypeCorrect == Spec => []TypeOK
BY ClusterInvariance, ClusterInvTyped, PTL

(* No shift is undefined, while a file is opened and while it is read, even *)
(* of references that are nonsense (get_cluster_block_offset).              *)
THEOREM ShiftsOfReadsCorrect == Spec => []ShiftsDefined
BY ClusterInvariance, ClusterInvShifts, PTL

(* The sizes of the tables fit the parts of the offsets that are read.      *)
THEOREM SplitOfReadsCorrect == Spec => []OffsetsSplit
BY ClusterInvariance, ClusterInvShifts, PTL

(* Nothing is written past the cluster block, whatever a reference leads to *)
(* (read_cluster_block, which hands the size of the buffer on).             *)
THEOREM ReadStaysInBuffer == Spec => []StaysInBuffer
BY ClusterInvariance, ClusterInvInflates, PTL

(* The bits of a compressed cluster block are delivered in their order,     *)
(* wherever in the file it is.                                              *)
THEOREM ReadKeepsBitsInOrder == Spec => []BitsInOrder
BY ClusterInvariance, ClusterInvInflates, PTL

(* The parts that an offset of a read is taken apart into make up the       *)
(* offset.  The second index is within the level 2 table, which is not      *)
(* checked again, and in version 1, of which the size of the level 1 table  *)
(* is worked out, so is the first: no offset before the end of the media    *)
(* has no place (libqcow_internal_file_get_cluster_block_offset).           *)
PartsInTables ==
  reading # "no" =>
    /\ offset = (level1_table_index * (2 ^ shifts.level1_index_bit_shift))
                  + (level2_table_index * cluster_block_size)
                  + cluster_block_data_offset
    /\ level2_table_index \in 0..(tables.level2_entries - 1)
    /\ cluster_block_data_offset \in 0..(cluster_block_size - 1)
    /\ header.format_version = 1 =>
         level1_table_index \in 0..(tables.level1_entries - 1)

LEMMA ClusterInvParts == ClusterInv => PartsInTables
<1> DEFINE c == cluster_block_size
           e == level2_entries
           t == 2 ^ shifts.level1_index_bit_shift
           o == offset
           n == tables.level1_entries
           m == header.media_size
<1> SUFFICES ASSUME ClusterInv, reading # "no"
             PROVE  /\ o = ((o \div t) * t) + (((o \div c) % e) * c) + (o % c)
                    /\ (o \div c) % e \in 0..(tables.level2_entries - 1)
                    /\ o % c \in 0..(c - 1)
                    /\ header.format_version = 1 => o \div t \in 0..(n - 1)
  BY DEF PartsInTables, level1_table_index, level2_table_index,
         cluster_block_data_offset, level2_entries
<1>1. HeaderInv /\ opening = "open" /\ o \in Nat /\ o < m
  BY DEF ClusterInv, OnlyInflater, ReadInv
<1>2. /\ c \in Nat \ {0} /\ e \in Nat \ {0}
      /\ 2 ^ (header.number_of_cluster_block_bits + Level2Bits(header))
           = level1_table_size
  BY <1>1, TableSizesAreNumbers
<1>3. /\ tables.level2_entries = e /\ n \in Nat
      /\ shifts.level1_index_bit_shift =
           header.number_of_cluster_block_bits + Level2Bits(header)
  BY <1>1 DEF HeaderInv, ShiftsFollow, TablesFollow, Tables
<1>4. t = c * e
  BY <1>2, <1>3 DEF level1_table_size
<1>5. OffsetsSplit
  BY <1>1, HeaderInvSplits
<1>6. m \in Nat
  BY <1>1, FilesHaveHeaders DEF HeaderInv, header, FileHeader
<1>7. header.format_version = 1 => n * t >= m
  BY <1>1, <1>5 DEF OffsetsSplit
<1> HIDE DEF c, e, t, o, n, m
<1>8. o = ((o \div t) * t) + (((o \div c) % e) * c) + (o % c)
  BY <1>1, <1>2, <1>4, DivisionTwice
<1>9. o \div c \in Nat /\ o % c \in 0..(c - 1)
  BY <1>1, <1>2, Division
<1>10. (o \div c) % e \in 0..(tables.level2_entries - 1)
  BY <1>2, <1>3, <1>9, Division
<1>11. t \in Nat \ {0}
  BY <1>2, <1>4
<1>12. ASSUME header.format_version = 1 PROVE o \div t \in 0..(n - 1)
  <2> DEFINE k == o \div t
  <2>1. k \in Nat /\ o % t \in 0..(t - 1) /\ o = (k * t) + (o % t)
    BY <1>1, <1>11, Division
  <2> HIDE DEF k
  <2>2. k * t <= o
    BY <1>1, <1>11, <2>1
  <2>3. k * t \in Int /\ n * t \in Int
    BY <1>3, <1>11, <2>1
  <2>4. k * t < n * t
    BY <1>1, <1>6, <1>7, <1>12, <2>2, <2>3
  <2>5. k < n
    BY <1>3, <1>11, <2>1, <2>4, FewerTimes
  <2> QED
    BY <1>3, <2>1, <2>5 DEF k
<1> QED
  BY <1>8, <1>9, <1>10, <1>12

(* No part of an offset that is read leads out of its table.                *)
THEOREM PartsStayInTables == Spec => []PartsInTables
BY ClusterInvariance, ClusterInvParts, PTL

-----------------------------------------------------------------------------
(* A reader takes apart what a writer has added up.                         *)

LEMMA DividedBack ==
  ASSUME NEW a \in Nat, NEW b \in Nat, NEW p \in Nat \ {0}, b < p
  PROVE  ((a * p) + b) \div p = a /\ ((a * p) + b) % p = b
<1> DEFINE x == (a * p) + b
           q == x \div p
           r == x % p
<1>1. x \in Nat
  OBVIOUS
<1>2. q \in Nat /\ r \in 0..(p - 1) /\ x = (q * p) + r
  BY <1>1, Division
<1>3. x = (a * p) + b
  OBVIOUS
<1> HIDE DEF x, q, r
<1>4. r \in Nat /\ r < p
  BY <1>2
<1>5. (q + 1) * p = (q * p) + p /\ (a + 1) * p = (a * p) + p
      /\ q * p \in Nat /\ a * p \in Nat
  BY <1>2
<1>6. a * p < (q + 1) * p /\ q * p < (a + 1) * p
  BY <1>2, <1>3, <1>4, <1>5
<1>7. a < q + 1 /\ q < a + 1
  BY <1>2, <1>6, FewerTimes
<1>8. q = a
  BY <1>2, <1>7
<1>9. r = b
  BY <1>2, <1>3, <1>4, <1>5, <1>8
<1> QED
  BY <1>8, <1>9 DEF q, r, x

LEMMA LessPower ==
  ASSUME NEW m \in Nat, NEW n \in Nat, 2 ^ m < 2 ^ n
  PROVE  m < n
<1> SUFFICES ASSUME n <= m PROVE FALSE
  OBVIOUS
<1> DEFINE d == m - n
<1>1. d \in Nat /\ m = n + d
  OBVIOUS
<1> HIDE DEF d
<1>2. 2 ^ m = (2 ^ n) * (2 ^ d)
  BY <1>1, PowerOfSum
<1>3. 2 ^ n \in Nat \ {0} /\ 2 ^ d \in Nat \ {0} /\ 2 ^ m \in Nat \ {0}
  BY <1>1, PowerIsNat
<1> DEFINE x == 2 ^ n
           y == 2 ^ d
           z == 2 ^ m
<1>4. z = x * y /\ x \in Nat /\ y \in Nat \ {0} /\ z \in Nat /\ z < x
  BY <1>2, <1>3
<1> HIDE DEF x, y, z
<1>5. x * y = x + (x * (y - 1)) /\ x * (y - 1) \in Nat
  BY <1>4
<1> QED
  BY <1>4, <1>5

(* A power that is not 1 is even. *)
LEMMA EvenPower ==
  ASSUME NEW n \in Nat, NEW p \in Nat, p < 2 ^ n, p # 0
  PROVE  n # 0 /\ \E half \in Nat : 2 ^ n = 2 * half
<1>1. n # 0
  <2> SUFFICES ASSUME n = 0 PROVE FALSE
    OBVIOUS
  <2>1. 2 ^ 0 = 1
    OBVIOUS
  <2>2. p < 1
    BY <2>1
  <2> QED
    BY <2>2
<1>2. n - 1 \in Nat /\ (n - 1) + 1 = n
  BY <1>1
<1>3. 2 ^ n = 2 * (2 ^ (n - 1)) /\ 2 ^ (n - 1) \in Nat
  BY <1>2, NextPower
<1> QED
  BY <1>1, <1>3

(* How many sectors after the first are touched by so many bytes. *)
LEMMA SectorsTouched ==
  ASSUME NEW S \in Nat \ {0}, NEW t \in Nat, NEW p \in Nat, NEW n \in Nat \ {0},
         n <= S * t
  PROVE  LET k == ((p + n - 1) \div S) - (p \div S)
         IN  k \in Nat /\ k <= t /\ n <= (k + 1) * S
<1> DEFINE x == p + n - 1
           a == p \div S
           c == x \div S
           u == p % S
           v == x % S
<1>1. x \in Nat
  OBVIOUS
<1>2. a \in Nat /\ u \in 0..(S - 1) /\ p = (a * S) + u
  BY Division
<1>3. c \in Nat /\ v \in 0..(S - 1) /\ x = (c * S) + v
  BY <1>1, Division
<1>4. x = p + n - 1
  OBVIOUS
<1> HIDE DEF x, a, c, u, v
<1>5. u \in Nat /\ v \in Nat /\ u < S /\ v < S
  BY <1>2, <1>3
<1>6. a <= c
  <2>1. a * S < (c + 1) * S
    <3>1. (c + 1) * S = (c * S) + S /\ a * S \in Nat /\ c * S \in Nat
      BY <1>2, <1>3
    <3> QED
      BY <1>2, <1>3, <1>4, <1>5, <3>1
  <2>2. a < c + 1
    BY <1>2, <1>3, <2>1, FewerTimes
  <2> QED
    BY <1>2, <1>3, <2>2
<1>7. c <= a + t
  <2>1. c * S < (a + t + 1) * S
    <3>1. (a + t + 1) * S = (a * S) + (S * t) + S
      BY <1>2
    <3>2. a * S \in Nat /\ c * S \in Nat /\ S * t \in Nat
      BY <1>2, <1>3
    <3> QED
      BY <1>2, <1>3, <1>4, <1>5, <3>1, <3>2
  <2>2. c < a + t + 1
    <3>1. a + t + 1 \in Nat
      BY <1>2
    <3> QED
      BY <1>3, <2>1, <3>1, FewerTimes
  <2> QED
    BY <1>2, <1>3, <2>2
<1>8. n <= (c - a + 1) * S
  <2>1. (c - a + 1) * S = (c * S) - (a * S) + S /\ a * S \in Nat /\ c * S \in Nat
    BY <1>2, <1>3
  <2> QED
    BY <1>2, <1>3, <1>4, <1>5, <2>1
<1>9. c - a \in Nat /\ c - a <= t
  BY <1>2, <1>3, <1>6, <1>7
<1> QED
  BY <1>8, <1>9 DEF x, a, c

-----------------------------------------------------------------------------
(* The sizes and shifts of a header, as a writer and as a reader sees them. *)

LEMMA SizesOfHeader ==
  ASSUME file \in Files, BitsAreValid(header)
  PROVE  /\ ClusterBytes(header) \in Nat \ {0}
         /\ TableReferences(header) = 2 ^ Level2Bits(header)
         /\ TableReferences(header) \in Nat \ {0}
         /\ TableBytes(header) =
              2 ^ (header.number_of_cluster_block_bits + Level2Bits(header))
         /\ TableBytes(header) \in Nat \ {0}
<1> DEFINE c == header.number_of_cluster_block_bits
           l == Level2Bits(header)
<1>1. c \in Nat /\ l \in Nat
  <2>1. c \in 0..(Width - 1) /\ l \in 0..(Width - 1)
    BY ValidBitsGiveShifts
  <2> QED
    BY <2>1
<1>2. 2 ^ c \in Nat \ {0} /\ 2 ^ l \in Nat \ {0}
  BY <1>1, PowerIsNat
<1>3. TableReferences(header) = 2 ^ l
  <2>1. CASE header.format_version = 1
    BY <2>1 DEF TableReferences, Level2Bits
  <2>2. CASE header.format_version # 1
    <3>1. l = c - EntryBits
      BY <2>2 DEF Level2Bits
    <3>2. EntryBits \in Nat
      BY ConstantsAreNumbers
    <3>3. c = l + EntryBits
      BY <1>1, <3>1, <3>2
    <3>4. 2 ^ c = (2 ^ l) * (2 ^ EntryBits)
      BY <1>1, <3>2, <3>3, PowerOfSum
    <3> DEFINE x == 2 ^ l
               y == 2 ^ EntryBits
    <3>5. x \in Nat /\ y \in Nat \ {0}
      BY <1>2, <3>2, PowerIsNat
    <3> HIDE DEF x, y
    <3>6. ((x * y) + 0) \div y = x
      BY <3>5, DividedBack
    <3>7. (x * y) + 0 = x * y
      BY <3>5
    <3>8. 2 ^ c = x * y
      BY <3>4 DEF x, y
    <3>9. TableReferences(header) = (2 ^ c) \div y
      BY <2>2 DEF TableReferences, ClusterBytes, y
    <3> QED
      BY <3>6, <3>7, <3>8, <3>9 DEF x
  <2> QED
    BY <2>1, <2>2
<1>4. 2 ^ (c + l) = (2 ^ c) * (2 ^ l)
  BY <1>1, PowerOfSum
<1>5. ClusterBytes(header) = 2 ^ c
  BY DEF ClusterBytes
<1>6. TableBytes(header) = 2 ^ (c + l)
  BY <1>3, <1>4, <1>5 DEF TableBytes
<1>7. (2 ^ c) * (2 ^ l) \in Nat \ {0}
  <2> DEFINE x == 2 ^ c
             y == 2 ^ l
  <2>1. x \in Nat \ {0} /\ y \in Nat \ {0}
    BY <1>2
  <2> HIDE DEF x, y
  <2>2. x * y \in Nat \ {0}
    BY <2>1
  <2> QED
    BY <2>2 DEF x, y
<1> QED
  BY <1>2, <1>3, <1>4, <1>5, <1>6, <1>7, Zenon

LEMMA PlaceBitsAre ==
  ASSUME file \in Files, BitsAreValid(header)
  PROVE  /\ PlaceBits(header) = OffsetBits(header) - SizeBits(header)
         /\ PlaceBits(header) \in Nat
         /\ SizeBits(header) \in Nat
         /\ OffsetBits(header) \in Nat
         /\ OffsetBits(header) = SizeBits(header) + PlaceBits(header)
         /\ FlagOf(header) = 2 ^ OffsetBits(header)
<1> DEFINE c == header.number_of_cluster_block_bits
<1>1. c \in Nat /\ Width \in Nat \ {0} /\ SectorBits \in Nat
      /\ header.format_version \in Nat
  BY HeaderOfFile, ConstantsAreNumbers
<1>2. PlaceBits(header) = OffsetBits(header) - SizeBits(header)
  BY DEF PlaceBits, OffsetBits, SizeBits
<1>3. PlaceBits(header) \in Nat
  <2>1. OffsetBits(header) - SizeBits(header) \in 0..(Width - 1)
    BY ValidBitsGiveShifts
  <2> QED
    BY <1>1, <1>2, <2>1
<1>4. SizeBits(header) \in Nat
  <2>1. CASE header.format_version = 1
    BY <1>1, <2>1 DEF SizeBits
  <2>2. CASE header.format_version # 1
    BY <1>1, <2>2 DEF SizeBits, BitsAreValid
  <2> QED
    BY <2>1, <2>2
<1>5. OffsetBits(header) \in Int
  BY <1>1 DEF OffsetBits
<1>6. OffsetBits(header) = SizeBits(header) + PlaceBits(header)
      /\ OffsetBits(header) \in Nat
  BY <1>2, <1>3, <1>4, <1>5
<1>7. FlagOf(header) = 2 ^ OffsetBits(header)
  BY DEF FlagOf, OffsetBits
<1> QED
  BY <1>2, <1>3, <1>4, <1>6, <1>7

(* The size that a reference says is below its flag, and enough.            *)
LEMMA SizeFits ==
  ASSUME file \in Files, BitsAreValid(header), NEW place \in Nat,
         NEW n \in Nat \ {0}, n <= ClusterBytes(header),
         CanReferTo(header, place, n)
  PROVE  LET k == SizeOf(header, place, n)
         IN  /\ k \in Nat
             /\ k < 2 ^ SizeBits(header)
             /\ header.format_version # 1 => n <= (k + 1) * (2 ^ SectorBits)
<1> DEFINE c == header.number_of_cluster_block_bits
           k == SizeOf(header, place, n)
<1>1. c \in Nat /\ SectorBits \in Nat \ {0} /\ header.format_version \in Nat
  BY HeaderOfFile, ConstantsAreNumbers
<1>2. CASE header.format_version = 1
  BY <1>2 DEF SizeOf, SizeBits, CanReferTo, ClusterBytes
<1>3. CASE header.format_version # 1
  <2> DEFINE d == c - SectorBits
             S == 2 ^ SectorBits
             t == 2 ^ d
  <2>1. d \in Nat /\ c = SectorBits + d
    BY <1>1, <1>3 DEF BitsAreValid
  <2>2. S \in Nat \ {0} /\ t \in Nat \ {0}
    BY <1>1, <2>1, PowerIsNat
  <2>3. 2 ^ c = S * t
    BY <1>1, <2>1, PowerOfSum
  <2>4. SizeBits(header) = d + 1
    BY <1>1, <1>3 DEF SizeBits
  <2>5. 2 ^ (d + 1) = 2 * t
    BY <2>1, NextPower
  <2>6. k = ((place + n - 1) \div S) - (place \div S)
    BY <1>3 DEF SizeOf
  <2>7. n <= S * t
    BY <2>3 DEF ClusterBytes
  <2> HIDE DEF k, S, t, d
  <2>8. k \in Nat /\ k <= t /\ n <= (k + 1) * S
    BY <2>2, <2>6, <2>7, SectorsTouched
  <2>9. k < 2 * t
    BY <2>2, <2>8
  <2> QED
    BY <2>4, <2>5, <2>8, <2>9 DEF k, S
<1> QED
  BY <1>2, <1>3

-----------------------------------------------------------------------------
(* A reference is taken apart.                                              *)

(* What is below the flag of a reference. *)
Pointer(h, place, n) == (SizeOf(h, place, n) * (2 ^ PlaceBits(h))) + place

LEMMA PointerIsBelowFlag ==
  ASSUME file \in Files, BitsAreValid(header), NEW place \in Nat,
         NEW n \in Nat \ {0}, n <= ClusterBytes(header),
         CanReferTo(header, place, n)
  PROVE  LET p == Pointer(header, place, n)
         IN  /\ p \in Nat \ {0}
             /\ p < FlagOf(header)
             /\ ReferenceTo(header, place, n) = FlagOf(header) + p
             /\ p \div (2 ^ PlaceBits(header)) = SizeOf(header, place, n)
             /\ p % (2 ^ PlaceBits(header)) = place
             /\ header.format_version = 3 =>
                  \E a, b \in Nat : p = 2 * a /\ FlagOf(header) = 2 * b
<1> DEFINE k == SizeOf(header, place, n)
           P == 2 ^ PlaceBits(header)
           Z == 2 ^ SizeBits(header)
           F == FlagOf(header)
           p == (k * P) + place
<1>1. /\ PlaceBits(header) \in Nat /\ SizeBits(header) \in Nat
      /\ OffsetBits(header) \in Nat
      /\ OffsetBits(header) = SizeBits(header) + PlaceBits(header)
      /\ F = 2 ^ OffsetBits(header)
  BY PlaceBitsAre
<1>2. P \in Nat \ {0} /\ Z \in Nat \ {0}
  BY <1>1, PowerIsNat
<1>3. F = Z * P
  BY <1>1, PowerOfSum
<1>4. k \in Nat /\ k < Z
  BY SizeFits
<1>5. place < P /\ place \in Nat /\ place # 0
  BY ConstantsAreNumbers, HeaderConstants DEF CanReferTo
<1>6. Pointer(header, place, n) = p
  BY DEF Pointer
<1>7. ReferenceTo(header, place, n) = F + (k * P) + place
  BY DEF ReferenceTo
<1>8. ASSUME header.format_version = 3
      PROVE  \E a, b \in Nat : p = 2 * a /\ F = 2 * b
  <2>1. PlaceBits(header) # 0 /\ \E half \in Nat : P = 2 * half
    BY <1>1, <1>5, EvenPower
  <2>2. PICK half \in Nat : P = 2 * half
    BY <2>1
  <2>3. place % 2 = 0
    BY <1>8 DEF CanReferTo
  <2> DEFINE m == place \div 2
  <2>4. m \in Nat /\ place = 2 * m
    BY <2>3
  <2> HIDE DEF k, P, Z, F, m
  <2>5. p = 2 * ((k * half) + m)
    BY <1>4, <2>2, <2>4
  <2>6. F = 2 * (Z * half)
    BY <1>2, <1>3, <2>2
  <2>7. (k * half) + m \in Nat /\ Z * half \in Nat
    BY <1>2, <1>4, <2>4
  <2> HIDE DEF p
  <2> QED
    BY <2>5, <2>6, <2>7
<1> HIDE DEF k, P, Z, F
<1>9. p \in Nat \ {0} /\ k * P \in Nat
  BY <1>2, <1>4, <1>5
<1>10. p < F
  <2>1. (k + 1) * P <= Z * P
    BY <1>2, <1>4
  <2>2. (k + 1) * P = (k * P) + P
    BY <1>2, <1>4
  <2>3. Z * P \in Nat
    BY <1>2
  <2> QED
    BY <1>2, <1>3, <1>5, <1>9, <2>1, <2>2, <2>3
<1>11. p \div P = k /\ p % P = place
  BY <1>2, <1>4, <1>5, DividedBack
<1>12. F + (k * P) + place = F + p
  <2>1. F \in Nat
    BY <1>2, <1>3
  <2> QED
    BY <1>5, <1>9, <2>1
<1> HIDE DEF p
<1> QED
  BY <1>6, <1>7, <1>8, <1>9, <1>10, <1>11, <1>12, Zenon DEF k, P, F

(* The masks of the reader leave of a reference what is below its flag. *)
LEMMA ReferenceIsTakenApart ==
  ASSUME HeaderInv, opening = "open", NEW place \in Nat, NEW n \in Nat \ {0},
         n <= ClusterBytes(header), CanReferTo(header, place, n),
         NEW r, r = ReferenceTo(header, place, n)
  PROVE  /\ IsCompressed(r)
         /\ ~IsSparse(r)
         /\ Masked(r) = Pointer(header, place, n)
         /\ Masked(r) # 0
<1> DEFINE p == Pointer(header, place, n)
           F == FlagOf(header)
           o == shifts.offset_bits
<1>1. file \in Files /\ BitsAreValid(header) /\ o = OffsetBits(header)
  BY DEF HeaderInv, ShiftsFollow
<1>2. /\ p \in Nat \ {0} /\ p < F /\ r = F + p
      /\ header.format_version = 3 =>
           \E a, b \in Nat : p = 2 * a /\ F = 2 * b
  BY <1>1, PointerIsBelowFlag
<1>3. F = 2 ^ o /\ F \in Nat \ {0}
  <2>1. F = 2 ^ o /\ o \in Nat
    BY <1>1, PlaceBitsAre
  <2>2. 2 ^ o \in Nat \ {0}
    BY <2>1, PowerIsNat
  <2> QED
    BY <2>1, <2>2
<1> HIDE DEF p, F, o
<1>4. r \div F = 1 /\ r % F = p
  <2>1. ((1 * F) + p) \div F = 1 /\ ((1 * F) + p) % F = p
    BY <1>2, <1>3, DividedBack
  <2>2. (1 * F) + p = r
    BY <1>2, <1>3
  <2> QED
    BY <2>1, <2>2
<1>5. IsCompressed(r)
  <2>1. 1 % 2 = 1
    OBVIOUS
  <2> QED
    BY <1>3, <1>4, <2>1 DEF IsCompressed, o
<1>6. r % (2 ^ shifts.offset_bits) = p
  BY <1>3, <1>4 DEF o
<1>7. ~IsSparse(r) /\ Masked(r) = p
  <2>1. CASE header.format_version # 3
    BY <1>6, <2>1 DEF IsSparse, Masked
  <2>2. CASE header.format_version = 3
    <3>1. PICK a \in Nat, b \in Nat : p = 2 * a /\ F = 2 * b
      BY <1>2, <2>2
    <3>2. r = 2 * (a + b)
      BY <1>2, <3>1
    <3>3. r % 2 = 0
      BY <3>1, <3>2
    <3>4. p \div 2 = a /\ a * 2 = p
      BY <3>1
    <3> QED
      BY <1>6, <2>2, <3>3, <3>4 DEF IsSparse, Masked
  <2> QED
    BY <2>1, <2>2
<1> QED
  BY <1>2, <1>5, <1>7 DEF p

(* ... and its shifts and masks make the place and the size of that.        *)
LEMMA PointerIsTakenApart ==
  ASSUME HeaderInv, opening = "open", NEW place \in Nat, NEW n \in Nat \ {0},
         n <= ClusterBytes(header), CanReferTo(header, place, n),
         reference = Pointer(header, place, n)
  PROVE  /\ compressed_offset = place
         /\ compressed_size = SizeOf(header, place, n)
<1>1. /\ file \in Files /\ BitsAreValid(header)
      /\ shifts.compression_bit_shift = OffsetBits(header) - SizeBits(header)
  BY DEF HeaderInv, ShiftsFollow
<1>2. shifts.compression_bit_shift = PlaceBits(header)
  BY <1>1, PlaceBitsAre
<1>3. LET p == Pointer(header, place, n)
      IN  /\ p \div (2 ^ PlaceBits(header)) = SizeOf(header, place, n)
          /\ p % (2 ^ PlaceBits(header)) = place
  BY <1>1, PointerIsBelowFlag
<1> QED
  BY <1>2, <1>3 DEF compressed_offset, compressed_size

(* As much of the file is read as was written, or more of what is there.    *)
LEMMA EnoughIsRead ==
  ASSUME HeaderInv, opening = "open", NEW place \in Nat, NEW n \in Nat \ {0},
         n <= ClusterBytes(header), CanReferTo(header, place, n),
         compressed_offset = place, compressed_size = SizeOf(header, place, n),
         header.size \in Nat, place + n <= header.size
  PROVE  /\ ReadSize \in Nat
         /\ n <= ReadSize
         /\ place + ReadSize <= header.size
<1> DEFINE k == compressed_size
           s == cluster_block_size
           c == (place + s - 1) \div s
           e == Least((c + 1) * s, header.size)
           S == 2 ^ SectorBits
<1>1. file \in Files /\ BitsAreValid(header)
  BY DEF HeaderInv, ShiftsFollow
<1>2. k \in Nat /\ header.format_version # 1 => n <= (k + 1) * S
  BY <1>1, SizeFits
<1>3. k \in Nat
  BY <1>1, SizeFits
<1>4. CASE header.format_version = 1
  <2>1. k = n
    BY <1>4 DEF SizeOf
  <2>2. ReadSize = n
    BY <1>4, <2>1 DEF ReadSize
  <2> QED
    BY <2>2
<1>5. CASE header.format_version # 1
  <2>1. s = ClusterBytes(header) /\ s \in Nat \ {0}
    BY <1>1, SizesOfHeader DEF cluster_block_size, ClusterBytes
  <2>2. S \in Nat \ {0}
    BY ConstantsAreNumbers, PowerIsNat
  <2>3. n <= (k + 1) * S
    BY <1>1, <1>5, SizeFits
  <2>4. EndOfCompressed = e
    BY DEF EndOfCompressed
  <2>5. ReadSize = Least((k + 1) * S, EndOfCompressed - place)
    BY <1>5 DEF ReadSize
  <2> HIDE DEF k, s, S
  <2>6. place + n <= (c + 1) * s /\ (c + 1) * s \in Nat
    <3>1. place + s - 1 \in Nat
      BY <2>1
    <3>2. /\ c \in Nat /\ (place + s - 1) % s \in 0..(s - 1)
          /\ place + s - 1 = (c * s) + ((place + s - 1) % s)
      BY <2>1, <3>1, Division
    <3> DEFINE r == (place + s - 1) % s
    <3>3. r \in Nat /\ r <= s - 1 /\ place + s - 1 = (c * s) + r
      BY <2>1, <3>2
    <3> HIDE DEF c, r
    <3>4. (c + 1) * s = (c * s) + s /\ c * s \in Nat
      BY <2>1, <3>2
    <3>5. n <= s
      BY <2>1
    <3> QED
      BY <2>1, <3>3, <3>4, <3>5
  <2> HIDE DEF c
  <2>7. e \in Nat /\ place + n <= e /\ e <= header.size
    BY <2>6 DEF Least
  <2> HIDE DEF e
  <2>8. (k + 1) * S \in Nat
    BY <1>3, <2>2
  <2>9. e - place \in Nat /\ n <= e - place
    BY <2>7
  <2>10. ReadSize \in Nat /\ n <= ReadSize /\ ReadSize <= e - place
    BY <2>3, <2>4, <2>5, <2>8, <2>9 DEF Least
  <2> QED
    BY <2>7, <2>10
<1> QED
  BY <1>4, <1>5

(* What is read begins with what was written.                               *)
LEMMA WrittenIsRead ==
  ASSUME NEW T, NEW contents \in Seq(T), NEW bytes \in Seq(T), NEW place \in Nat,
         NEW size \in Nat, Len(bytes) <= size, 0 < size,
         place + size <= Len(contents),
         \A k \in 1..Len(bytes) : contents[place + k] = bytes[k]
  PROVE  LET read == SubSeq(contents, place + 1, place + size)
         IN  /\ read \in Seq(T)
             /\ Begins(bytes, read)
             /\ IsPrefixOf(bytes, read)
<1> DEFINE read == SubSeq(contents, place + 1, place + size)
           n == Len(bytes)
<1>1. place + 1 \in Nat /\ place + size \in Nat /\ 1 <= place + 1
      /\ place + 1 <= (place + size) + 1 /\ n \in Nat
      /\ (place + size) - (place + 1) + 1 = size
  OBVIOUS
<1>2. /\ read \in Seq(T) /\ Len(read) = size
      /\ \A i \in 1..size : read[i] = contents[place + 1 + i - 1]
  BY <1>1, SubSeqOf
<1> HIDE DEF read
<1>3. \A i \in 1..n : read[i] = bytes[i]
  <2> TAKE i \in 1..n
  <2>1. i \in 1..size /\ place + 1 + i - 1 = place + i
    BY <1>1
  <2> QED
    BY <1>2, <2>1
<1>4. Begins(bytes, read)
  BY <1>2, <1>3 DEF Begins
<1>5. SubSeq(read, 1, n) = bytes
  <2>1. /\ SubSeq(read, 1, n) \in Seq(T) /\ Len(SubSeq(read, 1, n)) = n - 1 + 1
        /\ \A i \in 1..(n - 1 + 1) : SubSeq(read, 1, n)[i] = read[1 + i - 1]
    <3>1. 1 \in Nat /\ 1 <= 1 /\ 1 <= n + 1 /\ n <= Len(read)
      BY <1>1, <1>2
    <3> QED
      BY <1>1, <1>2, <3>1, SubSeqOf
  <2> DEFINE x == SubSeq(read, 1, n)
  <2>2. /\ x \in Seq(T) /\ Len(x) = Len(bytes)
        /\ \A i \in 1..Len(bytes) : x[i] = bytes[i]
    BY <1>1, <1>3, <2>1
  <2> HIDE DEF x
  <2>3. x = bytes
    BY <2>2
  <2> QED
    BY <2>3 DEF x
<1>6. IsPrefixOf(bytes, read)
  BY <1>2, <1>5 DEF IsPrefixOf
<1> QED
  BY <1>2, <1>4, <1>6 DEF read

(* The reference that is found is the one that was written for the offset.  *)
LEMMA IndexesAreTheWriters ==
  ASSUME HeaderInv, opening = "open"
  PROVE  Entry = IndexesOf(header, offset)
<1>1. /\ file \in Files /\ BitsAreValid(header)
      /\ shifts.number_of_level2_table_bits = Level2Bits(header)
      /\ shifts.level1_index_bit_shift =
           header.number_of_cluster_block_bits + Level2Bits(header)
  BY DEF HeaderInv, ShiftsFollow
<1>2. /\ TableReferences(header) = 2 ^ Level2Bits(header)
      /\ TableBytes(header) =
           2 ^ (header.number_of_cluster_block_bits + Level2Bits(header))
  BY <1>1, SizesOfHeader
<1> QED
  BY <1>1, <1>2 DEF Entry, IndexesOf, level1_table_index, level2_table_index,
                    cluster_block_size, ClusterBytes

(* A level 1 table for all of the media has a reference for each offset.    *)
LEMMA OffsetHasTable ==
  ASSUME HeaderInv, opening = "open", IsWrittenHeader(header), offset \in Nat,
         offset < header.media_size
  PROVE  level1_table_index < tables.level1_entries
<1> DEFINE T == TableBytes(header)
           m == header.media_size
           R == References(header)
           q == offset \div T
<1>1. /\ file \in Files /\ BitsAreValid(header)
      /\ shifts.number_of_level2_table_bits = Level2Bits(header)
      /\ shifts.level1_index_bit_shift =
           header.number_of_cluster_block_bits + Level2Bits(header)
      /\ tables.level1_entries = Level1Entries
  BY DEF HeaderInv, ShiftsFollow, TablesFollow
<1>2. /\ TableReferences(header) = 2 ^ Level2Bits(header)
      /\ T = 2 ^ (header.number_of_cluster_block_bits + Level2Bits(header))
      /\ T \in Nat \ {0}
  BY <1>1, SizesOfHeader
<1>3. level1_table_index = q
  BY <1>1, <1>2 DEF level1_table_index
<1>4. level1_table_size = T
  BY <1>1, <1>2 DEF level1_table_size, cluster_block_size, level2_entries,
                    TableBytes, ClusterBytes
<1>5. R = tables.level1_entries
  BY <1>1, <1>4 DEF References, Level1Entries
<1>6. m \in Nat /\ m <= R * T
  BY <1>1, FilesHaveHeaders DEF IsWrittenHeader, header, FileHeader
<1>7. R \in Nat
  BY <1>5 DEF HeaderInv, Tables
<1>8. q \in Nat /\ offset % T \in 0..(T - 1) /\ offset = (q * T) + (offset % T)
  BY <1>2, Division
<1>9. offset < m
  OBVIOUS
<1> DEFINE r == offset % T
<1>10. r \in Nat /\ offset = (q * T) + r
  BY <1>2, <1>8
<1> HIDE DEF T, m, R, q, r
<1>11. q * T < R * T
  <2>1. q * T \in Nat /\ R * T \in Nat
    BY <1>2, <1>7, <1>8
  <2> QED
    BY <1>6, <1>9, <1>10, <2>1
<1>12. q < R
  BY <1>2, <1>7, <1>8, <1>11, FewerTimes
<1> QED
  BY <1>3, <1>5, <1>12

-----------------------------------------------------------------------------
(* A file that was written is opened.                                       *)

LEMMA FitsDivided ==
  ASSUME NEW a \in Nat, NEW b \in Nat \ {0}, NEW m \in Nat, a * b <= m
  PROVE  a <= m \div b
<1> DEFINE q == m \div b
           r == m % b
<1>1. q \in Nat /\ r \in 0..(b - 1) /\ m = (q * b) + r
  BY Division
<1> HIDE DEF q, r
<1>2. (q + 1) * b = (q * b) + b /\ q * b \in Nat /\ a * b \in Nat
  BY <1>1
<1>3. a * b < (q + 1) * b
  BY <1>1, <1>2
<1>4. a < q + 1
  BY <1>1, <1>3, FewerTimes
<1> QED
  BY <1>1, <1>4 DEF q

LEMMA SizesOfWritten ==
  ASSUME HeaderInv, opening = "shifts", IsWrittenHeader(header)
  PROVE  SizesAreValid
<1> DEFINE b == header.number_of_cluster_block_bits + Level2Bits(header)
           T == TableBytes(header)
           m == header.media_size
           R == References(header)
           C == ClusterBytes(header)
           E == TableReferences(header)
<1>1. /\ file \in Files /\ BitsAreValid(header)
      /\ shifts.number_of_level2_table_bits = Level2Bits(header)
      /\ shifts.level1_index_bit_shift = b
  BY DEF HeaderInv, ShiftsFollow
<1>2. C \in Nat \ {0} /\ E \in Nat \ {0} /\ T \in Nat \ {0} /\ T = 2 ^ b
      /\ E = 2 ^ Level2Bits(header)
  BY <1>1, SizesOfHeader
<1>3. cluster_block_size = C /\ level2_entries = E /\ level1_table_size = T
  BY <1>1, <1>2 DEF cluster_block_size, level2_entries, level1_table_size,
                    ClusterBytes, TableBytes
<1>4. Level1Entries = R
  BY <1>3 DEF References, Level1Entries
<1>5. shifts.level1_index_bit_shift < Width
  <2>1. T < 2 ^ Width
    BY DEF IsWrittenHeader
  <2>2. b \in Nat /\ Width \in Nat
    <3>1. /\ header.number_of_cluster_block_bits \in 0..(Width - 1)
          /\ Level2Bits(header) \in 0..(Width - 1)
      BY <1>1, ValidBitsGiveShifts
    <3> QED
      BY <3>1, ConstantsAreNumbers
  <2> HIDE DEF b
  <2>3. b < Width
    BY <1>2, <2>1, <2>2, LessPower
  <2> QED
    BY <1>1, <2>3
<1>6. MaxAllocation \in Nat /\ MaxReferences \in Nat
  BY HeaderConstants
<1>7. ASSUME header.format_version = 1
      PROVE  C <= MaxAllocation \div E /\ m \div T <= MaxReferences - 1
  <2>1. T <= MaxAllocation /\ R < MaxReferences
    BY <1>7 DEF IsWrittenHeader
  <2>2. T = C * E
    BY DEF TableBytes
  <2> DEFINE q == m \div T
  <2>3. q \in Nat
    <3>1. m \in Nat
      BY <1>1, FilesHaveHeaders DEF header, FileHeader
    <3> QED
      BY <1>2, <3>1, Division
  <2>4. R = q + (IF m % T # 0 THEN 1 ELSE 0)
    BY <1>7 DEF References
  <2> HIDE DEF C, E, T, R, q, m
  <2>5. C <= MaxAllocation \div E
    BY <1>2, <1>6, <2>1, <2>2, FitsDivided
  <2>6. q <= R
    BY <2>3, <2>4
  <2>7. R \in Nat
    BY <2>3, <2>4
  <2>8. q <= MaxReferences - 1
    BY <1>6, <2>1, <2>3, <2>6, <2>7
  <2> QED
    BY <2>5, <2>8 DEF q
<1>8. /\ C <= MaxAllocation
      /\ R \in 1..(MaxAllocation \div (2 ^ EntryBits))
      /\ E <= MaxAllocation \div (2 ^ EntryBits)
  BY DEF IsWrittenHeader
<1> DEFINE M == MaxAllocation \div (2 ^ EntryBits)
<1> HIDE DEF C, E, R, m, T, M
<1>9. R > 0 /\ R <= M
  BY <1>8 DEF M
<1> QED
  BY <1>3, <1>4, <1>5, <1>7, <1>8, <1>9 DEF SizesAreValid, M, m, T

LEMMA WrittenOpens ==
  ASSUME HeaderInv, IsWrittenHeader(header), OpenRead, opening # "refused"
  PROVE  opening' # "refused"
<1>1. CASE ReadFileHeader \/ SetShifts \/ SetTables
  BY <1>1 DEF ReadFileHeader, SetShifts, SetTables
<1>2. ~CannotReadFileHeader /\ ~CannotSetShifts
  BY DEF CannotReadFileHeader, CannotSetShifts, IsWrittenHeader
<1>3. ~CannotSetTables
  BY SizesOfWritten DEF CannotSetTables
<1> QED
  BY <1>1, <1>2, <1>3 DEF OpenRead

-----------------------------------------------------------------------------
(* A read finds the message that was written for its offset.                *)

(* What is read of a file that was written with these messages, at these    *)
(* places.                                                                  *)
ReadsMessage(message, place) ==
  /\ reading = "compressed" =>
       reference = Pointer(header, place, Len(Encoding(message)))
  /\ reading = "inflating" =>
       /\ input.damage = "none"
       /\ input.size = ClusterBytes(header)
       /\ input.text = Text(message)

ReadsFile(messages, places) ==
  /\ opening # "refused"
  /\ reading \notin {"error", "sparse", "plain"}
  /\ reading # "no" => ReadsMessage(messages[offset], places[offset])

FileInv ==
  file # NoFile /\ file.sound =>
    \A messages, places : IsWrittenFile(file, messages, places) =>
      ReadsFile(messages, places)

(* The inflater runs on what was written, or is not called yet. *)
InflatesInv ==
  (file = NoFile /\ AreWritten(Calls)) \/ reading = "inflating" => InflationInv

ReadsInv == ClusterInv /\ FileInv /\ InflatesInv

(* What is known of an offset of a file that was written. *)
LEMMA WrittenBlockIs ==
  ASSUME HeaderInv, file.sound, NEW o \in file.offsets, NEW B, NEW place,
         IsWrittenBlock(file, o, B, place)
  PROVE  LET n == Len(Encoding(B))
         IN  /\ IsMessage(B)
             /\ Encoding(B) \in Seq(Bytes) /\ Text(B) \in Seq(Bytes)
             /\ n \in Nat \ {0}
             /\ n <= ClusterBytes(header)
             /\ place \in Nat
             /\ CanReferTo(header, place, n)
             /\ file.streams[o].bytes = Encoding(B)
             /\ file.streams[o].text = Text(B)
             /\ Len(Text(B)) = ClusterBytes(header)
<1> DEFINE n == Len(Encoding(B))
<1>1. /\ IsMessage(B) /\ place \in Nat /\ CanReferTo(header, place, n)
      /\ Len(Text(B)) = ClusterBytes(header)
      /\ file.streams[o] = [bytes |-> Encoding(B), text |-> Text(B)]
  BY DEF IsWrittenBlock, header
<1>2. file.streams[o].bytes = Encoding(B) /\ file.streams[o].text = Text(B)
  BY <1>1
<1>3. file \in Files
  BY DEF HeaderInv
<1>4. /\ file.streams[o] \in [bytes : Seq(Bytes), text : Seq(Bytes)]
      /\ Len(file.streams[o].bytes) <= 2 ^ file.header.number_of_cluster_block_bits
  BY <1>3, WellWritten
<1>5. Encoding(B) \in Seq(Bytes) /\ Text(B) \in Seq(Bytes)
  BY <1>2, <1>4
<1>6. n <= ClusterBytes(header)
  BY <1>2, <1>4 DEF ClusterBytes, header
<1>7. n \in Nat /\ n # 0
  BY <1>1, <1>5, EncodingIs
<1> QED
  BY <1>1, <1>2, <1>5, <1>6, <1>7

LEMMA ReferenceIsFound ==
  ASSUME ClusterInv, file # NoFile, file.sound, reading = "reference",
         NEW messages, NEW places, IsWrittenFile(file, messages, places)
  PROVE  /\ CanBeRead
         /\ IsCompressed(Found) /\ ~IsSparse(Found) /\ Masked(Found) # 0
         /\ Masked(Found) = Pointer(header, places[offset],
                                    Len(Encoding(messages[offset])))
<1> DEFINE B == messages[offset]
           place == places[offset]
           n == Len(Encoding(B))
<1>1. /\ HeaderInv /\ opening = "open" /\ offset \in file.offsets
      /\ offset \in Nat /\ offset < header.media_size
  BY FileOfHeader DEF ClusterInv, ReadInv
<1>2. IsWrittenHeader(header) /\ IsWrittenBlock(file, offset, B, place)
  BY <1>1 DEF IsWrittenFile, header
<1>3. /\ n \in Nat \ {0} /\ n <= ClusterBytes(header) /\ place \in Nat
      /\ CanReferTo(header, place, n)
  BY <1>1, <1>2, WrittenBlockIs
<1>4. Entry = IndexesOf(header, offset)
  BY <1>1, IndexesAreTheWriters
<1>5. Found = ReferenceTo(header, place, n)
  BY <1>2, <1>4 DEF Found, IsWrittenBlock, header
<1> HIDE DEF B, place, n
<1>6. /\ IsCompressed(Found) /\ ~IsSparse(Found) /\ Masked(Found) # 0
      /\ Masked(Found) = Pointer(header, place, n)
  BY <1>1, <1>3, <1>5, ReferenceIsTakenApart
<1>7. CanBeRead
  <2>1. level1_table_index < tables.level1_entries
    BY <1>1, <1>2, OffsetHasTable
  <2>2. header.encryption_method = 0
    BY <1>2 DEF IsWrittenHeader
  <2> QED
    BY <2>1, <2>2 DEF CanBeRead
<1> QED
  BY <1>6, <1>7 DEF B, place, n

LEMMA MessageIsRead ==
  ASSUME ClusterInv, file # NoFile, file.sound, reading = "compressed",
         NEW messages, NEW places, IsWrittenFile(file, messages, places),
         ReadsFile(messages, places)
  PROVE  /\ CanReadCompressed /\ ReadSize > 0
         /\ Begins(Encoding(messages[offset]), CompressedData)
         /\ Damage(CompressedData) = "none"
<1> DEFINE B == messages[offset]
           place == places[offset]
           n == Len(Encoding(B))
<1>1. /\ HeaderInv /\ opening = "open" /\ offset \in file.offsets
  BY FileOfHeader DEF ClusterInv, ReadInv
<1>2. IsWrittenBlock(file, offset, B, place)
  BY <1>1 DEF IsWrittenFile
<1>3. /\ n \in Nat \ {0} /\ n <= ClusterBytes(header) /\ place \in Nat
      /\ CanReferTo(header, place, n) /\ Encoding(B) \in Seq(Bytes)
      /\ file.streams[offset].bytes = Encoding(B)
  BY <1>1, <1>2, WrittenBlockIs
<1>4. /\ file.contents \in Seq(Bytes) /\ header.size = Len(file.contents)
  BY <1>1, FilesHaveContents DEF HeaderInv, header
<1>5. /\ place + n <= header.size
      /\ \A k \in 1..n : file.contents[place + k] = Encoding(B)[k]
  BY <1>2, <1>4 DEF IsWrittenBlock
<1>6. reference = Pointer(header, place, n)
  BY DEF ReadsFile, ReadsMessage
<1> HIDE DEF place, n, B
<1>7. compressed_offset = place /\ compressed_size = SizeOf(header, place, n)
  BY <1>1, <1>3, <1>6, PointerIsTakenApart
<1>8. header.size \in Nat
  BY <1>4
<1>9. ReadSize \in Nat /\ n <= ReadSize /\ place + ReadSize <= header.size
  BY <1>1, <1>3, <1>5, <1>7, <1>8, EnoughIsRead
<1>10. CanReadCompressed /\ ReadSize > 0
  BY <1>3, <1>5, <1>7, <1>8, <1>9 DEF CanReadCompressed
<1>11. /\ Begins(Encoding(B), CompressedData)
       /\ IsPrefixOf(Encoding(B), CompressedData)
  <2>1. CompressedData = SubSeq(file.contents, place + 1, place + ReadSize)
    BY <1>7 DEF CompressedData
  <2>2. Len(Encoding(B)) <= ReadSize /\ 0 < ReadSize
        /\ place + ReadSize <= Len(file.contents)
        /\ \A k \in 1..Len(Encoding(B)) : file.contents[place + k] = Encoding(B)[k]
    BY <1>4, <1>5, <1>9, <1>10 DEF n
  <2> QED
    BY <1>3, <1>4, <1>9, <2>1, <2>2, WrittenIsRead
<1>12. Damage(CompressedData) = "none"
  BY <1>3, <1>11 DEF Damage
<1> QED
  BY <1>10, <1>11, <1>12 DEF B

LEMMA ReadsInit == Init => ReadsInv
<1> SUFFICES ASSUME Init PROVE ReadsInv
  OBVIOUS
<1>1. ClusterInv /\ reading = "no"
  BY ClusterInvInit DEF Init
<1>2. CASE HeaderInit /\ input = NoInput /\ NothingInflated
  <2>1. file # NoFile /\ opening = "closed"
    BY <1>2, HeaderConstants DEF HeaderInit
  <2> QED
    BY <1>1, <2>1 DEF ReadsInv, FileInv, ReadsFile, InflatesInv
<1>3. CASE file = NoFile /\ InflaterInit
  <2>1. input \in Calls /\ NothingInflated /\ input \in Inputs
    BY <1>3, CallsAreInputs DEF InflaterInit
  <2>2. ASSUME AreWritten(Calls) PROVE InflationInv
    <3>1. input.damage # "altered" => \E first, B : IsWritten(input, first, B)
      BY <2>1, <2>2 DEF AreWritten
    <3> QED
      BY <2>1, <3>1, CallWrites
  <2> QED
    BY <1>1, <1>3, <2>2 DEF ReadsInv, FileInv, InflatesInv
<1> QED
  BY <1>2, <1>3 DEF Init

LEMMA OpenStepReads ==
  ASSUME ReadsInv, OpenStep
  PROVE  FileInv' /\ InflatesInv'
<1>1. /\ HeaderInv /\ OpenRead /\ UNCHANGED <<inflaterVars, readVars>>
      /\ file # NoFile
  BY FileOfHeader DEF ReadsInv, ClusterInv, OpenStep
<1>2. file' = file /\ opening # "open" /\ opening # "refused"
  BY <1>1 DEF OpenRead, ReadFileHeader, CannotReadFileHeader, SetShifts,
              CannotSetShifts, SetTables, CannotSetTables, Refuse
<1>3. reading = "no" /\ reading' = "no"
  BY <1>1, <1>2 DEF ReadsInv, ClusterInv, ReadInv, readVars
<1>4. InflatesInv'
  BY <1>1, <1>2, <1>3 DEF InflatesInv
<1>5. ASSUME file.sound, NEW messages, NEW places,
            IsWrittenFile(file, messages, places)
      PROVE  ReadsFile(messages, places)'
  <2>1. IsWrittenHeader(header)
    BY <1>5 DEF IsWrittenFile, header
  <2>2. opening' # "refused"
    BY <1>1, <1>2, <2>1, WrittenOpens
  <2> QED
    BY <1>3, <2>2 DEF ReadsFile
<1> QED
  BY <1>2, <1>4, <1>5 DEF FileInv

(* A step of a read before the inflater is called. *)
LEMMA ReadBeforeReads ==
  ASSUME ReadsInv, file # NoFile, reading # "inflating", reading' # "inflating",
         UNCHANGED headerVars,
         \A messages, places :
           file.sound /\ IsWrittenFile(file, messages, places)
             /\ ReadsFile(messages, places) =>
               /\ reading' \notin {"error", "sparse", "plain"}
               /\ reading' = "compressed" =>
                    reference' = Pointer(header, places[offset'],
                                         Len(Encoding(messages[offset'])))
  PROVE  FileInv' /\ InflatesInv'
<1>1. file' = file /\ opening' = opening /\ header' = header
  BY DEF headerVars, header
<1>2. InflatesInv'
  BY <1>1 DEF InflatesInv
<1>3. ASSUME file.sound, NEW messages, NEW places,
            IsWrittenFile(file, messages, places)
      PROVE  ReadsFile(messages, places)'
  <2>1. ReadsFile(messages, places)
    BY <1>3 DEF ReadsInv, FileInv
  <2>2. opening' # "refused"
    BY <1>1, <2>1 DEF ReadsFile
  <2> QED
    BY <1>1, <1>3, <2>1, <2>2 DEF ReadsFile, ReadsMessage
<1> QED
  BY <1>1, <1>2, <1>3 DEF FileInv

LEMMA StepsBeforeRead ==
  ASSUME ReadsInv, file # NoFile,
         \/ \E o \in file.offsets : ReadBufferAtOffset(o)
         \/ GetClusterBlockOffset \/ CannotGetClusterBlockOffset
         \/ ReadWithoutSize \/ CannotReadClusterBlock
  PROVE  FileInv' /\ InflatesInv'
<1>1. /\ reading # "inflating" /\ reading' # "inflating" /\ UNCHANGED headerVars
  BY DEF ReadBufferAtOffset, GetClusterBlockOffset, CannotGetClusterBlockOffset,
         ReadWithoutSize, CannotReadClusterBlock
<1>2. ASSUME file.sound, NEW messages, NEW places,
             IsWrittenFile(file, messages, places), ReadsFile(messages, places)
      PROVE  /\ reading' \notin {"error", "sparse", "plain"}
             /\ reading' = "compressed" =>
                  reference' = Pointer(header, places[offset'],
                                       Len(Encoding(messages[offset'])))
  <2>1. ClusterInv
    BY DEF ReadsInv
  <2>2. CASE \E o \in file.offsets : ReadBufferAtOffset(o)
    BY <2>2 DEF ReadBufferAtOffset
  <2>3. CASE reading = "reference" /\ (GetClusterBlockOffset
                                       \/ CannotGetClusterBlockOffset)
    <3>1. /\ CanBeRead
          /\ IsCompressed(Found) /\ ~IsSparse(Found) /\ Masked(Found) # 0
          /\ Masked(Found) = Pointer(header, places[offset],
                                     Len(Encoding(messages[offset])))
      BY <1>2, <2>1, <2>3, ReferenceIsFound
    <3> QED
      BY <2>3, <3>1 DEF GetClusterBlockOffset, CannotGetClusterBlockOffset
  <2>4. CASE reading = "compressed" /\ (ReadWithoutSize \/ CannotReadClusterBlock)
    <3>1. CanReadCompressed /\ ReadSize > 0
      BY <1>2, <2>1, <2>4, MessageIsRead
    <3>2. ~CannotReadClusterBlock
      BY <3>1 DEF CannotReadClusterBlock
    <3>3. ~ReadWithoutSize
      BY <3>1 DEF ReadWithoutSize
    <3> QED
      BY <2>4, <3>2, <3>3
  <2> QED
    BY <2>2, <2>3, <2>4
       DEF GetClusterBlockOffset, CannotGetClusterBlockOffset,
           ReadWithoutSize, CannotReadClusterBlock
<1> QED
  BY <1>1, <1>2, ReadBeforeReads

InputIsWritten ==
  input.damage # "altered" => \E first, B : IsWritten(input, first, B)

LEMMA CallOfWritten ==
  NothingInflated /\ input \in Inputs /\ InputIsWritten => InflationInv
BY CallWrites DEF InputIsWritten

LEMMA ReadClusterBlockReads ==
  ASSUME AreWrittenFiles(Files), ReadsInv, ClusterInv',
         file # NoFile, ReadClusterBlock
  PROVE  FileInv' /\ InflatesInv'
<1>1. /\ HeaderInv /\ file \in Files /\ offset \in file.offsets
      /\ reading = "compressed" /\ ClusterInv /\ BitsAreValid(header)
  BY FileOfHeader
     DEF ReadsInv, ClusterInv, ReadInv, ReadClusterBlock, HeaderInv, ShiftsFollow
<1>2. /\ file' = file /\ header' = header /\ opening' = opening
      /\ offset' = offset /\ reading' = "inflating"
      /\ UNCHANGED <<stream, decoding, uncompressed_data, checksum, at>>
  BY DEF ReadClusterBlock, headerVars, header
<1>3. /\ input'.data = CompressedData /\ input'.size = cluster_block_size
      /\ input'.zlib = FALSE
      /\ input'.text = (IF file.sound THEN file.streams[offset].text ELSE <<>>)
      /\ input'.damage = Damage(CompressedData)
  BY DEF ReadClusterBlock
<1>4. NothingInflated'
  <2>1. NothingInflated
    BY <1>1 DEF ClusterInv, CallInv
  <2> QED
    BY <1>2, <2>1 DEF NothingInflated, stream, decoding, trees, sizes
<1>5. input' \in Inputs
  BY DEF ClusterInv, CallInv
<1>6. ASSUME file.sound, NEW messages, NEW places,
            IsWrittenFile(file, messages, places)
      PROVE  /\ ReadsFile(messages, places)'
             /\ IsWritten(input', <<>>, messages[offset])
  <2> DEFINE B == messages[offset]
  <2>1. ReadsFile(messages, places)
    BY <1>6 DEF ReadsInv, FileInv
  <2>2. Begins(Encoding(B), CompressedData) /\ Damage(CompressedData) = "none"
    BY <1>1, <1>6, <2>1, MessageIsRead
  <2>3. IsWrittenBlock(file, offset, B, places[offset])
    BY <1>1, <1>6 DEF IsWrittenFile
  <2>4. IsMessage(B) /\ file.streams[offset].text = Text(B)
    BY <1>1, <1>6, <2>3, WrittenBlockIs
  <2>5. cluster_block_size = ClusterBytes(header)
    BY DEF cluster_block_size, ClusterBytes
  <2> HIDE DEF B
  <2>6. IsWritten(input', <<>>, B)
    BY <1>3, <1>6, <2>2, <2>4 DEF IsWritten
  <2>7. ReadsFile(messages, places)'
    BY <1>2, <1>3, <1>6, <2>1, <2>2, <2>4, <2>5 DEF ReadsFile, ReadsMessage, B
  <2> QED
    BY <2>6, <2>7 DEF B
<1>7. FileInv'
  BY <1>2, <1>6 DEF FileInv
<1>8. input'.damage # "altered" => \E first, B : IsWritten(input', first, B)
  <2>1. CASE file.sound
    <3>1. PICK messages, places : IsWrittenFile(file, messages, places)
      BY <1>1, <2>1 DEF AreWrittenFiles
    <3>2. IsWritten(input', <<>>, messages[offset])
      BY <1>6, <2>1, <3>1
    <3> QED
      BY <3>2
  <2>2. CASE ~file.sound
    BY <1>3, <2>2 DEF Damage
  <2> QED
    BY <2>1, <2>2
<1>9. (NothingInflated /\ input \in Inputs /\ InputIsWritten => InflationInv)'
  BY CallOfWritten, PTL
<1>10. InflationInv'
  BY <1>4, <1>5, <1>8, <1>9 DEF InputIsWritten
<1> QED
  BY <1>7, <1>10 DEF InflatesInv

(* A step of the inflater, or none. *)
LEMMA InflaterStepReads ==
  ASSUME ReadsInv, InflaterStep \/ UNCHANGED vars
  PROVE  FileInv' /\ InflatesInv'
<1>1. /\ file' = file /\ opening' = opening /\ header' = header
      /\ offset' = offset /\ reading' = reading /\ reference' = reference
  BY DEF InflaterStep, vars, headerVars, readVars, header
<1>2. input' = input
  BY InflaterKeepsInput DEF InflaterStep, vars, inflaterVars
<1>3. FileInv'
  BY <1>1, <1>2 DEF ReadsInv, FileInv, ReadsFile, ReadsMessage
<1>4. InflatesInv'
  <2> SUFFICES ASSUME (file = NoFile /\ AreWritten(Calls)) \/ reading = "inflating"
               PROVE  InflationInv'
    BY <1>1 DEF InflatesInv
  <2>1. InflationInv
    BY DEF ReadsInv, InflatesInv
  <2>2. InflaterNext \/ UNCHANGED inflaterVars
    BY DEF InflaterStep, vars
  <2> QED
    BY <2>1, <2>2, NextWrites, StutterWrites
<1> QED
  BY <1>3, <1>4

LEMMA ReadsNext ==
  AreWrittenFiles(Files) /\ ReadsInv /\ [Next]_vars => ReadsInv'
<1> SUFFICES ASSUME AreWrittenFiles(Files), ReadsInv, [Next]_vars PROVE ReadsInv'
  OBVIOUS
<1>1. ClusterInv'
  BY ClusterInvNext DEF ReadsInv
<1>2. FileInv' /\ InflatesInv'
  <2>1. CASE OpenStep
    BY <2>1, OpenStepReads
  <2>2. CASE file # NoFile /\ ReadStep
    <3>1. CASE ReadClusterBlock
      BY <1>1, <2>2, <3>1, ReadClusterBlockReads
    <3>2. CASE ~ReadClusterBlock
      BY <2>2, <3>2, StepsBeforeRead DEF ReadStep
    <3> QED
      BY <3>1, <3>2
  <2>3. CASE InflaterStep \/ UNCHANGED vars
    BY <2>3, InflaterStepReads
  <2> QED
    BY <2>1, <2>2, <2>3 DEF Next
<1> QED
  BY <1>1, <1>2 DEF ReadsInv

LEMMA ReadsInvariance ==
  AreWrittenFiles(Files) /\ Spec => [](ReadsInv /\ AreWrittenFiles(Files))
<1>1. AreWrittenFiles(Files) /\ Init => ReadsInv /\ AreWrittenFiles(Files)
  BY ReadsInit
<1>2. ReadsInv /\ AreWrittenFiles(Files) /\ [Next]_vars
        => (ReadsInv /\ AreWrittenFiles(Files))'
  BY ReadsNext
<1> QED
  BY <1>1, <1>2, PTL DEF Spec

(* What the invariant says while nothing is inflated yet. *)
LEMMA NotCalledWrites ==
  ASSUME input \in Inputs, NothingInflated
  PROVE  WritesText /\ OnlyDamageFails /\ CutIsNoticed
<1>1. at = "call" /\ uncompressed_data = <<>> /\ input.text \in Seq(Bytes)
  BY DEF NothingInflated, Inputs
<1>2. Len(<<>>) = 0 /\ Len(input.text) \in Nat /\ SubSeq(input.text, 1, 0) = <<>>
  BY <1>1
<1> QED
  BY <1>1, <1>2 DEF WritesText, OnlyDamageFails, CutIsNoticed

LEMMA ReadsInflate ==
  ReadsInv /\ AreWritten(Calls) => WritesText /\ OnlyDamageFails /\ CutIsNoticed
<1> SUFFICES ASSUME ReadsInv, AreWritten(Calls)
             PROVE  WritesText /\ OnlyDamageFails /\ CutIsNoticed
  OBVIOUS
<1>1. CASE file = NoFile \/ reading = "inflating"
  BY <1>1, InflationIs DEF ReadsInv, InflatesInv
<1>2. CASE file # NoFile /\ reading # "inflating"
  BY <1>2, NotCalledWrites DEF ReadsInv, ClusterInv, CallInv
<1> QED
  BY <1>1, <1>2

LEMMA ReadsMeanText == ReadsInv /\ AreWrittenFiles(Files) => ReadsWhatWasWritten
<1> SUFFICES ASSUME ReadsInv, AreWrittenFiles(Files), file # NoFile, file.sound
             PROVE  /\ opening # "refused"
                    /\ reading \notin {"error", "sparse", "plain"}
                    /\ at # "error"
                    /\ at = "done" =>
                         /\ cluster_block_data_offset < Len(uncompressed_data)
                         /\ uncompressed_data[cluster_block_data_offset + 1]
                              = file.media[offset]
  BY DEF ReadsWhatWasWritten
<1>1. HeaderInv /\ file \in Files
  BY FileOfHeader DEF ReadsInv, ClusterInv, HeaderInv
<1>2. PICK messages, places : IsWrittenFile(file, messages, places)
  BY <1>1 DEF AreWrittenFiles
<1>3. ReadsFile(messages, places)
  BY <1>2 DEF ReadsInv, FileInv
<1>4. opening # "refused" /\ reading \notin {"error", "sparse", "plain"}
  BY <1>3 DEF ReadsFile
<1>5. CASE reading # "inflating"
  <2>1. at = "call"
    BY <1>5 DEF ReadsInv, ClusterInv, CallInv, NothingInflated
  <2> QED
    BY <1>4, <2>1
<1>6. CASE reading = "inflating"
  <2> DEFINE B == messages[offset]
             C == ClusterBytes(header)
  <2>1. offset \in file.offsets /\ offset \in Nat /\ opening = "open"
    BY <1>6 DEF ReadsInv, ClusterInv, ReadInv
  <2>2. IsWrittenBlock(file, offset, B, places[offset])
    BY <1>2, <2>1 DEF IsWrittenFile
  <2>3. input.damage = "none" /\ input.size = C /\ input.text = Text(B)
    BY <1>3, <1>6 DEF ReadsFile, ReadsMessage
  <2>4. Len(Text(B)) = C
    BY <1>1, <2>1, <2>2, WrittenBlockIs
  <2>5. C \in Nat \ {0}
    BY <1>1, <2>1, SizesOfHeader DEF HeaderInv, ShiftsFollow
  <2>6. WritesText /\ OnlyDamageFails
    BY <1>6, InflationIs DEF ReadsInv, InflatesInv
  <2>7. at # "error"
    BY <2>3, <2>4, <2>5, <2>6 DEF OnlyDamageFails
  <2>8. ASSUME at = "done"
        PROVE  /\ cluster_block_data_offset < Len(uncompressed_data)
               /\ uncompressed_data[cluster_block_data_offset + 1]
                    = file.media[offset]
    <3>1. uncompressed_data = Text(B)
      BY <2>3, <2>6, <2>8 DEF WritesText
    <3>2. cluster_block_data_offset = offset % C
      BY DEF cluster_block_data_offset, cluster_block_size, ClusterBytes
    <3>3. file.media[offset] = Text(B)[(offset % C) + 1]
      BY <2>2 DEF IsWrittenBlock, header
    <3> HIDE DEF B, C
    <3>4. offset % C \in 0..(C - 1)
      BY <2>1, <2>5, Division
    <3>5. offset % C < C
      BY <2>5, <3>4
    <3> QED
      BY <2>4, <3>1, <3>2, <3>3, <3>5
  <2> QED
    BY <1>4, <2>7, <2>8
<1> QED
  BY <1>5, <1>6

LEMMA WrittenCallsInvariance ==
  AreWritten(Calls) /\ AreWrittenFiles(Files) /\ Spec
    => [](ReadsInv /\ AreWritten(Calls))
<1>1. AreWritten(Calls) /\ AreWrittenFiles(Files) /\ Init
        => ReadsInv /\ AreWrittenFiles(Files) /\ AreWritten(Calls)
  BY ReadsInit
<1>2. ReadsInv /\ AreWrittenFiles(Files) /\ AreWritten(Calls) /\ [Next]_vars
        => (ReadsInv /\ AreWrittenFiles(Files) /\ AreWritten(Calls))'
  BY ReadsNext
<1> QED
  BY <1>1, <1>2, PTL DEF Spec

(* What was written is read: whatever a writer makes of the format, in all  *)
(* of its versions, with tables, cluster blocks and references of any size, *)
(* streams that begin and end anywhere in a sector, and messages of blocks  *)
(* of any form, the library opens the file, takes each offset to the stream *)
(* that was written for it, reads all of that, and delivers the byte that   *)
(* was there (open_read, get_cluster_block_offset, read_cluster_block,      *)
(* libqcow_deflate_decompress).                                             *)
THEOREM ReadsCorrect ==
  AreWrittenFiles(Files) /\ Spec => []ReadsWhatWasWritten
BY ReadsInvariance, ReadsMeanText, PTL

(* What comes out of the inflater is what was written, up to the last byte, *)
(* whether it was called by a read or on its own.                           *)
THEOREM ReadInflatesWhatWasWritten ==
  AreWritten(Calls) /\ AreWrittenFiles(Files) /\ Spec => []WritesText
BY WrittenCallsInvariance, ReadsInflate, PTL

(* No read fails for what its stream says, unless it says too much.         *)
THEOREM ReadRefusesOnlyDamage ==
  AreWritten(Calls) /\ AreWrittenFiles(Files) /\ Spec => []OnlyDamageFails
BY WrittenCallsInvariance, ReadsInflate, PTL

(* No part of a block that was cut is taken for all of it.                  *)
THEOREM ReadNoticesCuts ==
  AreWritten(Calls) /\ AreWrittenFiles(Files) /\ Spec => []CutIsNoticed
BY WrittenCallsInvariance, ReadsInflate, PTL
==============================================================================
