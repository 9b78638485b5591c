------------------------------ MODULE QcowFormat ------------------------------
(***************************************************************************)
(* The reference for a read: a file as a writer of the format makes it.    *)
(* An offset of the media has its place in the tables, the table refers to *)
(* a place in the file, and there is a message that says what the cluster  *)
(* block of the offset holds (DeflateFormat).  A writer adds up what a     *)
(* reader takes apart with shifts and masks.                               *)
(***************************************************************************)
EXTENDS QcowHeader, DeflateFormat

(* Bytes of a cluster block, references of a level 2 table, and bytes of    *)
(* the media that one such table is for.                                    *)
ClusterBytes(h) == 2 ^ h.number_of_cluster_block_bits
TableReferences(h) ==
  IF h.format_version = 1 THEN 2 ^ h.number_of_level2_table_bits
  ELSE ClusterBytes(h) \div (2 ^ EntryBits)
TableBytes(h) == ClusterBytes(h) * TableReferences(h)

(* The tables of an offset of the media: which of them, and where in it.    *)
IndexesOf(h, o) ==
  <<o \div TableBytes(h), (o \div ClusterBytes(h)) % TableReferences(h)>>

(* Version 1 has room for sizes of less than a cluster block.  The others   *)
(* count the sectors that are touched after the first.                      *)
FlagOf(h) == 2 ^ (IF h.format_version = 1 THEN Width - 1 ELSE Width - 2)
PlaceBits(h) ==
  IF h.format_version = 1 THEN Width - 1 - h.number_of_cluster_block_bits
  ELSE Width - 2 - (h.number_of_cluster_block_bits - (SectorBits - 1))
SizeOf(h, place, n) ==
  IF h.format_version = 1 THEN n
  ELSE ((place + n - 1) \div (2 ^ SectorBits)) - (place \div (2 ^ SectorBits))

ReferenceTo(h, place, n) ==
  FlagOf(h) + (SizeOf(h, place, n) * (2 ^ PlaceBits(h))) + place

(* Bytes at a place that a reference has room for.  It is not within the    *)
(* header, and even in version 3, which has another flag in the lowest bit. *)
CanReferTo(h, place, n) ==
  /\ place >= HeaderSize
  /\ place < 2 ^ PlaceBits(h)
  /\ h.format_version = 1 => n < ClusterBytes(h)
  /\ h.format_version = 3 => place % 2 = 0

-----------------------------------------------------------------------------
(* The level 1 table is for all of the media, and nothing is larger than    *)
(* the library's limits.                                                    *)
References(h) ==
  IF h.format_version # 1 THEN h.number_of_level1_table_references
  ELSE (h.media_size \div TableBytes(h))
         + (IF h.media_size % TableBytes(h) # 0 THEN 1 ELSE 0)

IsWrittenHeader(h) ==
  /\ IsHeader(h)
  /\ BitsAreValid(h)
  /\ h.encryption_method = 0
  /\ h.media_size <= References(h) * TableBytes(h)
  /\ TableBytes(h) < 2 ^ Width
  /\ ClusterBytes(h) <= MaxAllocation
  /\ h.format_version = 1 =>
       /\ TableBytes(h) <= MaxAllocation
       /\ References(h) < MaxReferences
  /\ References(h) \in 1..(MaxAllocation \div (2 ^ EntryBits))
  /\ TableReferences(h) <= MaxAllocation \div (2 ^ EntryBits)

(* The cluster block at offset o of the media was written as this message,  *)
(* at this place of the file.                                               *)
IsWrittenBlock(f, o, blocks, place) ==
  LET h == f.header
      bytes == Encoding(blocks)
      text == Text(blocks)
  IN  /\ IsMessage(blocks)
      /\ Len(text) = ClusterBytes(h)
      /\ f.streams[o] = [bytes |-> bytes, text |-> text]
      /\ f.media[o] = text[(o % ClusterBytes(h)) + 1]
      /\ place \in Nat
      /\ CanReferTo(h, place, Len(bytes))
      /\ place + Len(bytes) <= Len(f.contents)
      /\ \A k \in 1..Len(bytes) : f.contents[place + k] = bytes[k]
      /\ IndexesOf(h, o) \in DOMAIN f.references
      /\ f.references[IndexesOf(h, o)] = ReferenceTo(h, place, Len(bytes))

(* Sound files were written, offset by offset. *)
IsWrittenFile(f, messages, places) ==
  /\ IsWrittenHeader(f.header)
  /\ \A o \in f.offsets : IsWrittenBlock(f, o, messages[o], places[o])

AreWrittenFiles(files) ==
  \A f \in files : f.sound =>
    \E messages, places : IsWrittenFile(f, messages, places)
=============================================================================
