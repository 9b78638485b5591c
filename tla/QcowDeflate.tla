----------------------------- MODULE QcowDeflate -----------------------------
(***************************************************************************)
(* The library's own inflater: libqcow_deflate_decompress and, for data    *)
(* with a header and a checksum, libqcow_deflate_decompress_zlib, with the *)
(* bit stream and the Huffman trees they use.  One step is the header of a *)
(* block, a stored block, the sizes of the codes of a dynamic block one    *)
(* symbol at a time, one symbol of a Huffman block, or one byte of the     *)
(* checksum.                                                               *)
(*                                                                         *)
(* Bytes, bits and symbols are numbers.  The bit buffer is the sequence of *)
(* its bits, the next to be read first: 32 of them, which is more than the *)
(* width of TLC's integers.                                                *)
(***************************************************************************)
EXTENDS QcowAdler32, Sequences, FiniteSets

CONSTANTS
  Calls     \* the calls that are made

Bytes == 0..255
Bits == 0..1

(* data is the compressed data, size that of the buffer for what it inflates *)
(* to, and zlib tells which of the two functions is called.  text and damage *)
(* say where data comes from: "none" if it starts with the encoding of text, *)
(* "cut" if it is a beginning of it, "altered" if it is anything else.       *)
Inputs == [data : Seq(Bytes), size : Nat, zlib : BOOLEAN, text : Seq(Bytes),
           damage : {"none", "cut", "altered"}]
NoInput == [data |-> <<>>, size |-> 0, zlib |-> FALSE, text |-> <<>>,
            damage |-> "none"]

ASSUME CallsAreInputs == Calls \subseteq Inputs

VARIABLES
  input,                \* of the call in progress
  byte_stream_offset, bit_buffer,
  last_block_flag,
  literals_tree, distances_tree, codes_tree,
  code_size_array,      \* the sizes of codes read so far
  number_of_literal_codes, number_of_distance_codes,
  compression_size,     \* of the match of which the distance comes next
  uncompressed_data,    \* up to uncompressed_data_offset
  checksum,             \* its words, with the bytes added and not yet reduced
  at                    \* what comes next, see Places

stream == <<byte_stream_offset, bit_buffer>>
trees == <<literals_tree, distances_tree>>
sizes == <<codes_tree, code_size_array, number_of_literal_codes,
           number_of_distance_codes>>
decoding == <<last_block_flag, trees, sizes, compression_size>>
inflaterVars == <<input, stream, decoding, uncompressed_data, checksum, at>>

Places == {"call", "header", "stored", "fixed", "dynamic", "code_sizes",
           "build", "symbol", "distance", "trailer", "checksum", "done", "error"}

data == input.data

-----------------------------------------------------------------------------
(* Bits.                                                                   *)

(* The number that is written with these bits, the lowest first. *)
Number(bits) ==
  LET last[k \in 0..Len(bits)] ==   \* of the last k bits
        IF k = 0 THEN 0 ELSE bits[Len(bits) - k + 1] + (2 * last[k - 1])
  IN  last[Len(bits)]

PlaceValues == <<1, 2, 4, 8, 16, 32, 64, 128>>

BitsOfBytes(bytes) ==
  [k \in 1..(8 * Len(bytes)) |->
     (bytes[((k - 1) \div 8) + 1] \div PlaceValues[((k - 1) % 8) + 1]) % 2]

Stream == [offset |-> byte_stream_offset, buffer |-> bit_buffer]

Least(a, b) == IF a < b THEN a ELSE b

(* Mutant: a byte is loaded that is not needed yet. *)
BytesToLoadEarly(s, n) ==
  IF n <= Len(s.buffer) THEN 0 ELSE ((n - Len(s.buffer)) \div 8) + 1

(* Bytes that get_value loads before it has n bits. *)
BytesToLoad(s, n) ==
  IF n <= Len(s.buffer) THEN 0 ELSE (n - Len(s.buffer) + 7) \div 8

(* What get_value returns for n bits: nothing when the bytes run out.  As   *)
(* the buffer holds 32 bits a second round is needed for n + 7 > 32 only,   *)
(* and nobody asks for that: see BitsInOrder.                               *)
Values(s, n) ==
  LET k == BytesToLoad(s, n)
      bits == s.buffer \o BitsOfBytes(SubSeq(data, s.offset + 1, s.offset + k))
  IN  IF s.offset + k > Len(data) THEN {}
      ELSE {[bits |-> SubSeq(bits, 1, n),
             stream |-> [offset |-> s.offset + k,
                         buffer |-> SubSeq(bits, n + 1, Len(bits))]]}

MoveTo(s) ==
  /\ byte_stream_offset' = s.offset
  /\ bit_buffer' = s.buffer

-----------------------------------------------------------------------------
(* Huffman trees.                                                          *)

MaximumCodeSize == 15
CodeSizes == 1..MaximumCodeSize

NoTree == [code_size_counts |-> <<>>, symbols |-> <<>>]

(* The symbols (from 0) that have a code of n bits. *)
SymbolsOfSize(code_sizes, n) ==
  LET upto[k \in 0..Len(code_sizes)] ==
        IF k = 0 THEN <<>>
        ELSE upto[k - 1] \o (IF code_sizes[k] = n THEN <<k - 1>> ELSE <<>>)
  IN  upto[Len(code_sizes)]

(* How many codes there are of each size. *)
CodeSizeCounts(code_sizes) ==
  [n \in CodeSizes |-> Len(SymbolsOfSize(code_sizes, n))]

(* The symbols that have a code, sorted by the size of the code. *)
SortedSymbols(code_sizes) ==
  LET upto[n \in 0..MaximumCodeSize] ==
        IF n = 0 THEN <<>> ELSE upto[n - 1] \o SymbolsOfSize(code_sizes, n)
  IN  upto[MaximumCodeSize]

(* left_value after the codes of each size: what is left of the code space. *)
LeftValue(counts) ==
  LET left[n \in 0..MaximumCodeSize] ==
        IF n = 0 THEN 1 ELSE (2 * left[n - 1]) - counts[n]
  IN  left

IsCodeSpace(counts) ==
  /\ \E n \in CodeSizes : counts[n] > 0
  /\ \A n \in CodeSizes : LeftValue(counts)[n] >= 0

Tree(code_sizes) ==
  [code_size_counts |-> CodeSizeCounts(code_sizes),
   symbols |-> SortedSymbols(code_sizes)]

(* libqcow_huffman_tree_build; nothing is built without codes, or with more *)
(* than the code space holds.                                               *)
Trees(code_sizes) ==
  {t \in {Tree(code_sizes)} : IsCodeSpace(t.code_size_counts)}

(* first_huffman_code and first_index when code_size bits have been read. *)
FirstHuffmanCode(tree) ==
  LET first[n \in CodeSizes] ==
        IF n = 1 THEN 0
        ELSE (first[n - 1] + tree.code_size_counts[n - 1]) * 2
  IN  first

FirstIndex(tree) ==
  LET first[n \in CodeSizes] ==
        IF n = 1 THEN 0 ELSE first[n - 1] + tree.code_size_counts[n - 1]
  IN  first

(* The code after each of these bits: it has its first bit first, unlike    *)
(* other numbers.                                                           *)
HuffmanCodes(bits) ==
  LET code[k \in 0..Len(bits)] ==
        IF k = 0 THEN 0 ELSE (2 * code[k - 1]) + bits[k]
  IN  code

IsCode(tree, code, size) ==
  code - tree.code_size_counts[size] < FirstHuffmanCode(tree)[size]

(* The bits there are, as many as a code can have. *)
NextBits(s) ==
  LET loaded == s.buffer \o BitsOfBytes(SubSeq(data, s.offset + 1,
                                               Least(s.offset + 2, Len(data))))
  IN  SubSeq(loaded, 1, Least(MaximumCodeSize, Len(loaded)))

(* The size of the first of these codes that the tree has; nothing when the *)
(* bits end before, or when there is none.                                  *)
SizesOfCode(tree, codes) ==
  {n \in DOMAIN codes \ {0} :
     \A m \in 1..n : IsCode(tree, codes[m], m) <=> m = n}

(* libqcow_huffman_tree_get_symbol_from_bit_stream. *)
Symbols(tree, s) ==
  LET Symbol(codes, n) == tree.symbols[FirstIndex(tree)[n] + codes[n]
                                         - FirstHuffmanCode(tree)[n] + 1]
      Found(codes) ==
        UNION {{[symbol |-> Symbol(codes, n), stream |-> v.stream] :
                  v \in Values(s, n)} : n \in SizesOfCode(tree, codes)}
  IN  UNION {Found(HuffmanCodes(bits)) : bits \in {NextBits(s)}}

(* libqcow_deflate_build_fixed_huffman_trees. *)
FixedLiterals ==
  Tree([s \in 1..288 |->
    IF s <= 144 THEN 8 ELSE IF s <= 256 THEN 9 ELSE IF s <= 280 THEN 7 ELSE 8])
FixedDistances == Tree([s \in 1..30 |-> 5])

-----------------------------------------------------------------------------
(* A call, and the blocks of the data.                                     *)

NoChecksum == [words |-> FirstWords, data_offset |-> 0, unreduced |-> 0]

NothingInflated ==
  /\ byte_stream_offset = 0
  /\ bit_buffer = <<>>
  /\ last_block_flag = FALSE
  /\ literals_tree = NoTree
  /\ distances_tree = NoTree
  /\ codes_tree = NoTree
  /\ code_size_array = <<>>
  /\ number_of_literal_codes = 0
  /\ number_of_distance_codes = 0
  /\ compression_size = 0
  /\ uncompressed_data = <<>>
  /\ checksum = NoChecksum
  /\ at = "call"

InflaterInit ==
  /\ input \in Calls
  /\ NothingInflated

(* The two bytes of a zlib header, four more when it names a dictionary,    *)
(* which is not looked at.  The check bits are not looked at either.        *)
DataHeaderSize(i) ==
  IF ~i.zlib THEN 0 ELSE IF (i.data[2] \div 32) % 2 = 1 THEN 6 ELSE 2

IsDataHeader(i) ==
  i.zlib =>
    /\ Len(i.data) >= 2
    /\ (i.data[2] \div 32) % 2 = 1 => Len(i.data) >= 8
    /\ i.data[1] % 16 = 8
    /\ 2 ^ ((i.data[1] \div 16) + 8) <= 32768

Accepted(i) == IsDataHeader(i) /\ DataHeaderSize(i) < Len(i.data)

Fail ==
  /\ at' = "error"
  /\ UNCHANGED <<input, stream, decoding, uncompressed_data, checksum>>

Decompress ==
  /\ at = "call"
  /\ Accepted(input)
  /\ byte_stream_offset' = DataHeaderSize(input)
  /\ at' = "header"
  /\ UNCHANGED <<input, bit_buffer, decoding, uncompressed_data, checksum>>

CannotDecompress ==
  /\ at = "call"
  /\ ~Accepted(input)
  /\ Fail

(* What comes after a block: another one, unless this was the last or no    *)
(* byte is left, whether it was the last or not.                            *)
AfterBlock(offset) ==
  at' = IF last_block_flag \/ offset >= Len(data)
        THEN IF input.zlib THEN "trailer" ELSE "done"
        ELSE "header"

ReadBlockHeader ==
  /\ at = "header"
  /\ \E v \in Values(Stream, 3) :
       /\ last_block_flag' = (v.bits[1] = 1)
       /\ Number(SubSeq(v.bits, 2, 3)) # 3
       /\ at' = <<"stored", "fixed", "dynamic">>[Number(SubSeq(v.bits, 2, 3)) + 1]
       /\ MoveTo(v.stream)
  /\ UNCHANGED <<input, trees, sizes, compression_size, uncompressed_data,
                 checksum>>

CannotReadBlockHeader ==
  /\ at = "header"
  /\ \A v \in Values(Stream, 3) : Number(SubSeq(v.bits, 2, 3)) = 3
  /\ Fail

-----------------------------------------------------------------------------
(* A block that is stored: the rest of a byte is skipped, two words say the *)
(* same size, and the bytes follow.                                         *)

SkipBits == Len(bit_buffer) % 8

BlockSizes ==
  {[size |-> Number(SubSeq(v.bits, 1, 16)), stream |-> v.stream] :
     v \in {w \in UNION {Values(u.stream, 32) : u \in Values(Stream, SkipBits)} :
              \A k \in 1..16 : w.bits[k] # w.bits[k + 16]}}

(* Mutant: the last byte of the buffer is taken for one too many. *)
StoredFitsNever(b) ==
  /\ b.size <= Len(data) - b.stream.offset
  /\ b.size < input.size - Len(uncompressed_data)

StoredFits(b) ==
  /\ b.size <= Len(data) - b.stream.offset
  /\ b.size <= input.size - Len(uncompressed_data)

ReadStored ==
  /\ at = "stored"
  /\ \E b \in BlockSizes :
       LET end == b.stream.offset + b.size
       IN  /\ StoredFits(b)
           /\ uncompressed_data' =
                uncompressed_data \o SubSeq(data, b.stream.offset + 1, end)
           /\ MoveTo([offset |-> end, buffer |-> <<>>])
           /\ AfterBlock(end)
  /\ UNCHANGED <<input, decoding, checksum>>

CannotReadStored ==
  /\ at = "stored"
  /\ \A b \in BlockSizes : ~StoredFits(b)
  /\ Fail

-----------------------------------------------------------------------------
(* Trees of a block.                                                       *)

UseFixedTrees ==
  /\ at = "fixed"
  /\ literals_tree' = FixedLiterals
  /\ distances_tree' = FixedDistances
  /\ at' = "symbol"
  /\ UNCHANGED <<input, stream, last_block_flag, sizes, compression_size,
                 uncompressed_data, checksum>>

code_sizes_sequence ==
  <<16, 17, 18, 0, 8, 7, 9, 6, 10, 5, 11, 4, 12, 3, 13, 2, 14, 1, 15>>

(* The numbers of codes, and the sizes of the codes that sizes of codes are *)
(* written with.                                                            *)
CodesHeaders ==
  LET Sizes(n) == UNION {
        {[literals |-> Number(SubSeq(v.bits, 1, 5)) + 257,
          distances |-> Number(SubSeq(v.bits, 6, 10)) + 1,
          bits |-> w.bits, stream |-> w.stream] :
           w \in Values(v.stream, 3 * n)} :
         v \in {u \in Values(Stream, 14) : Number(SubSeq(u.bits, 11, 14)) + 4 = n}}
  IN  {h \in UNION {Sizes(n) : n \in 4..19} :
         h.literals <= 286 /\ h.distances <= 30}

code_size_index ==
  [s \in 0..18 |-> CHOOSE k \in 1..19 : code_sizes_sequence[k] = s]

CodesTrees(bits) ==
  LET Size(k) == IF 3 * k <= Len(bits)
                 THEN Number(SubSeq(bits, (3 * k) - 2, 3 * k)) ELSE 0
  IN  Trees([s \in 1..19 |-> Size(code_size_index[s - 1])])

ReadCodesTree ==
  /\ at = "dynamic"
  /\ \E h \in CodesHeaders : \E t \in CodesTrees(h.bits) :
       /\ codes_tree' = t
       /\ number_of_literal_codes' = h.literals
       /\ number_of_distance_codes' = h.distances
       /\ MoveTo(h.stream)
  /\ code_size_array' = <<>>
  /\ at' = "code_sizes"
  /\ UNCHANGED <<input, last_block_flag, trees, compression_size,
                 uncompressed_data, checksum>>

CannotReadCodesTree ==
  /\ at = "dynamic"
  /\ \A h \in CodesHeaders : CodesTrees(h.bits) = {}
  /\ Fail

number_of_code_sizes == number_of_literal_codes + number_of_distance_codes

(* One round of the loop that reads the sizes of the codes: a size, or the  *)
(* one before or a zero to be repeated.                                     *)
Repeat(symbol) ==
  CASE symbol = 16 -> [bits |-> 2, times |-> 3]
    [] symbol = 17 -> [bits |-> 3, times |-> 3]
    [] symbol = 18 -> [bits |-> 7, times |-> 11]

Runs ==
  LET Run(d) ==
        IF d.symbol < 16 THEN {[run |-> <<d.symbol>>, stream |-> d.stream]}
        ELSE IF d.symbol = 16 /\ code_size_array = <<>> THEN {}
        ELSE LET size == IF d.symbol = 16
                         THEN code_size_array[Len(code_size_array)] ELSE 0
             IN  {[run |-> [k \in 1..(Repeat(d.symbol).times + Number(v.bits))
                              |-> size],
                   stream |-> v.stream] :
                    v \in Values(d.stream, Repeat(d.symbol).bits)}
  IN  {r \in UNION {Run(d) : d \in Symbols(codes_tree, Stream)} :
         Len(code_size_array) + Len(r.run) <= number_of_code_sizes}

ReadCodeSizes ==
  /\ at = "code_sizes"
  /\ \E r \in Runs :
       /\ code_size_array' = code_size_array \o r.run
       /\ MoveTo(r.stream)
  /\ at' = IF Len(code_size_array') < number_of_code_sizes
           THEN "code_sizes" ELSE "build"
  /\ UNCHANGED <<input, last_block_flag, trees, codes_tree,
                 number_of_literal_codes, number_of_distance_codes,
                 compression_size, uncompressed_data, checksum>>

CannotReadCodeSizes ==
  /\ at = "code_sizes"
  /\ Runs = {}
  /\ Fail

LiteralCodeSizes == SubSeq(code_size_array, 1, number_of_literal_codes)
DistanceCodeSizes ==
  SubSeq(code_size_array, number_of_literal_codes + 1, number_of_code_sizes)

(* Every block has an end: symbol 256 must have a code. *)
BuildDynamicTrees ==
  /\ at = "build"
  /\ code_size_array[257] # 0
  /\ \E l \in Trees(LiteralCodeSizes), d \in Trees(DistanceCodeSizes) :
       /\ literals_tree' = l
       /\ distances_tree' = d
  /\ codes_tree' = NoTree
  /\ code_size_array' = <<>>
  /\ number_of_literal_codes' = 0
  /\ number_of_distance_codes' = 0
  /\ at' = "symbol"
  /\ UNCHANGED <<input, stream, last_block_flag, compression_size,
                 uncompressed_data, checksum>>

CannotBuildDynamicTrees ==
  /\ at = "build"
  /\ \/ code_size_array[257] = 0
     \/ Trees(LiteralCodeSizes) = {}
     \/ Trees(DistanceCodeSizes) = {}
  /\ Fail

-----------------------------------------------------------------------------
(* The symbols of a block.                                                 *)

literal_codes_base ==
  <<3, 4, 5, 6, 7, 8, 9, 10, 11, 13, 15, 17, 19, 23, 27, 31, 35, 43, 51, 59,
    67, 83, 99, 115, 131, 163, 195, 227, 258>>
(* Mutant: the last code has extra bits like the ones before it. *)
LastHasExtraBits ==
  <<0, 0, 0, 0, 0, 0, 0, 0, 1, 1, 1, 1, 2, 2, 2, 2, 3, 3, 3, 3, 4, 4, 4, 4,
    5, 5, 5, 5, 5>>

literal_codes_number_of_extra_bits ==
  <<0, 0, 0, 0, 0, 0, 0, 0, 1, 1, 1, 1, 2, 2, 2, 2, 3, 3, 3, 3, 4, 4, 4, 4,
    5, 5, 5, 5, 0>>
distance_codes_base ==
  <<1, 2, 3, 4, 5, 7, 9, 13, 17, 25, 33, 49, 65, 97, 129, 193, 257, 385, 513,
    769, 1025, 1537, 2049, 3073, 4097, 6145, 8193, 12289, 16385, 24577>>
distance_codes_number_of_extra_bits ==
  <<0, 0, 0, 0, 1, 1, 2, 2, 3, 3, 4, 4, 5, 5, 6, 6, 7, 7, 8, 8, 9, 9, 10, 10,
    11, 11, 12, 12, 13, 13>>

LiteralsOrSizes == Symbols(literals_tree, Stream)

(* The sizes of matches, with their extra bits. *)
MatchSizes(d) ==
  IF d.symbol \notin 257..285 THEN {}
  ELSE {[size |-> literal_codes_base[d.symbol - 256] + Number(v.bits),
         stream |-> v.stream] :
          v \in Values(d.stream,
                       literal_codes_number_of_extra_bits[d.symbol - 256])}

IsLiteral(d) == d.symbol \in 0..255 /\ Len(uncompressed_data) < input.size

DecodeLiteral ==
  /\ at = "symbol"
  /\ \E d \in LiteralsOrSizes :
       /\ IsLiteral(d)
       /\ uncompressed_data' = Append(uncompressed_data, d.symbol)
       /\ MoveTo(d.stream)
  /\ UNCHANGED <<input, decoding, checksum, at>>

DecodeMatchSize ==
  /\ at = "symbol"
  /\ \E d \in LiteralsOrSizes : \E m \in MatchSizes(d) :
       /\ compression_size' = m.size
       /\ MoveTo(m.stream)
  /\ at' = "distance"
  /\ UNCHANGED <<input, last_block_flag, trees, sizes, uncompressed_data,
                 checksum>>

(* The trees of a dynamic block are freed; fixed ones are kept, and built   *)
(* the same when they are needed again.                                     *)
EndBlock ==
  /\ at = "symbol"
  /\ \E d \in LiteralsOrSizes :
       /\ d.symbol = 256
       /\ MoveTo(d.stream)
       /\ AfterBlock(d.stream.offset)
  /\ literals_tree' = NoTree
  /\ distances_tree' = NoTree
  /\ UNCHANGED <<input, last_block_flag, sizes, compression_size,
                 uncompressed_data, checksum>>

(* Mutant: that no symbol can be decoded is taken for none yet. *)
TryAgain ==
  /\ at = "symbol"
  /\ \A d \in LiteralsOrSizes :
       ~IsLiteral(d) /\ MatchSizes(d) = {} /\ d.symbol # 256
  /\ UNCHANGED inflaterVars

(* Mutant: the end of the data is taken for the end of the block. *)
EndWithData ==
  /\ at = "symbol"
  /\ \A d \in LiteralsOrSizes :
       ~IsLiteral(d) /\ MatchSizes(d) = {} /\ d.symbol # 256
  /\ at' = "done"
  /\ UNCHANGED <<input, stream, decoding, uncompressed_data, checksum>>

CannotDecodeSymbol ==
  /\ at = "symbol"
  /\ \A d \in LiteralsOrSizes :
       ~IsLiteral(d) /\ MatchSizes(d) = {} /\ d.symbol # 256
  /\ Fail

Distances == UNION {
  {[distance |-> distance_codes_base[d.symbol + 1] + Number(v.bits),
    stream |-> v.stream] :
     v \in Values(d.stream, distance_codes_number_of_extra_bits[d.symbol + 1])} :
  d \in Symbols(distances_tree, Stream)}

(* Mutant: a match is not compared with the room there is. *)
MatchReaches(m) == m.distance <= Len(uncompressed_data)

MatchFits(m) ==
  /\ m.distance <= Len(uncompressed_data)
  /\ Len(uncompressed_data) + compression_size <= input.size

(* Mutant: a match that overlaps itself repeats one byte. *)
CopyOfOne(distance) ==
  [k \in 1..compression_size |->
     uncompressed_data[Len(uncompressed_data)
       - IF distance < compression_size THEN 0 ELSE distance - k]]

(* The bytes are copied one after the other: a match that is longer than    *)
(* its distance repeats what it has copied.                                 *)
Copy(distance) ==
  [k \in 1..compression_size |->
     uncompressed_data[Len(uncompressed_data) - distance + 1
                         + ((k - 1) % distance)]]

CopyMatch ==
  /\ at = "distance"
  /\ \E m \in Distances :
       /\ MatchFits(m)
       /\ uncompressed_data' = uncompressed_data \o Copy(m.distance)
       /\ MoveTo(m.stream)
  /\ compression_size' = 0
  /\ at' = "symbol"
  /\ UNCHANGED <<input, last_block_flag, trees, sizes, checksum>>

CannotCopyMatch ==
  /\ at = "distance"
  /\ \A m \in Distances : ~MatchFits(m)
  /\ Fail

-----------------------------------------------------------------------------
(* The checksum after the data, when there are four bytes for it.           *)

HasChecksum == Len(data) - byte_stream_offset >= 4

(* Whole bytes that were loaded and not read are given back. *)
ChecksumOffset == byte_stream_offset - (Len(bit_buffer) \div 8)

StoredChecksum ==
  LET Word(k) == (data[ChecksumOffset + k] * 256) + data[ChecksumOffset + k + 1]
  IN  [lower_word |-> Word(3), upper_word |-> Word(1)]

SkipTrailer ==
  /\ at = "trailer"
  /\ ~HasChecksum
  /\ at' = "done"
  /\ UNCHANGED <<input, stream, decoding, uncompressed_data, checksum>>

ReadTrailer ==
  /\ at = "trailer"
  /\ HasChecksum
  /\ at' = "checksum"
  /\ UNCHANGED <<input, stream, decoding, uncompressed_data, checksum>>

AddByte ==
  /\ at = "checksum"
  /\ checksum.data_offset < Len(uncompressed_data)
  /\ checksum.unreduced < BytesPerReduction
  /\ checksum' = [words |-> AddedByte(checksum.words,
                             uncompressed_data[checksum.data_offset + 1]),
                  data_offset |-> checksum.data_offset + 1,
                  unreduced |-> checksum.unreduced + 1]
  /\ UNCHANGED <<input, stream, decoding, uncompressed_data, at>>

Reduce ==
  /\ at = "checksum"
  /\ checksum.unreduced > 0
  /\ \/ checksum.unreduced = BytesPerReduction
     \/ checksum.data_offset = Len(uncompressed_data)
  /\ checksum' = [checksum EXCEPT !.words = ReducedWords(@), !.unreduced = 0]
  /\ UNCHANGED <<input, stream, decoding, uncompressed_data, at>>

IsAddedUp ==
  checksum.data_offset = Len(uncompressed_data) /\ checksum.unreduced = 0

ChecksumMatches ==
  /\ at = "checksum"
  /\ IsAddedUp
  /\ checksum.words = StoredChecksum
  /\ at' = "done"
  /\ UNCHANGED <<input, stream, decoding, uncompressed_data, checksum>>

ChecksumFails ==
  /\ at = "checksum"
  /\ IsAddedUp
  /\ checksum.words # StoredChecksum
  /\ Fail

-----------------------------------------------------------------------------
Blocks ==
  \/ ReadBlockHeader \/ CannotReadBlockHeader
  \/ ReadStored \/ CannotReadStored

HuffmanTrees ==
  \/ UseFixedTrees
  \/ ReadCodesTree \/ CannotReadCodesTree
  \/ ReadCodeSizes \/ CannotReadCodeSizes
  \/ BuildDynamicTrees \/ CannotBuildDynamicTrees

DecodeHuffman ==
  \/ DecodeLiteral \/ DecodeMatchSize \/ EndBlock \/ CannotDecodeSymbol
  \/ CopyMatch \/ CannotCopyMatch

Trailer ==
  \/ SkipTrailer \/ ReadTrailer \/ AddByte \/ Reduce
  \/ ChecksumMatches \/ ChecksumFails

InflaterNext ==
  \/ Decompress \/ CannotDecompress
  \/ Blocks \/ HuffmanTrees \/ DecodeHuffman \/ Trailer

InflaterSpec == InflaterInit /\ [][InflaterNext]_inflaterVars

-----------------------------------------------------------------------------
HuffmanTree == [code_size_counts : Seq(Nat), symbols : Seq(Nat)]

(* Every variable has its type. *)
InflaterTypeOK ==
  /\ byte_stream_offset \in 0..Len(data)
  /\ bit_buffer \in Seq(Bits)
  /\ last_block_flag \in BOOLEAN
  /\ {literals_tree, distances_tree, codes_tree} \subseteq HuffmanTree
  /\ code_size_array \in Seq(0..MaximumCodeSize)
  /\ number_of_literal_codes \in 0..286
  /\ number_of_distance_codes \in 0..30
  /\ compression_size \in 0..258
  /\ uncompressed_data \in Seq(Bytes)
  /\ checksum \in [words : [lower_word : Nat, upper_word : Nat],
                   data_offset : Nat, unreduced : 0..BytesPerReduction]
  /\ at \in Places

(* The bits that are delivered are those of the bytes, in their order, and  *)
(* none is lost when a stored block goes back to whole bytes: between two   *)
(* calls the buffer holds the last bits of the last byte loaded, fewer than *)
(* eight.  So a call never needs more than the 32 bits of the buffer, and   *)
(* what a stored block copies starts at the byte after its sizes            *)
(* (libqcow_bit_stream_get_value, and read_block which uses its fields).    *)
BitsInOrder ==
  /\ Len(bit_buffer) < 8
  /\ bit_buffer # <<>> =>
       LET bits == BitsOfBytes(<<data[byte_stream_offset]>>)
       IN  bit_buffer = SubSeq(bits, 9 - Len(bit_buffer), 8)

(* Nothing is written after the end of the buffer, whatever literals,       *)
(* stored blocks and matches the data asks for                              *)
(* (libqcow_deflate_decode_huffman, libqcow_deflate_read_block).            *)
StaysInBuffer == Len(uncompressed_data) <= input.size

(* What was compressed comes out again.  Of the encoding of a text, whole   *)
(* or cut, each step writes the next bytes of the text, over matches that   *)
(* overlap themselves, block and byte borders and all forms of blocks; and  *)
(* who is told that it is done has got the whole text, if it was not cut.   *)
WritesText ==
  input.damage # "altered" =>
    /\ Len(uncompressed_data) <= Len(input.text)
    /\ uncompressed_data = SubSeq(input.text, 1, Len(uncompressed_data))
    /\ at = "done" /\ input.damage = "none" => uncompressed_data = input.text

(* Only data that is damaged, or inflates to more than there is room for,   *)
(* is refused: no form of a block or of a match is, and no tree but one     *)
(* without any code, for the distances of a block of literals, which        *)
(* IsMessage leaves out.                                                    *)
OnlyDamageFails ==
  at = "error" /\ input.damage = "none" => Len(input.text) > input.size

(* Data that was cut and yet is taken for whole ended with a block and a    *)
(* byte: nothing of a block that was cut is delivered.  What is missing is  *)
(* missed only by who compares the size (libqcow_file.c:2423).              *)
CutIsNoticed ==
  at = "done" /\ input.damage = "cut" =>
    /\ byte_stream_offset = Len(data) \/ (input.zlib /\ ~HasChecksum)
    /\ ~last_block_flag \/ input.zlib
=============================================================================
