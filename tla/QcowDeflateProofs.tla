-------------------------- MODULE QcowDeflateProofs --------------------------
(***************************************************************************)
(* The inflater never writes past its buffer, never loses the order of the *)
(* bits, never needs more than 32 bits for its checksum, and compares the  *)
(* Adler-32 of what it wrote, whatever the data it is called with.  Data   *)
(* that was written as DeflateFormat says inflates to what was written.    *)
(***************************************************************************)
EXTENDS QcowDeflateLemmas, TLAPS

-----------------------------------------------------------------------------
(* The checksum: its shifts are the remainder that a comment of the code    *)
(* says they are, and 5552 bytes are as many as can be added without it.    *)
(* The numbers are those of 32 bits, which are too large for TLC, and for   *)
(* any prover but the SMT solver.                                           *)

IsWord(v) == v \in Nat /\ v < 4294967296

(* A fold takes away 65521 as often as 65536 goes into the word. *)
LEMMA FoldTakesAway ==
  ASSUME NEW v, IsWord(v)
  PROVE  /\ v \div 65536 \in Nat
         /\ v \div 65536 <= 65535
         /\ Folded(v) = v - (65521 * (v \div 65536))
         /\ Folded(v) \in Nat
         /\ Folded(v) <= 1048560
<1> DEFINE q == v \div 65536
           r == v % 65536
<1>1. v \in Nat /\ v < 4294967296
  BY SMT DEF IsWord
<1>2. q \in Nat /\ q <= 65535 /\ r \in Nat /\ r <= 65535 /\ v = (65536 * q) + r
  BY <1>1, SMT
<1>3. Folded(v) = r + (q * 15)
  BY SMT DEF Folded
<1> HIDE DEF q, r
<1>4. Folded(v) = v - (65521 * q) /\ Folded(v) \in Nat /\ Folded(v) <= 1048560
  BY <1>2, <1>3, SMT
<1> QED
  BY <1>2, <1>4, SMT DEF q

(* The second fold leaves less than twice 65521. *)
LEMMA SecondFoldIsEnough ==
  ASSUME NEW v, IsWord(v)
  PROVE  \E k \in Nat : /\ FoldedTwice(v) = v - (65521 * k)
                        /\ FoldedTwice(v) \in Nat
                        /\ FoldedTwice(v) <= 65760
<1> DEFINE w == Folded(v)
           k1 == v \div 65536
           k2 == w \div 65536
<1>1. v \in Nat /\ k1 \in Nat /\ w = v - (65521 * k1) /\ w \in Nat /\ w <= 1048560
  BY FoldTakesAway, SMT DEF IsWord
<1>2. IsWord(w)
  BY <1>1, SMT DEF IsWord
<1>3. CASE w > 65521
  <2>1. FoldedTwice(v) = Folded(w)
    BY <1>3, SMT DEF FoldedTwice
  <2>2. Folded(w) = (w % 65536) + (k2 * 15)
    BY SMT DEF Folded
  <2>3. k2 \in Nat /\ Folded(w) = w - (65521 * k2) /\ Folded(w) \in Nat
    BY <1>2, FoldTakesAway, SMT
  <2>4. k2 <= 15 /\ w % 65536 \in Nat /\ w % 65536 <= 65535
    BY <1>1, SMT
  <2> HIDE DEF w, k1, k2
  <2>5. Folded(w) <= 65760
    BY <2>2, <2>3, <2>4, SMT
  <2>6. k1 + k2 \in Nat /\ Folded(w) = v - (65521 * (k1 + k2))
    BY <1>1, <2>3, SMT
  <2> QED
    BY <2>1, <2>3, <2>5, <2>6, SMT
<1>4. CASE ~(w > 65521)
  <2>1. FoldedTwice(v) = w
    BY <1>4, SMT DEF FoldedTwice
  <2> HIDE DEF w, k1
  <2> QED
    BY <1>1, <1>4, <2>1, SMT
<1> QED
  BY <1>3, <1>4, SMT

(* What two folds and a subtraction leave of a word of 32 bits is its       *)
(* remainder by 65521, for every word (libqcow_deflate_calculate_adler32).  *)
THEOREM ReducedIsRemainder ==
  ASSUME NEW v, IsWord(v)
  PROVE  Reduced(v) = v % 65521
<1>1. PICK k \in Nat : /\ FoldedTwice(v) = v - (65521 * k)
                       /\ FoldedTwice(v) \in Nat
                       /\ FoldedTwice(v) <= 65760
  BY SecondFoldIsEnough, SMT
<1>2. v \in Nat
  BY SMT DEF IsWord
<1>3. CASE FoldedTwice(v) >= 65521
  <2>1. Reduced(v) = FoldedTwice(v) - 65521
    BY <1>3, SMT DEF Reduced
  <2> QED
    BY <1>1, <1>2, <1>3, <2>1, SMT
<1>4. CASE ~(FoldedTwice(v) >= 65521)
  <2>1. Reduced(v) = FoldedTwice(v)
    BY <1>4, SMT DEF Reduced
  <2> QED
    BY <1>1, <1>2, <1>4, <2>1, SMT
<1> QED
  BY <1>3, <1>4, SMT

-----------------------------------------------------------------------------
(* Reduced words to which n bytes have been added are no larger than if     *)
(* each had been 65520, and each byte 255.                                  *)
AtMost(w, n) ==
  /\ w.lower_word \in Nat
  /\ w.upper_word \in Nat
  /\ w.lower_word <= 65520 + (255 * n)
  /\ 2 * w.upper_word <= (131040 * (n + 1)) + (255 * (n * (n + 1)))

(* Two of a product: the prover is not asked for more at once. *)
LEMMA ProductOfNext ==
  ASSUME NEW n \in Nat
  PROVE  /\ (n + 1) * (n + 2) = (n * (n + 1)) + (2 * (n + 1))
         /\ n * (n + 1) \in Nat
BY SMT

LEMMA ProductsOfSmaller ==
  ASSUME NEW n \in Nat, NEW m \in Nat, n <= m
  PROVE  n * (n + 1) <= m * (m + 1)
<1>1. PICK d \in Nat : m = n + d
  <2>1. m - n \in Nat /\ m = n + (m - n)
    BY SMT
  <2> QED
    BY <2>1
<1>2. m * (m + 1) = (n * (n + 1)) + ((d * n) + (d * (m + 1)))
  BY <1>1, SMT
<1>3. d * n \in Nat /\ d * (m + 1) \in Nat /\ n * (n + 1) \in Nat
  BY <1>1, SMT
<1> QED
  BY <1>2, <1>3, SMT

LEMMA FirstWordsAtMost == AtMost(FirstWords, 0)
BY SMT DEF AtMost, FirstWords

(* Each byte adds itself to the lower word, and that to the upper word. *)
LEMMA AddedByteAtMost ==
  ASSUME NEW w, NEW n \in Nat, AtMost(w, n), NEW byte \in Nat, byte <= 255
  PROVE  AtMost(AddedByte(w, byte), n + 1)
<1> DEFINE l == w.lower_word
           u == w.upper_word
           x == AddedByte(w, byte)
           p == n * (n + 1)
<1>1. /\ l \in Nat /\ u \in Nat
      /\ l <= 65520 + (255 * n)
      /\ 2 * u <= (131040 * (n + 1)) + (255 * p)
  BY DEF AtMost
<1>2. x.lower_word = l + byte /\ x.upper_word = u + (l + byte)
  BY DEF AddedByte
<1>3. (n + 1) * ((n + 1) + 1) = p + (2 * (n + 1)) /\ p \in Nat
  BY ProductOfNext, SMT
<1> HIDE DEF l, u, x, p
<1>4. /\ x.lower_word \in Nat /\ x.upper_word \in Nat
      /\ x.lower_word <= 65520 + (255 * (n + 1))
  BY <1>1, <1>2, SMT
<1>5. 2 * x.upper_word <= (131040 * ((n + 1) + 1)) + (255 * (p + (2 * (n + 1))))
  BY <1>1, <1>2, <1>3, SMT
<1>6. 2 * x.upper_word <= (131040 * ((n + 1) + 1)) + (255 * ((n + 1) * ((n + 1) + 1)))
  BY <1>3, <1>5, SMT
<1> QED
  BY <1>4, <1>6, SMT DEF AtMost, x

(* 5552 bytes are few enough: both words fit 32 bits when they are reduced, *)
(* and with one more byte the upper word would not have to.                 *)
LEMMA WordsFit ==
  ASSUME NEW w, NEW n \in Nat, n <= BytesPerReduction, AtMost(w, n)
  PROVE  IsWord(w.lower_word) /\ IsWord(w.upper_word)
<1> DEFINE l == w.lower_word
           u == w.upper_word
           p == n * (n + 1)
<1>1. /\ l \in Nat /\ u \in Nat
      /\ l <= 65520 + (255 * n)
      /\ 2 * u <= (131040 * (n + 1)) + (255 * p)
  BY DEF AtMost
<1>2. n <= 5552 /\ 5552 \in Nat
  BY SMT DEF BytesPerReduction
<1>3. p <= 5552 * (5552 + 1) /\ p \in Nat
  BY <1>2, ProductsOfSmaller, ProductOfNext, SMT
<1> HIDE DEF l, u, p
<1>4. IsWord(l) /\ IsWord(u)
  BY <1>1, <1>2, <1>3, SMT DEF IsWord
<1> QED
  BY <1>4 DEF l, u

(* Reduced words are as small as the first words. *)
LEMMA ReducedWordsAtMost ==
  ASSUME NEW w, IsWord(w.lower_word), IsWord(w.upper_word)
  PROVE  AtMost(ReducedWords(w), 0)
<1>1. \A v : IsWord(v) => v % 65521 \in Nat /\ v % 65521 <= 65520
  BY SMT DEF IsWord
<1>2. /\ Reduced(w.lower_word) \in Nat /\ Reduced(w.lower_word) <= 65520
      /\ Reduced(w.upper_word) \in Nat /\ Reduced(w.upper_word) <= 65520
  BY <1>1, ReducedIsRemainder
<1>3. /\ ReducedWords(w).lower_word = Reduced(w.lower_word)
      /\ ReducedWords(w).upper_word = Reduced(w.upper_word)
  BY DEF ReducedWords
<1> DEFINE l == Reduced(w.lower_word)
           u == Reduced(w.upper_word)
<1> HIDE DEF l, u
<1>4. l \in Nat /\ u \in Nat /\ l <= 65520 + (255 * 0)
      /\ 2 * u <= (131040 * (0 + 1)) + (255 * (0 * (0 + 1)))
  BY <1>2, SMT DEF l, u
<1> QED
  BY <1>3, <1>4 DEF AtMost, l, u

-----------------------------------------------------------------------------
(* The inductive invariant.                                                *)

StreamInv ==
  /\ data \in Seq(Bytes)
  /\ IsStream(Stream)
  /\ at = "call" => bit_buffer = <<>>

(* Where symbols are decoded there are trees to decode them with. *)
TreesInv ==
  /\ literals_tree \in HuffmanTree
  /\ distances_tree \in HuffmanTree
  /\ codes_tree \in HuffmanTree
  /\ at \in {"symbol", "distance"} =>
       IsTree(literals_tree, 288) /\ IsTree(distances_tree, 30)
  /\ at = "code_sizes" => IsTree(codes_tree, 19)

(* No more sizes of codes are read than there are codes. *)
SizesInv ==
  /\ code_size_array \in Seq(0..15)
  /\ number_of_literal_codes \in Nat /\ number_of_literal_codes <= 286
  /\ number_of_distance_codes \in Nat /\ number_of_distance_codes <= 30
  /\ at = "code_sizes" => Len(code_size_array) <= number_of_code_sizes
  /\ at = "build" => Len(code_size_array) = number_of_code_sizes

OutputInv ==
  /\ compression_size \in Nat /\ compression_size <= 258
  /\ uncompressed_data \in Seq(Bytes)
  /\ input.size \in Nat
  /\ Len(uncompressed_data) <= input.size

Words == [lower_word : Nat, upper_word : Nat]

ChecksumInv ==
  /\ checksum \in [words : Words, data_offset : Nat, unreduced : Nat]
  /\ checksum.data_offset <= Len(uncompressed_data)
  /\ checksum.unreduced <= BytesPerReduction
  /\ AtMost(checksum.words, checksum.unreduced)

InflaterInv ==
  /\ at \in Places
  /\ last_block_flag \in BOOLEAN
  /\ StreamInv
  /\ TreesInv
  /\ SizesInv
  /\ OutputInv
  /\ ChecksumInv

-----------------------------------------------------------------------------
(* What a step leaves alone it leaves true.                                *)

(* A step that reads nothing. *)
LEMMA StreamKept ==
  ASSUME StreamInv, UNCHANGED <<input, stream>>, at' # "call"
  PROVE  StreamInv'
<1>1. data' = data /\ byte_stream_offset' = byte_stream_offset
      /\ bit_buffer' = bit_buffer
  BY DEF data, stream
<1> QED
  BY <1>1 DEF StreamInv, IsStream, Stream

(* A step that reads up to a stream in order. *)
LEMMA StreamMoved ==
  ASSUME StreamInv, NEW s, IsStream(s), UNCHANGED input, MoveTo(s), at' # "call"
  PROVE  StreamInv'
<1>1. data' = data /\ byte_stream_offset' = s.offset /\ bit_buffer' = s.buffer
  BY DEF data, MoveTo
<1> QED
  BY <1>1 DEF StreamInv, IsStream, Stream

(* A stream at a byte is in order. *)
LEMMA WholeBytes ==
  ASSUME NEW o \in 0..Len(data)
  PROVE  IsStream([offset |-> o, buffer |-> <<>>])
<1> DEFINE s == [offset |-> o, buffer |-> <<>>]
<1>1. s.offset \in 0..Len(data) /\ s.buffer = <<>>
  OBVIOUS
<1>2. <<>> \in Seq(Bits) /\ Len(<<>>) = 0
  OBVIOUS
<1> HIDE DEF s
<1>3. IsStream(s)
  BY <1>1, <1>2 DEF IsStream
<1> QED
  BY <1>3 DEF s

(* A step that keeps the trees. *)
LEMMA TreesKept ==
  ASSUME TreesInv, UNCHANGED <<trees, codes_tree>>,
         at' \in {"symbol", "distance"} => at \in {"symbol", "distance"},
         at' = "code_sizes" => at = "code_sizes"
  PROVE  TreesInv'
<1>1. literals_tree' = literals_tree /\ distances_tree' = distances_tree
      /\ codes_tree' = codes_tree
  BY DEF trees
<1> QED
  BY <1>1 DEF TreesInv, IsTree, FirstIndex

(* A step that keeps the sizes of codes, and goes on to something else. *)
LEMMA SizesKept ==
  ASSUME SizesInv,
         UNCHANGED <<code_size_array, number_of_literal_codes,
                     number_of_distance_codes>>,
         at' \notin {"code_sizes", "build"}
  PROVE  SizesInv'
BY DEF SizesInv, number_of_code_sizes

(* A step that writes nothing. *)
LEMMA OutputKept ==
  ASSUME OutputInv, UNCHANGED <<input, compression_size, uncompressed_data>>
  PROVE  OutputInv'
BY DEF OutputInv

(* A step that neither writes nor adds up. *)
LEMMA ChecksumKept ==
  ASSUME ChecksumInv, UNCHANGED <<uncompressed_data, checksum>>
  PROVE  ChecksumInv'
BY DEF ChecksumInv

(* The output grows. *)
LEMMA ChecksumOfMore ==
  ASSUME ChecksumInv, OutputInv, NEW more \in Seq(Bytes),
         uncompressed_data' = uncompressed_data \o more, UNCHANGED checksum
  PROVE  ChecksumInv'
<1>1. Len(uncompressed_data') = Len(uncompressed_data) + Len(more)
  BY ConcatenationOf DEF OutputInv
<1>2. Len(uncompressed_data) \in Nat /\ Len(more) \in Nat
  BY DEF OutputInv
<1> DEFINE L == Len(uncompressed_data)
           M == Len(uncompressed_data')
           o == checksum.data_offset
<1>3. o \in Nat /\ o <= L /\ checksum' = checksum
  BY DEF ChecksumInv
<1> HIDE DEF L, M, o
<1>4. o <= M
  BY <1>1, <1>2, <1>3 DEF L, M
<1>5. checksum'.data_offset <= Len(uncompressed_data')
  BY <1>3, <1>4 DEF o, M
<1> QED
  BY <1>3, <1>5 DEF ChecksumInv

(* A step that writes what there is room for. *)
LEMMA OutputOfMore ==
  ASSUME OutputInv, NEW more \in Seq(Bytes),
         uncompressed_data' = uncompressed_data \o more, UNCHANGED input,
         Len(uncompressed_data) + Len(more) <= input.size,
         compression_size' \in Nat, compression_size' <= 258
  PROVE  OutputInv'
<1>1. /\ uncompressed_data' \in Seq(Bytes)
      /\ Len(uncompressed_data') = Len(uncompressed_data) + Len(more)
  BY ConcatenationOf DEF OutputInv
<1> QED
  BY <1>1 DEF OutputInv

-----------------------------------------------------------------------------
(* Each action.                                                            *)

(* An error ends the call. *)
LEMMA FailKeepsInv ==
  ASSUME InflaterInv, Fail
  PROVE  InflaterInv'
<1>1. UNCHANGED <<input, stream, decoding, uncompressed_data, checksum>>
      /\ at' = "error"
  BY DEF Fail
<1>2. /\ UNCHANGED <<input, stream>> /\ UNCHANGED <<uncompressed_data, checksum>>
      /\ UNCHANGED <<input, compression_size, uncompressed_data>>
      /\ UNCHANGED <<code_size_array, number_of_literal_codes,
                     number_of_distance_codes>>
      /\ UNCHANGED <<trees, codes_tree>>
      /\ UNCHANGED last_block_flag
      /\ at' \notin {"call", "code_sizes", "build", "symbol", "distance"}
      /\ at' \in Places
  BY <1>1 DEF decoding, sizes, Places
<1>3. StreamInv' /\ SizesInv' /\ OutputInv' /\ ChecksumInv' /\ TreesInv'
  BY <1>2, StreamKept, SizesKept, OutputKept, ChecksumKept, TreesKept DEF InflaterInv
<1> QED
  BY <1>2, <1>3 DEF InflaterInv

(* The header of zlib is skipped when data comes after it. *)
LEMMA DecompressKeepsInv ==
  ASSUME InflaterInv, Decompress
  PROVE  InflaterInv'
<1> DEFINE o == DataHeaderSize(input)
<1>1. /\ at = "call" /\ o < Len(data) /\ byte_stream_offset' = o /\ at' = "header"
      /\ UNCHANGED <<input, bit_buffer, decoding, uncompressed_data, checksum>>
  BY DEF Decompress, Accepted, data
<1>2. /\ UNCHANGED input /\ UNCHANGED <<uncompressed_data, checksum>>
      /\ UNCHANGED <<input, compression_size, uncompressed_data>>
      /\ UNCHANGED <<code_size_array, number_of_literal_codes,
                     number_of_distance_codes>>
      /\ UNCHANGED <<trees, codes_tree>>
      /\ UNCHANGED last_block_flag
      /\ at' \notin {"call", "code_sizes", "build", "symbol", "distance"}
      /\ at' \in Places
  BY <1>1 DEF decoding, sizes, Places
<1>3. SizesInv' /\ OutputInv' /\ ChecksumInv' /\ TreesInv'
  BY <1>2, SizesKept, OutputKept, ChecksumKept, TreesKept DEF InflaterInv
<1>4. StreamInv'
  <2>1. Len(data) \in Nat
    BY DEF InflaterInv, StreamInv
  <2>2. o \in Nat
    BY DEF DataHeaderSize
  <2>3. o \in 0..Len(data)
    BY <1>1, <2>1, <2>2
  <2>4. bit_buffer' = <<>>
    BY <1>1 DEF InflaterInv, StreamInv
  <2> DEFINE s == [offset |-> o, buffer |-> <<>>]
  <2>5. MoveTo(s)
    BY <1>1, <2>4 DEF MoveTo
  <2>6. IsStream(s)
    BY <2>3, WholeBytes
  <2> HIDE DEF s
  <2> QED
    BY <1>2, <2>5, <2>6, StreamMoved DEF InflaterInv
<1> QED
  BY <1>2, <1>3, <1>4 DEF InflaterInv

(* Two bits that are not 3 name one of three forms of a block. *)
LEMMA PlacesAfterHeader ==
  ASSUME InflaterInv, ReadBlockHeader
  PROVE  at' \in {"stored", "fixed", "dynamic"}
<1> DEFINE kind(v) == Number(SubSeq(v.bits, 2, 3))
<1>1. PICK v \in Values(Stream, 3) :
        /\ kind(v) # 3
        /\ at' = <<"stored", "fixed", "dynamic">>[kind(v) + 1]
  BY DEF ReadBlockHeader
<1>2. v.bits \in Seq(Bits) /\ Len(v.bits) = 3
  BY ValuesOfStream DEF InflaterInv, StreamInv
<1>3. kind(v) \in Nat /\ kind(v) < 4
  <2> DEFINE b == SubSeq(v.bits, 2, 3)
  <2>1. b \in Seq(Bits) /\ Len(b) = 3 - 2 + 1
    BY <1>2, SubSeqOf
  <2> HIDE DEF b
  <2>2. Len(b) = 2 /\ Len(b) <= 5
    BY <2>1
  <2>3. Number(b) \in Nat /\ Number(b) < NumbersOf(Len(b))
    BY <2>1, <2>2, NumberOfFewBits
  <2>4. NumbersOf(2) = 4
    BY DEF NumbersOf
  <2> QED
    BY <2>2, <2>3, <2>4 DEF b
<1> HIDE DEF kind
<1> QED
  <2>1. kind(v) + 1 \in 1..3
    BY <1>1, <1>3
  <2>2. \A i \in 1..3 : <<"stored", "fixed", "dynamic">>[i]
                          \in {"stored", "fixed", "dynamic"}
    OBVIOUS
  <2> QED
    BY <1>1, <2>1, <2>2

(* What a header of a block leads to. *)
LEMMA ReadBlockHeaderKeepsInv ==
  ASSUME InflaterInv, ReadBlockHeader
  PROVE  InflaterInv'
<1>1. PICK v \in Values(Stream, 3) :
        /\ last_block_flag' = (v.bits[1] = 1)
        /\ MoveTo(v.stream)
  BY DEF ReadBlockHeader
<1>2. UNCHANGED <<input, trees, sizes, compression_size, uncompressed_data,
                  checksum>>
  BY DEF ReadBlockHeader
<1>3. IsStream(v.stream)
  BY ValuesOfStream DEF InflaterInv, StreamInv
<1>4. at' \in {"stored", "fixed", "dynamic"}
  BY PlacesAfterHeader
<1>5. /\ UNCHANGED input /\ UNCHANGED <<uncompressed_data, checksum>>
      /\ UNCHANGED <<input, compression_size, uncompressed_data>>
      /\ UNCHANGED <<code_size_array, number_of_literal_codes,
                     number_of_distance_codes>>
      /\ UNCHANGED <<trees, codes_tree>>
      /\ at' \notin {"call", "code_sizes", "build", "symbol", "distance"}
      /\ at' \in Places
  BY <1>2, <1>4 DEF sizes, Places
<1>6. SizesInv' /\ OutputInv' /\ ChecksumInv' /\ TreesInv'
  BY <1>5, SizesKept, OutputKept, ChecksumKept, TreesKept DEF InflaterInv
<1>7. StreamInv'
  BY <1>1, <1>3, <1>5, StreamMoved DEF InflaterInv
<1>8. last_block_flag' \in BOOLEAN
  BY <1>1
<1> QED
  BY <1>5, <1>6, <1>7, <1>8 DEF InflaterInv

(* Where a block leads. *)
LEMMA PlacesAfterBlock ==
  ASSUME NEW o, AfterBlock(o)
  PROVE  at' \in {"trailer", "done", "header"}
BY DEF AfterBlock

(* The size of a stored block is a number, and the stream after it in order. *)
LEMMA BlockSizesOfStream ==
  ASSUME StreamInv, NEW b \in BlockSizes
  PROVE  b.size \in Nat /\ IsStream(b.stream)
<1>1. PICK v : /\ v \in UNION {Values(u.stream, 32) : u \in Values(Stream, SkipBits)}
               /\ b = [size |-> Number(SubSeq(v.bits, 1, 16)), stream |-> v.stream]
  BY DEF BlockSizes
<1>2. PICK u \in Values(Stream, SkipBits) : v \in Values(u.stream, 32)
  BY <1>1
<1>3. SkipBits \in Nat
  <2>1. Len(bit_buffer) \in Nat
    BY DEF StreamInv, IsStream, Stream
  <2> QED
    BY <2>1 DEF SkipBits
<1>4. IsStream(u.stream)
  BY <1>2, <1>3, ValuesOfStream DEF StreamInv
<1>5. v.bits \in Seq(Bits) /\ Len(v.bits) = 32 /\ IsStream(v.stream)
  <2>1. 32 \in Nat
    OBVIOUS
  <2> QED
    BY <1>2, <1>4, <2>1, ValuesOfStream DEF StreamInv
<1>6. SubSeq(v.bits, 1, 16) \in Seq(Bits)
  <2>1. 1 \in Nat /\ 16 \in Nat /\ 1 <= 1 /\ 1 <= 16 + 1 /\ 16 <= Len(v.bits)
    BY <1>5
  <2> QED
    BY <1>5, <2>1, SubSeqOf
<1>7. Number(SubSeq(v.bits, 1, 16)) \in Nat
  BY <1>6, NumberIsNatural
<1> QED
  BY <1>1, <1>5, <1>7

(* A stored block goes on at a byte, and fits. *)
LEMMA ReadStoredKeepsInv ==
  ASSUME InflaterInv, ReadStored
  PROVE  InflaterInv'
<1>1. PICK b \in BlockSizes :
        /\ StoredFits(b)
        /\ uncompressed_data' = uncompressed_data
             \o SubSeq(data, b.stream.offset + 1, b.stream.offset + b.size)
        /\ MoveTo([offset |-> b.stream.offset + b.size, buffer |-> <<>>])
        /\ AfterBlock(b.stream.offset + b.size)
  BY DEF ReadStored
<1> DEFINE o == b.stream.offset
           n == b.size
           more == SubSeq(data, o + 1, o + n)
           s == [offset |-> o + n, buffer |-> <<>>]
           room == input.size - Len(uncompressed_data)
           L == Len(data)
<1>2. UNCHANGED <<input, decoding, checksum>>
  BY DEF ReadStored
<1>3. data \in Seq(Bytes) /\ L \in Nat
  BY DEF InflaterInv, StreamInv
<1>4. n \in Nat /\ o \in Nat
  <2>1. n \in Nat /\ IsStream(b.stream)
    BY BlockSizesOfStream DEF InflaterInv
  <2>2. o \in 0..Len(data)
    BY <2>1 DEF IsStream
  <2> QED
    BY <1>3, <2>1, <2>2
<1>5. n <= L - o /\ n <= room
  BY <1>1 DEF StoredFits
<1>6. uncompressed_data' = uncompressed_data \o more /\ MoveTo(s)
  BY <1>1
<1>7. room \in Int /\ room = input.size - Len(uncompressed_data)
      /\ input.size \in Nat /\ Len(uncompressed_data) \in Nat
  BY DEF InflaterInv, OutputInv
<1>8. IsStream(s)
  <2> HIDE DEF o, n
  <2>1. o + n \in 0..Len(data)
    BY <1>3, <1>4, <1>5
  <2> QED
    BY <2>1, WholeBytes
<1>9. more \in Seq(Bytes) /\ Len(more) = n
  <2> HIDE DEF o, n, L
  <2>1. /\ o + 1 \in Nat /\ o + n \in Nat /\ 1 <= o + 1 /\ o + 1 <= (o + n) + 1
        /\ o + n <= L /\ (o + n) - (o + 1) + 1 = n
    BY <1>3, <1>4, <1>5
  <2>2. o + n <= Len(data)
    BY <2>1 DEF L
  <2> QED
    BY <1>3, <2>1, <2>2, SubSeqOf
<1>10. at' \in {"trailer", "done", "header"}
  BY <1>1, PlacesAfterBlock
<1> HIDE DEF o, n, more, s, room
<1>11. Len(uncompressed_data) + Len(more) <= input.size
  BY <1>4, <1>5, <1>7, <1>9
<1>12. /\ UNCHANGED input /\ UNCHANGED checksum /\ UNCHANGED compression_size
       /\ UNCHANGED <<code_size_array, number_of_literal_codes,
                      number_of_distance_codes>>
       /\ UNCHANGED <<trees, codes_tree>>
       /\ UNCHANGED last_block_flag
       /\ at' \notin {"call", "code_sizes", "build", "symbol", "distance"}
       /\ at' \in Places
  BY <1>2, <1>10 DEF decoding, sizes, Places
<1>13. SizesInv' /\ TreesInv'
  BY <1>12, SizesKept, TreesKept DEF InflaterInv
<1>14. StreamInv'
  BY <1>6, <1>8, <1>12, StreamMoved DEF InflaterInv
<1>15. ChecksumInv'
  BY <1>6, <1>9, <1>12, ChecksumOfMore DEF InflaterInv
<1>16. OutputInv'
  <2>1. compression_size' \in Nat /\ compression_size' <= 258
    BY <1>12 DEF InflaterInv, OutputInv
  <2> QED
    BY <1>6, <1>9, <1>11, <1>12, <2>1, OutputOfMore DEF InflaterInv
<1> QED
  BY <1>12, <1>13, <1>14, <1>15, <1>16 DEF InflaterInv

(* The type of a tree. *)
LEMMA TreeIsHuffmanTree ==
  ASSUME NEW code_sizes, Len(code_sizes) \in Nat
  PROVE  Tree(code_sizes) \in HuffmanTree
<1> DEFINE t == Tree(code_sizes)
<1>1. IsTree(t, Len(code_sizes))
  BY TreeFits
<1>2. t = [code_size_counts |-> t.code_size_counts, symbols |-> t.symbols]
  BY DEF Tree
<1> HIDE DEF t
<1>3. t.code_size_counts \in Seq(Nat)
  <2>1. t.code_size_counts \in [1..15 -> Nat] /\ 15 \in Nat
    BY <1>1, SizesAreNumbers DEF IsTree
  <2> QED
    BY <2>1, SequenceOf
<1>4. t.symbols \in Seq(Nat)
  <2> DEFINE N == Len(code_sizes)
  <2>1. N \in Nat /\ t.symbols \in Seq(0..(N - 1))
    BY <1>1 DEF IsTree
  <2> HIDE DEF N
  <2>2. \A k \in 0..(N - 1) : k \in Nat
    BY <2>1
  <2> QED
    BY <2>1, <2>2
<1>5. t \in HuffmanTree
  BY <1>2, <1>3, <1>4 DEF HuffmanTree
<1> QED
  BY <1>5 DEF t

(* The type of no tree. *)
LEMMA NoTreeIsHuffmanTree == NoTree \in HuffmanTree
<1>1. <<>> \in Seq(Nat)
  OBVIOUS
<1> QED
  BY <1>1 DEF NoTree, HuffmanTree

(* The type of the fixed trees. *)
LEMMA FixedTreesAreHuffmanTrees ==
  FixedLiterals \in HuffmanTree /\ FixedDistances \in HuffmanTree
<1> DEFINE l == [s \in 1..288 |->
             IF s <= 144 THEN 8 ELSE IF s <= 256 THEN 9 ELSE IF s <= 280 THEN 7 ELSE 8]
           d == [s \in 1..30 |-> 5]
<1>1. l \in [1..288 -> Nat] /\ 288 \in Nat
  OBVIOUS
<1>2. d \in [1..30 -> Nat] /\ 30 \in Nat
  OBVIOUS
<1>3. FixedLiterals = Tree(l) /\ FixedDistances = Tree(d)
  BY DEF FixedLiterals, FixedDistances
<1> HIDE DEF l, d
<1>4. Len(l) \in Nat
  BY <1>1, SequenceOf
<1>5. Len(d) \in Nat
  BY <1>2, SequenceOf
<1>6. Tree(l) \in HuffmanTree
  BY <1>4, TreeIsHuffmanTree
<1>7. Tree(d) \in HuffmanTree
  BY <1>5, TreeIsHuffmanTree
<1> QED
  BY <1>3, <1>6, <1>7

(* The fixed trees are those of 288 and 30 codes. *)
LEMMA UseFixedTreesKeepsInv ==
  ASSUME InflaterInv, UseFixedTrees
  PROVE  InflaterInv'
<1>1. /\ literals_tree' = FixedLiterals /\ distances_tree' = FixedDistances
      /\ at' = "symbol"
      /\ UNCHANGED <<input, stream, last_block_flag, sizes, compression_size,
                     uncompressed_data, checksum>>
  BY DEF UseFixedTrees
<1>2. /\ UNCHANGED <<input, stream>> /\ UNCHANGED <<uncompressed_data, checksum>>
      /\ UNCHANGED <<input, compression_size, uncompressed_data>>
      /\ UNCHANGED <<code_size_array, number_of_literal_codes,
                     number_of_distance_codes>>
      /\ UNCHANGED codes_tree
      /\ UNCHANGED last_block_flag
      /\ at' \notin {"call", "code_sizes", "build"}
      /\ at' \in Places
  BY <1>1 DEF sizes, Places
<1>3. SizesInv' /\ OutputInv' /\ ChecksumInv' /\ StreamInv'
  BY <1>2, SizesKept, OutputKept, ChecksumKept, StreamKept DEF InflaterInv
<1>4. IsTree(literals_tree, 288)' /\ IsTree(distances_tree, 30)'
  BY <1>1, FixedTreesFit DEF IsTree, FirstIndex
<1>5. TreesInv'
  BY <1>1, <1>2, <1>4, FixedTreesAreHuffmanTrees DEF TreesInv, InflaterInv
<1> QED
  BY <1>2, <1>3, <1>5 DEF InflaterInv

(* What is read of the numbers of codes is within the limits of the format. *)
LEMMA CodesHeadersOfStream ==
  ASSUME StreamInv, NEW h \in CodesHeaders
  PROVE  /\ h.literals \in Nat /\ h.literals <= 286
         /\ h.distances \in Nat /\ h.distances <= 30
         /\ h.bits \in Seq(Bits)
         /\ IsStream(h.stream)
<1>1. PICK n \in 4..19 : \E v \in Values(Stream, 14) : \E w \in Values(v.stream, 3 * n) :
        h = [literals |-> Number(SubSeq(v.bits, 1, 5)) + 257,
             distances |-> Number(SubSeq(v.bits, 6, 10)) + 1,
             bits |-> w.bits, stream |-> w.stream]
  BY DEF CodesHeaders
<1>2. PICK v \in Values(Stream, 14) : \E w \in Values(v.stream, 3 * n) :
        h = [literals |-> Number(SubSeq(v.bits, 1, 5)) + 257,
             distances |-> Number(SubSeq(v.bits, 6, 10)) + 1,
             bits |-> w.bits, stream |-> w.stream]
  BY <1>1
<1>3. PICK w \in Values(v.stream, 3 * n) :
        h = [literals |-> Number(SubSeq(v.bits, 1, 5)) + 257,
             distances |-> Number(SubSeq(v.bits, 6, 10)) + 1,
             bits |-> w.bits, stream |-> w.stream]
  BY <1>2
<1>4. h.literals <= 286 /\ h.distances <= 30
  BY DEF CodesHeaders
<1>5. v.bits \in Seq(Bits) /\ Len(v.bits) = 14 /\ IsStream(v.stream)
  <2>1. 14 \in Nat
    OBVIOUS
  <2> QED
    BY <2>1, ValuesOfStream DEF StreamInv
<1>6. w.bits \in Seq(Bits) /\ IsStream(w.stream)
  <2>1. 3 * n \in Nat
    OBVIOUS
  <2> QED
    BY <1>5, <2>1, ValuesOfStream DEF StreamInv
<1>7. Number(SubSeq(v.bits, 1, 5)) \in Nat
  <2>1. SubSeq(v.bits, 1, 5) \in Seq(Bits)
    BY <1>5, SubSeqOf
  <2> QED
    BY <2>1, NumberIsNatural
<1>8. Number(SubSeq(v.bits, 6, 10)) \in Nat
  <2>1. SubSeq(v.bits, 6, 10) \in Seq(Bits)
    BY <1>5, SubSeqOf
  <2> QED
    BY <2>1, NumberIsNatural
<1> QED
  BY <1>3, <1>4, <1>6, <1>7, <1>8

(* The sizes of codes are written with the codes of a tree of 19. *)
LEMMA CodesTreesFit ==
  ASSUME NEW bits, NEW t \in CodesTrees(bits)
  PROVE  IsTree(t, 19) /\ t \in HuffmanTree
<1> DEFINE Size(k) == IF 3 * k <= Len(bits)
                      THEN Number(SubSeq(bits, (3 * k) - 2, 3 * k)) ELSE 0
           code_sizes == [s \in 1..19 |-> Size(code_size_index[s - 1])]
<1>1. t \in Trees(code_sizes)
  BY DEF CodesTrees
<1>2. Len(code_sizes) = 19
  OBVIOUS
<1> HIDE DEF code_sizes
<1>3. 19 \in Nat /\ Len(code_sizes) \in Nat /\ Len(code_sizes) <= 19
  BY <1>2
<1>4. IsTree(t, 19)
  BY <1>1, <1>3, BuiltTreeFits
<1>5. t = Tree(code_sizes)
  BY <1>1 DEF Trees
<1> QED
  BY <1>3, <1>4, <1>5, TreeIsHuffmanTree

(* No sizes of codes are read yet. *)
LEMMA ReadCodesTreeKeepsInv ==
  ASSUME InflaterInv, ReadCodesTree
  PROVE  InflaterInv'
<1>1. PICK h \in CodesHeaders : \E t \in CodesTrees(h.bits) :
        /\ codes_tree' = t
        /\ number_of_literal_codes' = h.literals
        /\ number_of_distance_codes' = h.distances
        /\ MoveTo(h.stream)
  BY DEF ReadCodesTree
<1>2. PICK t \in CodesTrees(h.bits) :
        /\ codes_tree' = t
        /\ number_of_literal_codes' = h.literals
        /\ number_of_distance_codes' = h.distances
        /\ MoveTo(h.stream)
  BY <1>1
<1>3. /\ code_size_array' = <<>>
      /\ at' = "code_sizes"
      /\ UNCHANGED <<input, last_block_flag, trees, compression_size,
                     uncompressed_data, checksum>>
  BY DEF ReadCodesTree
<1>4. /\ h.literals \in Nat /\ h.literals <= 286
      /\ h.distances \in Nat /\ h.distances <= 30
      /\ IsStream(h.stream)
  BY CodesHeadersOfStream DEF InflaterInv
<1>5. IsTree(t, 19) /\ t \in HuffmanTree
  BY CodesTreesFit
<1>6. /\ UNCHANGED input /\ UNCHANGED <<uncompressed_data, checksum>>
      /\ UNCHANGED <<input, compression_size, uncompressed_data>>
      /\ UNCHANGED <<literals_tree, distances_tree>>
      /\ UNCHANGED last_block_flag
      /\ at' # "call"
      /\ at' \in Places
  BY <1>3 DEF trees, Places
<1>7. OutputInv' /\ ChecksumInv'
  BY <1>6, OutputKept, ChecksumKept DEF InflaterInv
<1>8. StreamInv'
  BY <1>2, <1>4, <1>6, StreamMoved DEF InflaterInv
<1>9. SizesInv'
  <2>1. <<>> \in Seq(0..15) /\ Len(<<>>) = 0
    OBVIOUS
  <2>2. number_of_code_sizes' = h.literals + h.distances
    BY <1>2 DEF number_of_code_sizes
  <2>3. Len(code_size_array') <= number_of_code_sizes'
    BY <1>3, <1>4, <2>1, <2>2
  <2>4. at' # "build"
    BY <1>3
  <2> QED
    BY <1>2, <1>3, <1>4, <2>1, <2>3, <2>4 DEF SizesInv
<1>10. IsTree(codes_tree, 19)'
  BY <1>2, <1>5 DEF IsTree, FirstIndex
<1>11. TreesInv'
  BY <1>2, <1>3, <1>5, <1>6, <1>10 DEF TreesInv, InflaterInv
<1> QED
  BY <1>6, <1>7, <1>8, <1>9, <1>11 DEF InflaterInv

(* What is read is a sequence of sizes, and there is room for them. *)
LEMMA RunsOfStream ==
  ASSUME InflaterInv, at = "code_sizes", NEW r \in Runs
  PROVE  /\ r.run \in Seq(0..15)
         /\ IsStream(r.stream)
         /\ Len(code_size_array) + Len(r.run) <= number_of_code_sizes
<1> DEFINE Size(d) == IF d.symbol = 16
                      THEN code_size_array[Len(code_size_array)] ELSE 0
           Repeated(d, v) == [k \in 1..(Repeat(d.symbol).times + Number(v.bits))
                                |-> Size(d)]
<1>1. Len(code_size_array) + Len(r.run) <= number_of_code_sizes
  BY DEF Runs
<1>2. PICK d \in Symbols(codes_tree, Stream) :
        \/ d.symbol < 16 /\ r = [run |-> <<d.symbol>>, stream |-> d.stream]
        \/ /\ ~(d.symbol < 16)
           /\ ~(d.symbol = 16 /\ code_size_array = <<>>)
           /\ \E v \in Values(d.stream, Repeat(d.symbol).bits) :
                r = [run |-> Repeated(d, v), stream |-> v.stream]
  BY DEF Runs
<1>3. IsTree(codes_tree, 19)
  BY DEF InflaterInv, TreesInv
<1>4. d.symbol \in 0..(19 - 1) /\ IsStream(d.stream)
  <2>1. 19 \in Nat
    OBVIOUS
  <2> QED
    BY <1>3, <2>1, SymbolOfTree DEF InflaterInv, StreamInv
<1>5. CASE d.symbol < 16 /\ r = [run |-> <<d.symbol>>, stream |-> d.stream]
  <2>1. d.symbol \in 0..15
    BY <1>4, <1>5
  <2>2. <<d.symbol>> \in Seq(0..15)
    BY <2>1
  <2> QED
    BY <1>1, <1>4, <1>5, <2>2
<1>6. CASE /\ ~(d.symbol < 16)
           /\ ~(d.symbol = 16 /\ code_size_array = <<>>)
           /\ \E v \in Values(d.stream, Repeat(d.symbol).bits) :
                r = [run |-> Repeated(d, v), stream |-> v.stream]
  <2>1. d.symbol = 16 \/ d.symbol = 17 \/ d.symbol = 18
    BY <1>4, <1>6
  <2>2. Repeat(d.symbol).bits \in Nat /\ Repeat(d.symbol).times \in Nat
    <3>1. CASE d.symbol = 16
      BY <3>1 DEF Repeat
    <3>2. CASE d.symbol = 17
      BY <3>2 DEF Repeat
    <3>3. CASE d.symbol = 18
      BY <3>3 DEF Repeat
    <3> QED
      BY <2>1, <3>1, <3>2, <3>3
  <2>3. PICK v \in Values(d.stream, Repeat(d.symbol).bits) :
          r = [run |-> Repeated(d, v), stream |-> v.stream]
    BY <1>6
  <2>4. v.bits \in Seq(Bits) /\ IsStream(v.stream)
    BY <1>4, <2>2, ValuesOfStream DEF InflaterInv, StreamInv
  <2>5. Number(v.bits) \in Nat
    BY <2>4, NumberIsNatural
  <2>6. Size(d) \in 0..15
    <3>1. CASE d.symbol = 16
      <4>1. code_size_array \in Seq(0..15) /\ code_size_array # <<>>
        BY <1>6, <3>1 DEF InflaterInv, SizesInv
      <4>2. Len(code_size_array) \in 1..Len(code_size_array)
        BY <4>1
      <4>3. code_size_array[Len(code_size_array)] \in 0..15
        BY <4>1, <4>2
      <4> QED
        BY <3>1, <4>3
    <3>2. CASE d.symbol # 16
      BY <3>2
    <3> QED
      BY <3>1, <3>2
  <2> DEFINE n == Repeat(d.symbol).times + Number(v.bits)
             size == Size(d)
  <2>7. n \in Nat
    BY <2>2, <2>5
  <2>8. Repeated(d, v) = [k \in 1..n |-> size]
    OBVIOUS
  <2> HIDE DEF n, size
  <2>9. size \in 0..15
    BY <2>6 DEF size
  <2>10. [k \in 1..n |-> size] \in Seq(0..15)
    BY <2>7, <2>9, SequenceOf
  <2>11. Repeated(d, v) \in Seq(0..15)
    BY <2>8, <2>10
  <2> HIDE DEF Repeated
  <2>12. r.run = Repeated(d, v) /\ r.stream = v.stream
    BY <2>3
  <2> QED
    BY <1>1, <2>4, <2>11, <2>12
<1> QED
  BY <1>2, <1>5, <1>6

(* All sizes are read when there are as many as codes, and no more ever are. *)
LEMMA ReadCodeSizesKeepsInv ==
  ASSUME InflaterInv, ReadCodeSizes
  PROVE  InflaterInv'
<1>1. PICK r \in Runs : code_size_array' = code_size_array \o r.run /\ MoveTo(r.stream)
  BY DEF ReadCodeSizes
<1>2. /\ at = "code_sizes"
      /\ at' = IF Len(code_size_array') < number_of_code_sizes
               THEN "code_sizes" ELSE "build"
      /\ UNCHANGED <<input, last_block_flag, trees, codes_tree,
                     number_of_literal_codes, number_of_distance_codes,
                     compression_size, uncompressed_data, checksum>>
  BY DEF ReadCodeSizes
<1>3. /\ r.run \in Seq(0..15)
      /\ IsStream(r.stream)
      /\ Len(code_size_array) + Len(r.run) <= number_of_code_sizes
  BY <1>2, RunsOfStream
<1>4. /\ UNCHANGED input /\ UNCHANGED <<uncompressed_data, checksum>>
      /\ UNCHANGED <<input, compression_size, uncompressed_data>>
      /\ UNCHANGED <<trees, codes_tree>>
      /\ UNCHANGED <<number_of_literal_codes, number_of_distance_codes>>
      /\ UNCHANGED last_block_flag
      /\ at' \notin {"call", "symbol", "distance"}
      /\ at' \in Places
  BY <1>2 DEF Places
<1>5. OutputInv' /\ ChecksumInv' /\ TreesInv'
  BY <1>2, <1>4, OutputKept, ChecksumKept, TreesKept DEF InflaterInv
<1>6. StreamInv'
  BY <1>1, <1>3, <1>4, StreamMoved DEF InflaterInv
<1>7. SizesInv'
  <2>1. code_size_array \in Seq(0..15)
    BY DEF InflaterInv, SizesInv
  <2>2. /\ code_size_array' \in Seq(0..15)
        /\ Len(code_size_array') = Len(code_size_array) + Len(r.run)
    BY <1>1, <1>3, <2>1, ConcatenationOf
  <2>3. number_of_code_sizes' = number_of_code_sizes
    BY <1>4 DEF number_of_code_sizes
  <2>4. Len(code_size_array') <= number_of_code_sizes'
    BY <1>3, <2>2, <2>3
  <2>5. number_of_code_sizes' \in Nat /\ Len(code_size_array') \in Nat
    BY <2>2, <2>3 DEF InflaterInv, SizesInv, number_of_code_sizes
  <2>6. at' = "build" => Len(code_size_array') = number_of_code_sizes'
    BY <1>2, <2>3, <2>4, <2>5
  <2> QED
    BY <1>4, <2>2, <2>4, <2>6 DEF InflaterInv, SizesInv
<1> QED
  BY <1>4, <1>5, <1>6, <1>7 DEF InflaterInv

(* The first sizes are those of the literals, the rest those of the distances. *)
LEMMA BuildDynamicTreesKeepsInv ==
  ASSUME InflaterInv, BuildDynamicTrees
  PROVE  InflaterInv'
<1>1. PICK l \in Trees(LiteralCodeSizes), d \in Trees(DistanceCodeSizes) :
        literals_tree' = l /\ distances_tree' = d
  BY DEF BuildDynamicTrees
<1>2. /\ at = "build"
      /\ codes_tree' = NoTree
      /\ code_size_array' = <<>>
      /\ number_of_literal_codes' = 0
      /\ number_of_distance_codes' = 0
      /\ at' = "symbol"
      /\ UNCHANGED <<input, stream, last_block_flag, compression_size,
                     uncompressed_data, checksum>>
  BY DEF BuildDynamicTrees
<1> DEFINE l1 == number_of_literal_codes
           d1 == number_of_distance_codes
<1>3. /\ code_size_array \in Seq(0..15) /\ l1 \in Nat /\ l1 <= 286
      /\ d1 \in Nat /\ d1 <= 30 /\ Len(code_size_array) = l1 + d1
  BY <1>2 DEF InflaterInv, SizesInv, number_of_code_sizes
<1>4. Len(LiteralCodeSizes) = l1
  <2>1. 1 \in Nat /\ 1 <= 1 /\ 1 <= l1 + 1 /\ l1 <= Len(code_size_array)
        /\ l1 - 1 + 1 = l1
    BY <1>3
  <2> QED
    BY <1>3, <2>1, SubSeqOf DEF LiteralCodeSizes
<1>5. Len(DistanceCodeSizes) = d1
  <2> DEFINE a == l1 + 1
             b == l1 + d1
  <2>1. /\ a \in Nat /\ b \in Nat /\ 1 <= a /\ a <= b + 1
        /\ b <= Len(code_size_array) /\ b - a + 1 = d1
    BY <1>3
  <2>2. DistanceCodeSizes = SubSeq(code_size_array, a, b)
    BY DEF DistanceCodeSizes, number_of_code_sizes
  <2> HIDE DEF a, b
  <2>3. Len(SubSeq(code_size_array, a, b)) = b - a + 1
    BY <1>3, <2>1, SubSeqOf
  <2> QED
    BY <2>1, <2>2, <2>3
<1>6. IsTree(l, 288) /\ l \in HuffmanTree
  <2>1. 288 \in Nat /\ Len(LiteralCodeSizes) \in Nat /\ Len(LiteralCodeSizes) <= 288
    BY <1>3, <1>4
  <2>2. l = Tree(LiteralCodeSizes)
    BY DEF Trees
  <2>3. l \in HuffmanTree
    BY <2>1, <2>2, TreeIsHuffmanTree
  <2> QED
    BY <2>1, <2>3, BuiltTreeFits
<1>7. IsTree(d, 30) /\ d \in HuffmanTree
  <2>1. 30 \in Nat /\ Len(DistanceCodeSizes) \in Nat /\ Len(DistanceCodeSizes) <= 30
    BY <1>3, <1>5
  <2>2. d = Tree(DistanceCodeSizes)
    BY DEF Trees
  <2>3. d \in HuffmanTree
    BY <2>1, <2>2, TreeIsHuffmanTree
  <2> QED
    BY <2>1, <2>3, BuiltTreeFits
<1>8. IsTree(literals_tree, 288)' /\ IsTree(distances_tree, 30)'
  BY <1>1, <1>6, <1>7 DEF IsTree, FirstIndex
<1>9. TreesInv'
  BY <1>1, <1>2, <1>6, <1>7, <1>8, NoTreeIsHuffmanTree DEF TreesInv
<1>10. SizesInv'
  <2>1. <<>> \in Seq(0..15)
    OBVIOUS
  <2>2. at' # "code_sizes" /\ at' # "build"
    BY <1>2
  <2> QED
    BY <1>2, <2>1, <2>2 DEF SizesInv
<1>11. /\ UNCHANGED <<input, stream>> /\ UNCHANGED <<uncompressed_data, checksum>>
       /\ UNCHANGED <<input, compression_size, uncompressed_data>>
       /\ UNCHANGED last_block_flag
       /\ at' # "call"
       /\ at' \in Places
  BY <1>2 DEF Places
<1>12. OutputInv' /\ ChecksumInv' /\ StreamInv'
  BY <1>11, OutputKept, ChecksumKept, StreamKept DEF InflaterInv
<1> QED
  BY <1>9, <1>10, <1>11, <1>12 DEF InflaterInv

(* The stream after a symbol is in order. *)
LEMMA LiteralsOrSizesOfStream ==
  ASSUME InflaterInv, at = "symbol", NEW d \in LiteralsOrSizes
  PROVE  IsStream(d.stream)
<1>1. IsTree(literals_tree, 288) /\ 288 \in Nat
  BY DEF InflaterInv, TreesInv
<1>2. d \in Symbols(literals_tree, Stream)
  BY DEF LiteralsOrSizes
<1> QED
  BY <1>1, <1>2, SymbolOfTree DEF InflaterInv, StreamInv

(* A literal fits. *)
LEMMA DecodeLiteralKeepsInv ==
  ASSUME InflaterInv, DecodeLiteral
  PROVE  InflaterInv'
<1>1. PICK d \in LiteralsOrSizes :
        /\ IsLiteral(d)
        /\ uncompressed_data' = Append(uncompressed_data, d.symbol)
        /\ MoveTo(d.stream)
  BY DEF DecodeLiteral
<1>2. at = "symbol" /\ UNCHANGED <<input, decoding, checksum, at>>
  BY DEF DecodeLiteral
<1>3. IsStream(d.stream)
  BY <1>2, LiteralsOrSizesOfStream
<1> DEFINE more == <<d.symbol>>
<1>4. more \in Seq(Bytes) /\ Len(more) = 1
  <2>1. d.symbol \in Bytes
    BY <1>1 DEF IsLiteral, Bytes
  <2> QED
    BY <2>1
<1>5. uncompressed_data' = uncompressed_data \o more
  <2>1. uncompressed_data \in Seq(Bytes) /\ d.symbol \in Bytes
    BY <1>1 DEF InflaterInv, OutputInv, IsLiteral, Bytes
  <2>2. Append(uncompressed_data, d.symbol) = uncompressed_data \o <<d.symbol>>
    BY <2>1
  <2> QED
    BY <1>1, <2>2
<1> HIDE DEF more
<1>6. Len(uncompressed_data) + Len(more) <= input.size
  <2>1. Len(uncompressed_data) < input.size
    BY <1>1 DEF IsLiteral
  <2>2. Len(uncompressed_data) \in Nat /\ input.size \in Nat
    BY DEF InflaterInv, OutputInv
  <2> QED
    BY <1>4, <2>1, <2>2
<1>7. /\ UNCHANGED input /\ UNCHANGED checksum /\ UNCHANGED compression_size
      /\ UNCHANGED <<code_size_array, number_of_literal_codes,
                     number_of_distance_codes>>
      /\ UNCHANGED <<trees, codes_tree>>
      /\ UNCHANGED last_block_flag
      /\ at' = "symbol" /\ at' \notin {"call", "code_sizes", "build"}
      /\ at' \in Places
  BY <1>2 DEF decoding, sizes, Places
<1>8. SizesInv' /\ TreesInv'
  BY <1>2, <1>7, SizesKept, TreesKept DEF InflaterInv
<1>9. StreamInv'
  BY <1>1, <1>3, <1>7, StreamMoved DEF InflaterInv
<1>10. ChecksumInv'
  BY <1>4, <1>5, <1>7, ChecksumOfMore DEF InflaterInv
<1>11. OutputInv'
  <2>1. compression_size' \in Nat /\ compression_size' <= 258
    BY <1>7 DEF InflaterInv, OutputInv
  <2> QED
    BY <1>4, <1>5, <1>6, <1>7, <2>1, OutputOfMore DEF InflaterInv
<1> QED
  BY <1>7, <1>8, <1>9, <1>10, <1>11 DEF InflaterInv

(* What a match takes is at most 258 bytes. *)
LEMMA MatchSizesOfStream ==
  ASSUME StreamInv, NEW d, IsStream(d.stream), NEW m \in MatchSizes(d)
  PROVE  m.size \in Nat /\ m.size <= 258 /\ IsStream(m.stream)
<1> DEFINE base == literal_codes_base[d.symbol - 256]
           extra == literal_codes_number_of_extra_bits[d.symbol - 256]
<1>1. d.symbol \in 257..285
  BY DEF MatchSizes
<1>2. PICK v \in Values(d.stream, extra) :
        m = [size |-> base + Number(v.bits), stream |-> v.stream]
  BY DEF MatchSizes
<1>3. base \in Nat /\ extra \in 0..5 /\ base + NumbersOf(extra) <= 259
  BY <1>1, ExtraBitsOfSizes
<1> HIDE DEF base, extra
<1>4. extra \in Nat /\ extra <= 5
  BY <1>3
<1>5. v.bits \in Seq(Bits) /\ Len(v.bits) = extra /\ IsStream(v.stream)
  BY <1>4, ValuesOfStream DEF StreamInv
<1>6. Number(v.bits) \in Nat /\ Number(v.bits) < NumbersOf(extra)
  BY <1>4, <1>5, NumberOfFewBits
<1>7. NumbersOf(extra) \in Nat
  BY <1>3 DEF NumbersOf
<1>8. base + Number(v.bits) \in Nat /\ base + Number(v.bits) <= 258
  BY <1>3, <1>6, <1>7
<1> QED
  BY <1>2, <1>5, <1>8

(* The size of a match is kept for its distance. *)
LEMMA DecodeMatchSizeKeepsInv ==
  ASSUME InflaterInv, DecodeMatchSize
  PROVE  InflaterInv'
<1>1. PICK d \in LiteralsOrSizes : \E m \in MatchSizes(d) :
        compression_size' = m.size /\ MoveTo(m.stream)
  BY DEF DecodeMatchSize
<1>2. PICK m \in MatchSizes(d) : compression_size' = m.size /\ MoveTo(m.stream)
  BY <1>1
<1>3. /\ at = "symbol" /\ at' = "distance"
      /\ UNCHANGED <<input, last_block_flag, trees, sizes, uncompressed_data,
                     checksum>>
  BY DEF DecodeMatchSize
<1>4. IsStream(d.stream)
  BY <1>3, LiteralsOrSizesOfStream
<1>5. m.size \in Nat /\ m.size <= 258 /\ IsStream(m.stream)
  BY <1>4, MatchSizesOfStream DEF InflaterInv
<1>6. /\ UNCHANGED input /\ UNCHANGED <<uncompressed_data, checksum>>
      /\ UNCHANGED <<code_size_array, number_of_literal_codes,
                     number_of_distance_codes>>
      /\ UNCHANGED <<trees, codes_tree>>
      /\ UNCHANGED last_block_flag
      /\ at' \notin {"call", "code_sizes", "build"}
      /\ at' \in Places
  BY <1>3 DEF sizes, Places
<1>7. SizesInv' /\ ChecksumInv' /\ TreesInv'
  BY <1>3, <1>6, SizesKept, ChecksumKept, TreesKept DEF InflaterInv
<1>8. StreamInv'
  BY <1>2, <1>5, <1>6, StreamMoved DEF InflaterInv
<1>9. OutputInv'
  BY <1>2, <1>5, <1>6 DEF InflaterInv, OutputInv
<1> QED
  BY <1>6, <1>7, <1>8, <1>9 DEF InflaterInv

(* The trees are gone after the block. *)
LEMMA EndBlockKeepsInv ==
  ASSUME InflaterInv, EndBlock
  PROVE  InflaterInv'
<1>1. PICK d \in LiteralsOrSizes : MoveTo(d.stream) /\ AfterBlock(d.stream.offset)
  BY DEF EndBlock
<1>2. /\ at = "symbol" /\ literals_tree' = NoTree /\ distances_tree' = NoTree
      /\ UNCHANGED <<input, last_block_flag, sizes, compression_size,
                     uncompressed_data, checksum>>
  BY DEF EndBlock
<1>3. IsStream(d.stream)
  BY <1>2, LiteralsOrSizesOfStream
<1>4. at' \in {"trailer", "done", "header"}
  BY <1>1, PlacesAfterBlock
<1>5. /\ UNCHANGED input /\ UNCHANGED <<uncompressed_data, checksum>>
      /\ UNCHANGED <<input, compression_size, uncompressed_data>>
      /\ UNCHANGED <<code_size_array, number_of_literal_codes,
                     number_of_distance_codes>>
      /\ UNCHANGED codes_tree
      /\ UNCHANGED last_block_flag
      /\ at' \notin {"call", "code_sizes", "build", "symbol", "distance"}
      /\ at' \in Places
  BY <1>2, <1>4 DEF sizes, Places
<1>6. SizesInv' /\ OutputInv' /\ ChecksumInv'
  BY <1>5, SizesKept, OutputKept, ChecksumKept DEF InflaterInv
<1>7. StreamInv'
  BY <1>1, <1>3, <1>5, StreamMoved DEF InflaterInv
<1>8. TreesInv'
  BY <1>2, <1>5, NoTreeIsHuffmanTree DEF InflaterInv, TreesInv
<1> QED
  BY <1>5, <1>6, <1>7, <1>8 DEF InflaterInv

(* A distance is not 0: its symbol is one of the 30 codes. *)
LEMMA DistancesOfStream ==
  ASSUME InflaterInv, at = "distance", NEW m \in Distances
  PROVE  m.distance \in Nat \ {0} /\ IsStream(m.stream)
<1> DEFINE base(d) == distance_codes_base[d.symbol + 1]
           extra(d) == distance_codes_number_of_extra_bits[d.symbol + 1]
<1>1. PICK d \in Symbols(distances_tree, Stream) : \E v \in Values(d.stream, extra(d)) :
        m = [distance |-> base(d) + Number(v.bits), stream |-> v.stream]
  BY DEF Distances
<1>2. PICK v \in Values(d.stream, extra(d)) :
        m = [distance |-> base(d) + Number(v.bits), stream |-> v.stream]
  BY <1>1
<1>3. d.symbol \in 0..(30 - 1) /\ IsStream(d.stream)
  <2>1. IsTree(distances_tree, 30) /\ 30 \in Nat
    BY DEF InflaterInv, TreesInv
  <2> QED
    BY <2>1, SymbolOfTree DEF InflaterInv, StreamInv
<1>4. base(d) \in Nat \ {0} /\ extra(d) \in Nat
  <2>1. d.symbol + 1 \in 1..30
    BY <1>3
  <2> QED
    BY <2>1, ExtraBitsOfDistances
<1> HIDE DEF base, extra
<1>5. v.bits \in Seq(Bits) /\ IsStream(v.stream)
  BY <1>3, <1>4, ValuesOfStream DEF InflaterInv, StreamInv
<1>6. Number(v.bits) \in Nat
  BY <1>5, NumberIsNatural
<1> QED
  BY <1>2, <1>4, <1>5, <1>6

(* Each byte of a match is one that is there. *)
LEMMA CopyOfBytes ==
  ASSUME OutputInv, NEW distance \in Nat \ {0}, distance <= Len(uncompressed_data)
  PROVE  Copy(distance) \in Seq(Bytes) /\ Len(Copy(distance)) = compression_size
<1> DEFINE L == Len(uncompressed_data)
           n == compression_size
           Place(k) == (L - distance) + 1 + ((k - 1) % distance)
<1>1. uncompressed_data \in Seq(Bytes) /\ L \in Nat /\ n \in Nat /\ distance <= L
  BY DEF OutputInv
<1>2. Copy(distance) = [k \in 1..n |-> uncompressed_data[Place(k)]]
  BY DEF Copy
<1>3. ASSUME NEW k \in 1..n PROVE uncompressed_data[Place(k)] \in Bytes
  <2>1. k - 1 \in Nat
    BY <1>1
  <2>2. (k - 1) % distance \in 0..(distance - 1)
    BY <2>1
  <2> DEFINE r == (k - 1) % distance
  <2>3. Place(k) = (L - distance) + 1 + r
    OBVIOUS
  <2> HIDE DEF r, L, Place
  <2>4. r \in 0..(distance - 1)
    BY <2>2 DEF r
  <2>5. Place(k) \in 1..L
    BY <1>1, <2>3, <2>4
  <2> QED
    BY <1>1, <2>5 DEF L
<1> HIDE DEF n, Place
<1>4. [k \in 1..n |-> uncompressed_data[Place(k)]] \in [1..n -> Bytes]
  BY <1>3
<1>5. /\ [k \in 1..n |-> uncompressed_data[Place(k)]] \in Seq(Bytes)
      /\ Len([k \in 1..n |-> uncompressed_data[Place(k)]]) = n
  BY <1>1, <1>4, SequenceOf
<1> QED
  BY <1>2, <1>5 DEF n

(* A match fits, and starts at a byte that is there. *)
LEMMA CopyMatchKeepsInv ==
  ASSUME InflaterInv, CopyMatch
  PROVE  InflaterInv'
<1>1. PICK m \in Distances :
        /\ MatchFits(m)
        /\ uncompressed_data' = uncompressed_data \o Copy(m.distance)
        /\ MoveTo(m.stream)
  BY DEF CopyMatch
<1>2. /\ at = "distance" /\ compression_size' = 0 /\ at' = "symbol"
      /\ UNCHANGED <<input, last_block_flag, trees, sizes, checksum>>
  BY DEF CopyMatch
<1>3. m.distance \in Nat \ {0} /\ IsStream(m.stream)
  BY <1>2, DistancesOfStream
<1>4. /\ m.distance <= Len(uncompressed_data)
      /\ Len(uncompressed_data) + compression_size <= input.size
  BY <1>1 DEF MatchFits
<1> DEFINE more == Copy(m.distance)
<1>5. more \in Seq(Bytes) /\ Len(more) = compression_size
  BY <1>3, <1>4, CopyOfBytes DEF InflaterInv
<1>6. uncompressed_data' = uncompressed_data \o more
  BY <1>1
<1> HIDE DEF more
<1>7. Len(uncompressed_data) + Len(more) <= input.size
  BY <1>4, <1>5
<1>8. /\ UNCHANGED input /\ UNCHANGED checksum
      /\ UNCHANGED <<code_size_array, number_of_literal_codes,
                     number_of_distance_codes>>
      /\ UNCHANGED <<trees, codes_tree>>
      /\ UNCHANGED last_block_flag
      /\ at' \notin {"call", "code_sizes", "build"}
      /\ at' \in Places
  BY <1>2 DEF sizes, Places
<1>9. SizesInv' /\ TreesInv'
  BY <1>2, <1>8, SizesKept, TreesKept DEF InflaterInv
<1>10. StreamInv'
  BY <1>1, <1>3, <1>8, StreamMoved DEF InflaterInv
<1>11. ChecksumInv'
  BY <1>5, <1>6, <1>8, ChecksumOfMore DEF InflaterInv
<1>12. OutputInv'
  <2>1. compression_size' \in Nat /\ compression_size' <= 258
    BY <1>2
  <2> QED
    BY <1>5, <1>6, <1>7, <1>8, <2>1, OutputOfMore DEF InflaterInv
<1> QED
  BY <1>8, <1>9, <1>10, <1>11, <1>12 DEF InflaterInv

-----------------------------------------------------------------------------
(* The checksum.                                                           *)

(* A byte is added while fewer than 5552 have been. *)
LEMMA AddByteKeepsInv ==
  ASSUME InflaterInv, AddByte
  PROVE  InflaterInv'
<1> DEFINE o == checksum.data_offset
           n == checksum.unreduced
           w == checksum.words
           byte == uncompressed_data[o + 1]
<1>1. /\ at = "checksum" /\ o < Len(uncompressed_data) /\ n < BytesPerReduction
      /\ checksum' = [words |-> AddedByte(w, byte), data_offset |-> o + 1,
                      unreduced |-> n + 1]
      /\ UNCHANGED <<input, stream, decoding, uncompressed_data, at>>
  BY DEF AddByte
<1>2. /\ o \in Nat /\ n \in Nat /\ w \in Words /\ AtMost(w, n)
      /\ uncompressed_data \in Seq(Bytes) /\ Len(uncompressed_data) \in Nat
  BY DEF InflaterInv, ChecksumInv, OutputInv
<1>3. byte \in Nat /\ byte <= 255
  <2>1. o + 1 \in 1..Len(uncompressed_data)
    BY <1>1, <1>2
  <2>2. byte \in Bytes
    BY <1>2, <2>1
  <2> QED
    BY <2>2 DEF Bytes
<1> HIDE DEF o, n, w, byte
<1>4. AtMost(AddedByte(w, byte), n + 1)
  BY <1>2, <1>3, AddedByteAtMost
<1>5. AddedByte(w, byte) \in Words
  BY <1>2, <1>3 DEF AddedByte, Words
<1>6. BytesPerReduction \in Nat
  BY DEF BytesPerReduction
<1>7. /\ UNCHANGED <<input, stream>> /\ UNCHANGED uncompressed_data
      /\ UNCHANGED <<input, compression_size, uncompressed_data>>
      /\ UNCHANGED <<code_size_array, number_of_literal_codes,
                     number_of_distance_codes>>
      /\ UNCHANGED <<trees, codes_tree>>
      /\ UNCHANGED last_block_flag
      /\ at' \notin {"call", "code_sizes", "build", "symbol", "distance"}
      /\ at' \in Places
  BY <1>1 DEF decoding, sizes, Places
<1>8. SizesInv' /\ OutputInv' /\ TreesInv' /\ StreamInv'
  BY <1>7, SizesKept, OutputKept, TreesKept, StreamKept DEF InflaterInv
<1>9. ChecksumInv'
  <2>1. o + 1 \in Nat /\ n + 1 \in Nat /\ o + 1 <= Len(uncompressed_data)
        /\ n + 1 <= BytesPerReduction
    BY <1>1, <1>2, <1>6
  <2> HIDE DEF Words
  <2>2. checksum' \in [words : Words, data_offset : Nat, unreduced : Nat]
    BY <1>1, <1>5, <2>1
  <2>3. /\ checksum'.words = AddedByte(w, byte) /\ checksum'.data_offset = o + 1
        /\ checksum'.unreduced = n + 1
    BY <1>1
  <2> QED
    BY <1>4, <1>7, <2>1, <2>2, <2>3 DEF ChecksumInv
<1> QED
  BY <1>7, <1>8, <1>9 DEF InflaterInv

(* Reduced words are as small as the first. *)
LEMMA ReduceKeepsInv ==
  ASSUME InflaterInv, Reduce
  PROVE  InflaterInv'
<1> DEFINE w == checksum.words
<1>1. /\ at = "checksum"
      /\ checksum' = [checksum EXCEPT !.words = ReducedWords(@), !.unreduced = 0]
      /\ UNCHANGED <<input, stream, decoding, uncompressed_data, at>>
  BY DEF Reduce
<1>2. /\ checksum \in [words : Words, data_offset : Nat, unreduced : Nat]
      /\ checksum.data_offset <= Len(uncompressed_data)
      /\ checksum.unreduced <= BytesPerReduction
      /\ AtMost(w, checksum.unreduced)
  BY DEF InflaterInv, ChecksumInv
<1>3. AtMost(ReducedWords(w), 0)
  <2>1. IsWord(w.lower_word) /\ IsWord(w.upper_word)
    BY <1>2, WordsFit
  <2> QED
    BY <2>1, ReducedWordsAtMost
<1>4. ReducedWords(w) \in Words
  <2>1. /\ ReducedWords(w).lower_word \in Nat /\ ReducedWords(w).upper_word \in Nat
    BY <1>3 DEF AtMost
  <2>2. ReducedWords(w) = [lower_word |-> ReducedWords(w).lower_word,
                           upper_word |-> ReducedWords(w).upper_word]
    BY DEF ReducedWords
  <2> QED
    BY <2>1, <2>2 DEF Words
<1>5. BytesPerReduction \in Nat
  BY DEF BytesPerReduction
<1>6. /\ UNCHANGED <<input, stream>> /\ UNCHANGED uncompressed_data
      /\ UNCHANGED <<input, compression_size, uncompressed_data>>
      /\ UNCHANGED <<code_size_array, number_of_literal_codes,
                     number_of_distance_codes>>
      /\ UNCHANGED <<trees, codes_tree>>
      /\ UNCHANGED last_block_flag
      /\ at' \notin {"call", "code_sizes", "build", "symbol", "distance"}
      /\ at' \in Places
  BY <1>1 DEF decoding, sizes, Places
<1>7. SizesInv' /\ OutputInv' /\ TreesInv' /\ StreamInv'
  BY <1>6, SizesKept, OutputKept, TreesKept, StreamKept DEF InflaterInv
<1>8. ChecksumInv'
  <2>1. /\ checksum' \in [words : Words, data_offset : Nat, unreduced : Nat]
        /\ checksum'.words = ReducedWords(w)
        /\ checksum'.data_offset = checksum.data_offset
        /\ checksum'.unreduced = 0
    BY <1>1, <1>2, <1>4
  <2>2. 0 <= BytesPerReduction
    BY <1>5
  <2> QED
    BY <1>2, <1>3, <1>6, <2>1, <2>2 DEF ChecksumInv
<1> QED
  BY <1>6, <1>7, <1>8 DEF InflaterInv

(* The other steps at the end of the data. *)
LEMMA OtherTrailerKeepsInv ==
  ASSUME InflaterInv,
         UNCHANGED <<input, stream, decoding, uncompressed_data, checksum>>,
         at' \in {"done", "checksum"}
  PROVE  InflaterInv'
<1>1. /\ UNCHANGED <<input, stream>> /\ UNCHANGED <<uncompressed_data, checksum>>
      /\ UNCHANGED <<input, compression_size, uncompressed_data>>
      /\ UNCHANGED <<code_size_array, number_of_literal_codes,
                     number_of_distance_codes>>
      /\ UNCHANGED <<trees, codes_tree>>
      /\ UNCHANGED last_block_flag
      /\ at' \notin {"call", "code_sizes", "build", "symbol", "distance"}
      /\ at' \in Places
  BY DEF decoding, sizes, Places
<1>2. StreamInv' /\ SizesInv' /\ OutputInv' /\ ChecksumInv' /\ TreesInv'
  BY <1>1, StreamKept, SizesKept, OutputKept, ChecksumKept, TreesKept DEF InflaterInv
<1> QED
  BY <1>1, <1>2 DEF InflaterInv

(* A call starts with nothing inflated, whoever makes it. *)
LEMMA NothingInflatedInv == NothingInflated /\ input \in Inputs => InflaterInv
<1> SUFFICES ASSUME NothingInflated, input \in Inputs PROVE InflaterInv
  OBVIOUS
<1>2. data \in Seq(Bytes) /\ input.size \in Nat
  BY DEF Inputs, data
<1>3. NothingInflated
  OBVIOUS
<1>4. StreamInv
  <2>1. Len(data) \in Nat
    BY <1>2
  <2>2. 0 \in 0..Len(data)
    BY <2>1
  <2>3. IsStream([offset |-> 0, buffer |-> <<>>])
    BY <2>2, WholeBytes
  <2>4. Stream = [offset |-> 0, buffer |-> <<>>] /\ bit_buffer = <<>>
    BY <1>3 DEF NothingInflated, Stream
  <2> QED
    BY <1>2, <2>3, <2>4 DEF StreamInv
<1>5. TreesInv
  BY <1>3, NoTreeIsHuffmanTree DEF TreesInv, NothingInflated
<1>6. SizesInv
  <2>1. <<>> \in Seq(0..15)
    OBVIOUS
  <2> QED
    BY <1>3, <2>1 DEF SizesInv, NothingInflated
<1>7. OutputInv
  <2>1. <<>> \in Seq(Bytes) /\ Len(<<>>) = 0
    OBVIOUS
  <2> QED
    BY <1>2, <1>3, <2>1 DEF OutputInv, NothingInflated
<1>8. ChecksumInv
  <2>1. checksum = [words |-> FirstWords, data_offset |-> 0, unreduced |-> 0]
        /\ Len(uncompressed_data) = 0
    BY <1>3 DEF NothingInflated, NoChecksum
  <2>2. FirstWords \in Words
    BY DEF FirstWords, Words
  <2>3. 0 <= BytesPerReduction
    BY DEF BytesPerReduction
  <2> QED
    BY <2>1, <2>2, <2>3, FirstWordsAtMost DEF ChecksumInv
<1>9. at \in Places /\ last_block_flag \in BOOLEAN
  BY <1>3 DEF NothingInflated, Places
<1> QED
  BY <1>4, <1>5, <1>6, <1>7, <1>8, <1>9 DEF InflaterInv

LEMMA InflaterInitInv == InflaterInit => InflaterInv
BY NothingInflatedInv, CallsAreInputs DEF InflaterInit

(* Every other step is an error. *)
LEMMA CannotFails ==
  \/ CannotDecompress \/ CannotReadBlockHeader \/ CannotReadStored
  \/ CannotReadCodesTree \/ CannotReadCodeSizes \/ CannotBuildDynamicTrees
  \/ CannotDecodeSymbol \/ CannotCopyMatch \/ ChecksumFails
  => Fail
BY DEF CannotDecompress, CannotReadBlockHeader, CannotReadStored,
       CannotReadCodesTree, CannotReadCodeSizes, CannotBuildDynamicTrees,
       CannotDecodeSymbol, CannotCopyMatch, ChecksumFails

(* Each step keeps the invariant. *)
LEMMA InflaterNextKeepsInv == InflaterInv /\ [InflaterNext]_inflaterVars => InflaterInv'
<1> SUFFICES ASSUME InflaterInv, [InflaterNext]_inflaterVars PROVE InflaterInv'
  OBVIOUS
<1>1. CASE Decompress
  BY <1>1, DecompressKeepsInv
<1>2. CASE ReadBlockHeader
  BY <1>2, ReadBlockHeaderKeepsInv
<1>3. CASE ReadStored
  BY <1>3, ReadStoredKeepsInv
<1>4. CASE UseFixedTrees
  BY <1>4, UseFixedTreesKeepsInv
<1>5. CASE ReadCodesTree
  BY <1>5, ReadCodesTreeKeepsInv
<1>6. CASE ReadCodeSizes
  BY <1>6, ReadCodeSizesKeepsInv
<1>7. CASE BuildDynamicTrees
  BY <1>7, BuildDynamicTreesKeepsInv
<1>8. CASE DecodeLiteral
  BY <1>8, DecodeLiteralKeepsInv
<1>9. CASE DecodeMatchSize
  BY <1>9, DecodeMatchSizeKeepsInv
<1>10. CASE EndBlock
  BY <1>10, EndBlockKeepsInv
<1>11. CASE CopyMatch
  BY <1>11, CopyMatchKeepsInv
<1>12. CASE AddByte
  BY <1>12, AddByteKeepsInv
<1>13. CASE Reduce
  BY <1>13, ReduceKeepsInv
<1>14. CASE SkipTrailer \/ ReadTrailer \/ ChecksumMatches
  <2>1. /\ UNCHANGED <<input, stream, decoding, uncompressed_data, checksum>>
        /\ at' \in {"done", "checksum"}
    BY <1>14 DEF SkipTrailer, ReadTrailer, ChecksumMatches
  <2> QED
    BY <2>1, OtherTrailerKeepsInv
<1>15. CASE Fail
  BY <1>15, FailKeepsInv
<1>16. CASE UNCHANGED inflaterVars
  <2>1. /\ UNCHANGED <<input, byte_stream_offset, bit_buffer, last_block_flag>>
        /\ UNCHANGED <<literals_tree, distances_tree, codes_tree>>
        /\ UNCHANGED <<code_size_array, number_of_literal_codes,
                       number_of_distance_codes>>
        /\ UNCHANGED <<compression_size, uncompressed_data, checksum, at>>
    BY <1>16 DEF inflaterVars, stream, decoding, trees, sizes
  <2>2. StreamInv'
    <3>1. data' = data /\ Stream' = Stream
      BY <2>1 DEF data, Stream
    <3> QED
      BY <2>1, <3>1 DEF InflaterInv, StreamInv, IsStream
  <2>3. TreesInv'
    BY <2>1 DEF InflaterInv, TreesInv, IsTree, FirstIndex
  <2>4. SizesInv'
    BY <2>1 DEF InflaterInv, SizesInv, number_of_code_sizes
  <2>5. OutputInv' /\ ChecksumInv'
    BY <2>1, OutputKept, ChecksumKept DEF InflaterInv
  <2> QED
    BY <2>1, <2>2, <2>3, <2>4, <2>5 DEF InflaterInv
<1> QED
  BY <1>1, <1>2, <1>3, <1>4, <1>5, <1>6, <1>7, <1>8, <1>9, <1>10, <1>11, <1>12,
     <1>13, <1>14, <1>15, <1>16, CannotFails
     DEF InflaterNext, Blocks, HuffmanTrees, DecodeHuffman, Trailer

(* The invariant holds, for every set of calls. *)
THEOREM InflaterInvariant == InflaterSpec => []InflaterInv
BY InflaterInitInv, InflaterNextKeepsInv, PTL DEF InflaterSpec

(* The output fits. *)
LEMMA InvStays == InflaterInv => StaysInBuffer
BY DEF InflaterInv, OutputInv, StaysInBuffer

(* The types follow. *)
LEMMA InvTyped == InflaterInv => InflaterTypeOK
<1> SUFFICES ASSUME InflaterInv PROVE InflaterTypeOK
  OBVIOUS
<1>1. byte_stream_offset \in 0..Len(data) /\ bit_buffer \in Seq(Bits)
  <2>1. IsStream(Stream)
    BY DEF InflaterInv, StreamInv
  <2> QED
    BY <2>1 DEF IsStream, Stream
<1>2. {literals_tree, distances_tree, codes_tree} \subseteq HuffmanTree
  BY DEF InflaterInv, TreesInv
<1>3. code_size_array \in Seq(0..MaximumCodeSize)
  BY DEF InflaterInv, SizesInv, MaximumCodeSize
<1>4. number_of_literal_codes \in 0..286 /\ number_of_distance_codes \in 0..30
  BY DEF InflaterInv, SizesInv
<1>5. compression_size \in 0..258 /\ uncompressed_data \in Seq(Bytes)
  BY DEF InflaterInv, OutputInv
<1>6. checksum \in [words : [lower_word : Nat, upper_word : Nat],
                    data_offset : Nat, unreduced : 0..BytesPerReduction]
  <2>1. BytesPerReduction \in Nat
    BY DEF BytesPerReduction
  <2>2. /\ checksum \in [words : Words, data_offset : Nat, unreduced : Nat]
        /\ checksum.unreduced <= BytesPerReduction
    BY DEF InflaterInv, ChecksumInv
  <2>3. checksum.unreduced \in 0..BytesPerReduction
    BY <2>1, <2>2
  <2> QED
    BY <2>2, <2>3 DEF Words
<1> QED
  BY <1>1, <1>2, <1>3, <1>4, <1>5, <1>6 DEF InflaterInv, InflaterTypeOK

(* The bits that are left over are those of the last byte. *)
LEMMA InvInOrder == InflaterInv => BitsInOrder
<1> SUFFICES ASSUME InflaterInv PROVE BitsInOrder
  OBVIOUS
<1> DEFINE L == Len(bit_buffer)
           byte == data[byte_stream_offset]
           B == BitsOfBytes(<<byte>>)
<1>1. /\ byte_stream_offset \in 0..Len(data) /\ bit_buffer \in Seq(Bits)
      /\ L < 8
      /\ bit_buffer # <<>> => byte_stream_offset >= 1
      /\ \A i \in 1..L : bit_buffer[i] = BitOf(byte, 8 - L + i)
  <2>1. IsStream(Stream)
    BY DEF InflaterInv, StreamInv
  <2> QED
    BY <2>1 DEF IsStream, Stream
<1>2. ASSUME bit_buffer # <<>> PROVE bit_buffer = SubSeq(B, 9 - L, 8)
  <2>1. data \in Seq(Bytes) /\ Len(data) \in Nat
    BY DEF InflaterInv, StreamInv
  <2>2. byte_stream_offset \in 1..Len(data)
    BY <1>1, <1>2, <2>1
  <2>3. byte \in Bytes
    BY <2>1, <2>2
  <2>4. <<byte>> \in Seq(Bytes) /\ Len(<<byte>>) = 1
    BY <2>3
  <2>5. /\ B \in Seq(Bits) /\ Len(B) = 8
        /\ \A k \in 1..8 : B[k] = BitOf(byte, k)
    <3> DEFINE b == <<byte>>
    <3>1. b \in Seq(Bytes) /\ Len(b) = 1 /\ 8 * Len(b) = 8 /\ b[1] = byte
      BY <2>4
    <3> HIDE DEF b
    <3>2. /\ BitsOfBytes(b) \in Seq(Bits) /\ Len(BitsOfBytes(b)) = 8
          /\ \A k \in 1..8 : BitsOfBytes(b)[k] =
               (b[((k - 1) \div 8) + 1] \div PlaceValues[((k - 1) % 8) + 1]) % 2
      BY <3>1, BitsOfBytesAreBits
    <3>3. \A k \in 1..8 : (k - 1) \div 8 = 0 /\ (k - 1) % 8 = k - 1
      OBVIOUS
    <3>4. \A k \in 1..8 : ((k - 1) \div 8) + 1 = 1 /\ ((k - 1) % 8) + 1 = k
      BY <3>3
    <3>5. \A k \in 1..8 : BitsOfBytes(b)[k] = (byte \div PlaceValues[k]) % 2
      BY <3>1, <3>2, <3>4
    <3> QED
      BY <3>2, <3>5 DEF BitOf, b
  <2>6. L \in Nat
    BY <1>1
  <2> HIDE DEF L, byte, B
  <2>7. /\ 9 - L \in Nat /\ 8 \in Nat /\ 1 <= 9 - L /\ 9 - L <= 8 + 1 /\ 8 <= Len(B)
        /\ 8 - (9 - L) + 1 = L
    BY <1>1, <2>5, <2>6
  <2> DEFINE t == SubSeq(B, 9 - L, 8)
  <2>8. /\ t \in Seq(Bits) /\ Len(t) = 8 - (9 - L) + 1
        /\ \A i \in 1..(8 - (9 - L) + 1) : t[i] = B[(9 - L) + i - 1]
    BY <2>5, <2>7, SubSeqOf
  <2> HIDE DEF t
  <2>9. ASSUME NEW i \in 1..L PROVE bit_buffer[i] = t[i]
    <3>1. (9 - L) + i - 1 = 8 - L + i /\ 8 - L + i \in 1..8
      BY <1>1, <2>6
    <3>2. t[i] = B[8 - L + i]
      BY <2>7, <2>8, <3>1
    <3> QED
      BY <1>1, <2>5, <3>1, <3>2
  <2>10. Len(t) = Len(bit_buffer) /\ bit_buffer \in Seq(Bits)
    BY <1>1, <2>7, <2>8 DEF L
  <2>11. bit_buffer = t
    BY <2>8, <2>9, <2>10 DEF L
  <2> QED
    BY <2>11 DEF t
<1> QED
  BY <1>1, <1>2 DEF BitsInOrder

(* The words fit 32 bits. *)
LEMMA InvFits ==
  InflaterInv => IsWord(checksum.words.lower_word) /\ IsWord(checksum.words.upper_word)
BY WordsFit DEF InflaterInv, ChecksumInv

(* Every variable has its type: no size of a match is more than 258, and *)
(* there are never more than 286 and 30 codes.                              *)
THEOREM InflaterTypeCorrect == InflaterSpec => []InflaterTypeOK
BY InflaterInvariant, InvTyped, PTL

(* Nothing is written past the buffer, for every data, with a header or     *)
(* without, and every size of the buffer (libqcow_deflate_decode_huffman,   *)
(* libqcow_deflate_read_block).                                             *)
THEOREM NothingWrittenPastBuffer == InflaterSpec => []StaysInBuffer
BY InflaterInvariant, InvStays, PTL

(* The bits that are left over between two calls of get_value are the last  *)
(* of the last byte loaded, fewer than eight: so a stored block starts at   *)
(* the byte after it, and the buffer of 32 bits is never too small.         *)
THEOREM BitsStayInOrder == InflaterSpec => []BitsInOrder
BY InflaterInvariant, InvInOrder, PTL

(* Every symbol that is decoded is one of the codes of its tree, so that it *)
(* is never looked up past the end of a table: not in the symbols, which    *)
(* have an entry for each code, and not in the bases and extra bits of the  *)
(* 30 distances, which are not checked again                                *)
(* (libqcow_huffman_tree_get_symbol_from_bit_stream).                       *)
SymbolsInTables ==
  /\ at = "symbol" => \A d \in LiteralsOrSizes : d.symbol \in 0..287
  /\ at = "distance" =>
       \A d \in Symbols(distances_tree, Stream) : d.symbol \in 0..29
  /\ at = "code_sizes" =>
       \A d \in Symbols(codes_tree, Stream) : d.symbol \in 0..18

(* The trees are those of so many codes. *)
LEMMA InvInTables == InflaterInv => SymbolsInTables
<1> SUFFICES ASSUME InflaterInv PROVE SymbolsInTables
  OBVIOUS
<1>1. ASSUME at = "symbol", NEW d \in LiteralsOrSizes PROVE d.symbol \in 0..287
  <2>1. IsTree(literals_tree, 288) /\ 288 \in Nat
    BY <1>1 DEF InflaterInv, TreesInv
  <2>2. d.symbol \in 0..(288 - 1)
    BY <2>1, SymbolOfTree DEF InflaterInv, StreamInv, LiteralsOrSizes
  <2> QED
    BY <2>2
<1>2. ASSUME at = "distance", NEW d \in Symbols(distances_tree, Stream)
      PROVE  d.symbol \in 0..29
  <2>1. IsTree(distances_tree, 30) /\ 30 \in Nat
    BY <1>2 DEF InflaterInv, TreesInv
  <2>2. d.symbol \in 0..(30 - 1)
    BY <2>1, SymbolOfTree DEF InflaterInv, StreamInv
  <2> QED
    BY <2>2
<1>3. ASSUME at = "code_sizes", NEW d \in Symbols(codes_tree, Stream)
      PROVE  d.symbol \in 0..18
  <2>1. IsTree(codes_tree, 19) /\ 19 \in Nat
    BY <1>3 DEF InflaterInv, TreesInv
  <2>2. d.symbol \in 0..(19 - 1)
    BY <2>1, SymbolOfTree DEF InflaterInv, StreamInv
  <2> QED
    BY <2>2
<1> QED
  BY <1>1, <1>2, <1>3 DEF SymbolsInTables

(* No table is read past its end, whatever codes the data defines. *)
THEOREM SymbolsStayInTables == InflaterSpec => []SymbolsInTables
BY InflaterInvariant, InvInTables, PTL

(* The words of the checksum, which are kept in 32 bits and reduced once in *)
(* 5552 bytes, never need more (libqcow_deflate_calculate_adler32).         *)
THEOREM ChecksumNeverOverflows ==
  InflaterSpec => [](/\ IsWord(checksum.words.lower_word)
                     /\ IsWord(checksum.words.upper_word))
BY InflaterInvariant, InvFits, PTL

-----------------------------------------------------------------------------
(* What the checksum is of: the sums by their definition, each taken modulo *)
(* 65521 after every byte.                                                  *)
NextSums(w, byte) ==
  LET lower == (w.lower_word + byte) % 65521
  IN  [lower_word |-> lower, upper_word |-> (w.upper_word + lower) % 65521]

Sums(bytes) ==
  LET sums[k \in 0..Len(bytes)] ==   \* of the first k bytes
        IF k = 0 THEN FirstWords ELSE NextSums(sums[k - 1], bytes[k])
  IN  sums

Adler32(bytes) == Sums(bytes)[Len(bytes)]

LEMMA RemainderOfSum ==
  ASSUME NEW a \in Nat, NEW b \in Nat
  PROVE  /\ a % 65521 \in Nat /\ a % 65521 < 65521
         /\ ((a % 65521) + b) % 65521 = (a + b) % 65521
         /\ (a % 65521) % 65521 = a % 65521
<1> DEFINE q == a \div 65521
           r == a % 65521
           x == r + b
           p == x \div 65521
           y == x % 65521
<1>1. q \in Nat /\ r \in Nat /\ r < 65521 /\ a = (65521 * q) + r
  BY SMT
<1>2. x \in Nat
  BY <1>1, SMT
<1> HIDE DEF x
<1>3. p \in Nat /\ y \in Nat /\ y < 65521 /\ x = (65521 * p) + y
  BY <1>2, SMT
<1> HIDE DEF q, r, p, y
<1>4. a + b = (65521 * (q + p)) + y /\ q + p \in Nat
  BY <1>1, <1>3, SMT DEF x
<1>5. ASSUME NEW k \in Nat, NEW z \in Nat, z < 65521
      PROVE  ((65521 * k) + z) % 65521 = z
  BY <1>5, SMT
<1>6. (a + b) % 65521 = y /\ r % 65521 = r
  <2>1. ((65521 * (q + p)) + y) % 65521 = y
    BY <1>3, <1>4, <1>5
  <2>2. r % 65521 = r
    BY <1>1, SMT
  <2> QED
    BY <1>4, <2>1, <2>2
<1> QED
  BY <1>1, <1>6 DEF r, x, y

LEMMA NextSumsAreWords ==
  ASSUME NEW w \in Words, NEW byte \in Nat
  PROVE  NextSums(w, byte) \in Words
<1>1. w.lower_word \in Nat /\ w.upper_word \in Nat
  BY DEF Words
<1> DEFINE lower == (w.lower_word + byte) % 65521
<1>2. lower \in Nat
  BY <1>1, SMT
<1> HIDE DEF lower
<1>3. (w.upper_word + lower) % 65521 \in Nat
  BY <1>1, <1>2, SMT
<1> QED
  BY <1>2, <1>3 DEF NextSums, Words, lower

LEMMA SumsByRecursion ==
  ASSUME NEW bytes \in Seq(Bytes)
  PROVE  /\ Sums(bytes) \in [0..Len(bytes) -> Words]
         /\ Sums(bytes)[0] = FirstWords
         /\ \A k \in 1..Len(bytes) :
              Sums(bytes)[k] = NextSums(Sums(bytes)[k - 1], bytes[k])
<1> DEFINE Added(k, v) == NextSums(v, bytes[k])
           F == CHOOSE f : f =
             [k \in 0..Len(bytes) |-> IF k = 0 THEN FirstWords ELSE Added(k, f[k - 1])]
           V == Words
           Step == [p \in (0..Len(bytes)) \X V |->
                      IF p[1] = 0 THEN FirstWords ELSE Added(p[1], p[2])]
<1>1. Len(bytes) \in Int /\ 0 <= Len(bytes) /\ 0 \in Int /\ FirstWords \in V
  BY DEF FirstWords, Words
<1>2. ASSUME NEW k \in 0..Len(bytes), k # 0, NEW v \in V PROVE Added(k, v) \in V
  <2>1. k \in 1..Len(bytes)
    BY <1>1, <1>2
  <2>2. bytes[k] \in Bytes
    BY <2>1
  <2>3. \A byte \in Bytes : byte \in Nat
    BY DEF Bytes
  <2> QED
    BY <2>2, <2>3, NextSumsAreWords
<1>3. Sums(bytes) = F
  BY DEF Sums
<1> HIDE DEF V, Added
<1>4. Step \in Steps(0, Len(bytes), V)
  BY <1>1, <1>2 DEF Steps
<1>5. ASSUME NEW k \in 0..Len(bytes), k # 0, NEW v \in V
      PROVE  Step[<<k, v>>] = Added(k, v)
  BY <1>5
<1> HIDE DEF Step
<1>6. PICK f : Recursive(f, 0, Len(bytes), V, FirstWords, Step)
  BY <1>1, <1>4, Recursion
<1>7. f \in [0..Len(bytes) -> V] /\ f[0] = FirstWords
  BY <1>6 DEF Recursive
<1>8. ASSUME NEW k \in 0..Len(bytes), k # 0 PROVE f[k] = Added(k, f[k - 1])
  <2>1. f[k] = Step[<<k, f[k - 1]>>]
    BY <1>6, <1>8 DEF Recursive
  <2>2. f[k - 1] \in V
    BY <1>1, <1>7, <1>8
  <2> QED
    BY <1>5, <1>8, <2>1, <2>2
<1>9. f = [k \in 0..Len(bytes) |-> IF k = 0 THEN FirstWords ELSE Added(k, f[k - 1])]
  BY <1>7, <1>8
<1>10. F = [k \in 0..Len(bytes) |-> IF k = 0 THEN FirstWords ELSE Added(k, F[k - 1])]
  BY <1>9
<1> HIDE DEF F
<1>11. Recursive(F, 0, Len(bytes), V, FirstWords, Step)
  <2>1. F = [k \in 0..Len(bytes) |-> F[k]]
    BY <1>10
  <2>2. 0 \in 0..Len(bytes)
    BY <1>1
  <2>3. F[0] = FirstWords
    BY <1>10, <2>2
  <2>4. \A k \in 0..Len(bytes) :
          k # 0 /\ F[k - 1] \in V => F[k] = Step[<<k, F[k - 1]>>]
    BY <1>5, <1>10
  <2> QED
    BY <1>1, <1>4, <2>1, <2>3, <2>4, RecursionStays
<1>12. F \in [0..Len(bytes) -> V] /\ F[0] = FirstWords
  BY <1>11 DEF Recursive
<1>13. \A k \in 1..Len(bytes) : F[k] = Added(k, F[k - 1])
  BY <1>1, <1>10
<1> QED
  BY <1>3, <1>12, <1>13 DEF V, Added

(* The words are the sums of the bytes added so far, but for multiples of   *)
(* 65521, and the sums themselves when they have just been reduced.  Who is *)
(* done has compared them all.                                              *)
SameSums(w, sums) ==
  /\ w.lower_word % 65521 = sums.lower_word
  /\ w.upper_word % 65521 = sums.upper_word

AdlerInv ==
  /\ at \notin {"checksum", "done", "error"} => checksum = NoChecksum
  /\ SameSums(checksum.words, Sums(uncompressed_data)[checksum.data_offset])
  /\ checksum.unreduced = 0 =>
       checksum.words.lower_word < 65521 /\ checksum.words.upper_word < 65521
  /\ at = "done" /\ input.zlib /\ HasChecksum =>
       IsAddedUp /\ checksum.words = StoredChecksum

(* The sums of a byte more. *)
LEMMA SameSumsOfNext ==
  ASSUME NEW w \in Words, NEW sums \in Words, SameSums(w, sums), NEW byte \in Nat
  PROVE  SameSums(AddedByte(w, byte), NextSums(sums, byte))
<1> DEFINE l == w.lower_word
           u == w.upper_word
           lb == l + byte
           next == lb % 65521
<1>1. l \in Nat /\ u \in Nat /\ lb \in Nat
  BY DEF Words
<1>2. sums.lower_word = l % 65521 /\ sums.upper_word = u % 65521
  BY DEF SameSums
<1>3. AddedByte(w, byte).lower_word = lb /\ AddedByte(w, byte).upper_word = u + lb
  BY DEF AddedByte
<1>4. /\ NextSums(sums, byte).lower_word = (sums.lower_word + byte) % 65521
      /\ NextSums(sums, byte).upper_word =
           (sums.upper_word + ((sums.lower_word + byte) % 65521)) % 65521
  BY DEF NextSums
<1>5. (sums.lower_word + byte) % 65521 = next
  BY <1>1, <1>2, RemainderOfSum
<1> HIDE DEF l, u, lb, next
<1>6. next = lb % 65521 /\ next \in Nat /\ next < 65521
  BY <1>1, RemainderOfSum DEF next
<1>7. ((u % 65521) + next) % 65521 = (u + next) % 65521
  BY <1>1, <1>6, RemainderOfSum
<1>8. (next + u) % 65521 = (lb + u) % 65521
  BY <1>1, <1>6, RemainderOfSum
<1>9. next + u = u + next /\ lb + u = u + lb
  BY <1>1, <1>6
<1>10. (u + lb) % 65521 = ((u % 65521) + next) % 65521
  BY <1>7, <1>8, <1>9
<1> QED
  BY <1>2, <1>3, <1>4, <1>5, <1>6, <1>10 DEF SameSums

LEMMA FirstWordsAreSums ==
  ASSUME NEW bytes \in Seq(Bytes)
  PROVE  SameSums(FirstWords, Sums(bytes)[0])
<1>1. Sums(bytes)[0] = FirstWords
  BY SumsByRecursion
<1>2. FirstWords.lower_word = 1 /\ FirstWords.upper_word = 0
  BY DEF FirstWords
<1>3. 1 % 65521 = 1 /\ 0 % 65521 = 0
  BY SMT
<1> QED
  BY <1>1, <1>2, <1>3 DEF SameSums

(* As long as no byte has been added, the sums are those of none, whatever  *)
(* is written.                                                              *)
LEMMA AdlerBefore ==
  ASSUME uncompressed_data' \in Seq(Bytes), checksum' = NoChecksum,
         at' = "done" => ~(input'.zlib /\ HasChecksum')
  PROVE  AdlerInv'
<1>1. /\ checksum'.words = FirstWords /\ checksum'.data_offset = 0
  BY DEF NoChecksum
<1>2. SameSums(FirstWords, Sums(uncompressed_data')[0])
  BY FirstWordsAreSums
<1>3. FirstWords.lower_word < 65521 /\ FirstWords.upper_word < 65521
  BY SMT DEF FirstWords
<1> QED
  BY <1>1, <1>2, <1>3 DEF AdlerInv

LEMMA AdlerOfInit ==
  ASSUME NothingInflated
  PROVE  AdlerInv
<1>1. uncompressed_data = <<>> /\ checksum = NoChecksum /\ at = "call"
  BY DEF NothingInflated
<1>2. checksum.words = FirstWords /\ checksum.data_offset = 0
  BY <1>1 DEF NoChecksum
<1>3. <<>> \in Seq(Bytes)
  OBVIOUS
<1>4. SameSums(FirstWords, Sums(uncompressed_data)[0])
  BY <1>1, <1>3, FirstWordsAreSums
<1>5. FirstWords.lower_word < 65521 /\ FirstWords.upper_word < 65521
  BY SMT DEF FirstWords
<1> QED
  BY <1>1, <1>2, <1>4, <1>5 DEF AdlerInv

(* A step that only goes somewhere. *)
LEMMA AdlerKept ==
  ASSUME AdlerInv, UNCHANGED <<input, stream, uncompressed_data, checksum>>,
         at' \in {"error", at}
  PROVE  AdlerInv'
<1>1. /\ input' = input /\ byte_stream_offset' = byte_stream_offset
      /\ bit_buffer' = bit_buffer /\ uncompressed_data' = uncompressed_data
      /\ checksum' = checksum
  BY DEF stream
<1> QED
  BY <1>1 DEF AdlerInv, HasChecksum, StoredChecksum, ChecksumOffset, IsAddedUp, data

LEMMA AddByteAdler ==
  ASSUME InflaterInv, AdlerInv, AddByte
  PROVE  AdlerInv'
<1> DEFINE o == checksum.data_offset
           w == checksum.words
           S == Sums(uncompressed_data)
           byte == uncompressed_data[o + 1]
<1>1. /\ at = "checksum" /\ at' = "checksum" /\ o < Len(uncompressed_data)
      /\ checksum' = [words |-> AddedByte(w, byte), data_offset |-> o + 1,
                      unreduced |-> checksum.unreduced + 1]
      /\ uncompressed_data' = uncompressed_data
  BY DEF AddByte
<1>2. /\ o \in Nat /\ checksum.unreduced \in Nat /\ w \in Words
      /\ uncompressed_data \in Seq(Bytes) /\ Len(uncompressed_data) \in Nat
  BY DEF InflaterInv, ChecksumInv, OutputInv
<1>3. SameSums(w, S[o])
  BY DEF AdlerInv
<1>4. /\ S \in [0..Len(uncompressed_data) -> Words]
      /\ \A k \in 1..Len(uncompressed_data) :
           S[k] = NextSums(S[k - 1], uncompressed_data[k])
  BY <1>2, SumsByRecursion
<1> HIDE DEF S
<1>5. o + 1 \in 1..Len(uncompressed_data) /\ (o + 1) - 1 = o
      /\ o \in 0..Len(uncompressed_data)
  BY <1>1, <1>2
<1>6. byte \in Nat
  <2>1. byte \in Bytes
    BY <1>2, <1>5
  <2> QED
    BY <2>1 DEF Bytes
<1>7. S[o + 1] = NextSums(S[o], byte) /\ S[o] \in Words
  BY <1>4, <1>5
<1>8. SameSums(AddedByte(w, byte), S[o + 1])
  BY <1>2, <1>3, <1>6, <1>7, SameSumsOfNext
<1>9. /\ checksum'.words = AddedByte(w, byte) /\ checksum'.data_offset = o + 1
      /\ checksum'.unreduced = checksum.unreduced + 1
  BY <1>1
<1>10. checksum'.unreduced # 0
  BY <1>2, <1>9
<1> QED
  BY <1>1, <1>8, <1>9, <1>10 DEF AdlerInv, S

LEMMA ReduceAdler ==
  ASSUME InflaterInv, AdlerInv, Reduce
  PROVE  AdlerInv'
<1> DEFINE l == checksum.words.lower_word
           u == checksum.words.upper_word
           sums == Sums(uncompressed_data)[checksum.data_offset]
<1>1. /\ at = "checksum" /\ at' = "checksum"
      /\ checksum' = [checksum EXCEPT !.words = ReducedWords(@), !.unreduced = 0]
      /\ uncompressed_data' = uncompressed_data
  BY DEF Reduce
<1>2. checksum \in [words : Words, data_offset : Nat, unreduced : Nat]
  BY DEF InflaterInv, ChecksumInv
<1>3. /\ checksum'.words = ReducedWords(checksum.words)
      /\ checksum'.data_offset = checksum.data_offset
  BY <1>1, <1>2
<1>4. IsWord(l) /\ IsWord(u) /\ l \in Nat /\ u \in Nat
  BY <1>2, InvFits DEF Words
<1>5. /\ checksum'.words.lower_word = l % 65521
      /\ checksum'.words.upper_word = u % 65521
  BY <1>3, <1>4, ReducedIsRemainder DEF ReducedWords
<1>6. l % 65521 = sums.lower_word /\ u % 65521 = sums.upper_word
  BY DEF AdlerInv, SameSums
<1> HIDE DEF l, u, sums
<1>7. /\ (l % 65521) % 65521 = l % 65521 /\ (u % 65521) % 65521 = u % 65521
      /\ l % 65521 < 65521 /\ u % 65521 < 65521
  BY <1>4, RemainderOfSum
<1>8. SameSums(checksum'.words, sums)
  BY <1>5, <1>6, <1>7 DEF SameSums
<1> QED
  BY <1>1, <1>3, <1>5, <1>7, <1>8 DEF AdlerInv, sums

LEMMA ChecksumMatchesAdler ==
  ASSUME InflaterInv, AdlerInv, ChecksumMatches
  PROVE  AdlerInv'
<1>1. /\ at = "checksum" /\ at' = "done" /\ IsAddedUp
      /\ checksum.words = StoredChecksum
      /\ UNCHANGED <<input, byte_stream_offset, bit_buffer, uncompressed_data,
                     checksum>>
  BY DEF ChecksumMatches, stream
<1> QED
  BY <1>1 DEF AdlerInv, HasChecksum, StoredChecksum, ChecksumOffset, IsAddedUp, data

(* Who is done after a block has no checksum to compare. *)
LEMMA AdlerOfBlocks ==
  ASSUME InflaterInv, InflaterInv', AdlerInv,
         at \notin {"checksum", "done", "error"}, UNCHANGED <<input, checksum>>,
         at' = "done" => ~input.zlib
  PROVE  AdlerInv'
<1>1. checksum' = NoChecksum
  BY DEF AdlerInv
<1>2. uncompressed_data' \in Seq(Bytes)
  BY DEF InflaterInv, OutputInv
<1> QED
  BY <1>1, <1>2, AdlerBefore

LEMMA InflaterNextAdler ==
  InflaterInv /\ AdlerInv /\ [InflaterNext]_inflaterVars => AdlerInv'
<1> SUFFICES ASSUME InflaterInv, AdlerInv, [InflaterNext]_inflaterVars
             PROVE  AdlerInv'
  OBVIOUS
<1>1. InflaterInv'
  BY InflaterNextKeepsInv
<1>2. CASE \/ Decompress \/ ReadBlockHeader \/ UseFixedTrees \/ ReadCodesTree
           \/ ReadCodeSizes \/ BuildDynamicTrees \/ DecodeLiteral
           \/ DecodeMatchSize \/ CopyMatch \/ ReadTrailer
  <2>1. /\ at \notin {"checksum", "done", "error"} /\ UNCHANGED <<input, checksum>>
        /\ at' # "done"
    <3>1. CASE ReadBlockHeader
      BY <3>1, PlacesAfterHeader DEF ReadBlockHeader
    <3>2. CASE ~ReadBlockHeader
      BY <1>2, <3>2 DEF Decompress, UseFixedTrees, ReadCodesTree, ReadCodeSizes,
         BuildDynamicTrees, DecodeLiteral, DecodeMatchSize, CopyMatch, ReadTrailer
    <3> QED
      BY <3>1, <3>2
  <2> QED
    BY <1>1, <2>1, AdlerOfBlocks
<1>3. CASE ReadStored \/ EndBlock
  <2>1. /\ at \notin {"checksum", "done", "error"} /\ UNCHANGED <<input, checksum>>
        /\ at' = "done" => ~input.zlib
    BY <1>3 DEF ReadStored, EndBlock, AfterBlock
  <2> QED
    BY <1>1, <2>1, AdlerOfBlocks
<1>4. CASE SkipTrailer
  <2>1. /\ at = "trailer" /\ ~HasChecksum
        /\ UNCHANGED <<input, byte_stream_offset, uncompressed_data, checksum>>
    BY <1>4 DEF SkipTrailer, stream
  <2>2. checksum' = NoChecksum /\ uncompressed_data' \in Seq(Bytes) /\ ~HasChecksum'
    BY <1>1, <2>1 DEF AdlerInv, InflaterInv, OutputInv, HasChecksum, data
  <2> QED
    BY <2>2, AdlerBefore
<1>5. CASE AddByte
  BY <1>5, AddByteAdler
<1>6. CASE Reduce
  BY <1>6, ReduceAdler
<1>7. CASE ChecksumMatches
  BY <1>7, ChecksumMatchesAdler
<1>8. CASE Fail
  BY <1>8, AdlerKept DEF Fail
<1>9. CASE UNCHANGED inflaterVars
  <2>1. UNCHANGED <<input, stream, uncompressed_data, checksum>> /\ at' = at
    BY <1>9 DEF inflaterVars
  <2> QED
    BY <2>1, AdlerKept
<1> QED
  BY <1>2, <1>3, <1>4, <1>5, <1>6, <1>7, <1>8, <1>9, CannotFails
     DEF InflaterNext, Blocks, HuffmanTrees, DecodeHuffman, Trailer

LEMMA AdlerInvariant == InflaterSpec => []AdlerInv
<1>1. InflaterInit => AdlerInv
  BY AdlerOfInit DEF InflaterInit
<1> QED
  BY <1>1, InflaterInvariant, InflaterNextAdler, PTL DEF InflaterSpec

(* The words that are compared with the four bytes after the data.          *)
ChecksumIsAdler32 ==
  at = "done" /\ input.zlib /\ HasChecksum =>
    StoredChecksum = Adler32(uncompressed_data)

(* When all bytes have been added and reduced, the words are the sums. *)
LEMMA WordsAreAdler32 ==
  ASSUME InflaterInv, AdlerInv, IsAddedUp
  PROVE  /\ checksum.words = Adler32(uncompressed_data)
         /\ checksum.words \in Words
         /\ checksum.words.lower_word < 65521 /\ checksum.words.upper_word < 65521
<1> DEFINE w == checksum.words
           sums == Adler32(uncompressed_data)
<1>1. checksum.unreduced = 0 /\ checksum.data_offset = Len(uncompressed_data)
  BY DEF IsAddedUp
<1>2. /\ SameSums(w, sums)
      /\ w.lower_word < 65521 /\ w.upper_word < 65521
  BY <1>1 DEF AdlerInv, Adler32
<1>3. w \in Words /\ uncompressed_data \in Seq(Bytes)
  BY DEF InflaterInv, ChecksumInv, OutputInv
<1>4. sums \in Words
  <2>1. Len(uncompressed_data) \in 0..Len(uncompressed_data)
    BY <1>3
  <2> QED
    BY <1>3, <2>1, SumsByRecursion DEF Adler32
<1> HIDE DEF w, sums
<1>5. w.lower_word % 65521 = w.lower_word /\ w.upper_word % 65521 = w.upper_word
  <2>1. \A n \in Nat : n < 65521 => n % 65521 = n
    BY SMT
  <2> QED
    BY <1>2, <1>3, <2>1 DEF Words
<1>6. w = sums
  BY <1>2, <1>3, <1>4, <1>5 DEF SameSums, Words
<1> QED
  BY <1>2, <1>3, <1>6 DEF w, sums

LEMMA AdlerInvCompares == InflaterInv /\ AdlerInv => ChecksumIsAdler32
<1> SUFFICES ASSUME InflaterInv, AdlerInv,
                    at = "done", input.zlib, HasChecksum
             PROVE  StoredChecksum = Adler32(uncompressed_data)
  BY DEF ChecksumIsAdler32
<1>1. checksum.words = StoredChecksum /\ IsAddedUp
  BY DEF AdlerInv
<1> QED
  BY <1>1, WordsAreAdler32

(* Data that has a checksum is only taken when it is the Adler-32 of what   *)
(* was inflated: reducing the words once in 5552 bytes, by folds, and       *)
(* adding up after the last byte only, is the same as the definition        *)
(* (libqcow_deflate_decompress_zlib, libqcow_deflate_calculate_adler32).    *)
THEOREM ComparedWithAdler32 == InflaterSpec => []ChecksumIsAdler32
BY InflaterInvariant, AdlerInvariant, AdlerInvCompares, PTL

-----------------------------------------------------------------------------
(* How far the inflater is in a message: which block is read, and what of   *)
(* its text is written.                                                     *)

(* The bits of message B come from bit q of the data on, a whole byte. *)
Inflates(B, q) ==
  /\ IsMessage(B)
  /\ q \in Nat
  /\ \E h \in Nat : q = 8 * h
  /\ Comes(q, MessageBits(B))

Where == (8 * byte_stream_offset) - Len(bit_buffer)

InBlock(B, j) == j \in 1..Len(B) /\ last_block_flag = (j = Len(B))

AtBlockHeader(B, q, j) ==
  /\ j \in 1..Len(B)
  /\ Where = BlockAt(B, q, j - 1)
  /\ uncompressed_data = TextAt(B, j - 1)

AtBlockBody(B, q, j) ==
  /\ InBlock(B, j)
  /\ B[j].kind = at
  /\ Where = BlockAt(B, q, j - 1) + 3
  /\ uncompressed_data = TextAt(B, j - 1)

AtEnd(B, q, j) ==
  /\ InBlock(B, j)
  /\ Where = BlockAt(B, q, j)
  /\ uncompressed_data = TextAt(B, j)
  /\ last_block_flag \/ byte_stream_offset >= Len(data)

(* The sizes of the codes of a dynamic block, after item i of them. *)
SizesAt(B, q, j, i) ==
  BlockAt(B, q, j - 1) + 17 + (3 * B[j].used) + Len(SizesBitsUpTo(B[j])[i])

AtSizes(B, q, j, i) ==
  /\ InBlock(B, j)
  /\ B[j].kind = "dynamic"
  /\ i \in 0..Len(B[j].code_sizes)
  /\ code_size_array = SizesUpTo(B[j].code_sizes)[i]
  /\ number_of_literal_codes = B[j].literals
  /\ number_of_distance_codes = B[j].distances
  /\ Where = SizesAt(B, q, j, i)
  /\ uncompressed_data = TextAt(B, j - 1)
  /\ at = "code_sizes" => i # Len(B[j].code_sizes) /\ codes_tree = Tree(B[j].codes)
  /\ at = "build" => i = Len(B[j].code_sizes)

(* The items of a block, after item i of them. *)
ItemsAt(B, q, j) ==
  BlockAt(B, q, j - 1) + 3
    + (IF B[j].kind = "dynamic" THEN Len(TreesBits(B[j])) ELSE 0)
ItemAt(B, q, j, i) == ItemsAt(B, q, j) + Len(ItemsUpTo(B[j])[i])
ItemText(B, j, i) == ItemTexts(TextAt(B, j - 1), B[j].items)[i]

InItems(B, j) ==
  /\ InBlock(B, j)
  /\ B[j].kind # "stored"
  /\ literals_tree = Tree(LiteralSizes(B[j]))
  /\ distances_tree = Tree(DistanceSizes(B[j]))

AtItem(B, q, j, i) ==
  /\ InItems(B, j)
  /\ i \in 0..Len(B[j].items)
  /\ Where = ItemAt(B, q, j, i)
  /\ uncompressed_data = ItemText(B, j, i)

AtDistance(B, q, j, i) ==
  /\ InItems(B, j)
  /\ i \in 1..Len(B[j].items)
  /\ Len(B[j].items[i]) # 1
  /\ compression_size = B[j].items[i][1]
  /\ Where = ItemAt(B, q, j, i - 1)
               + Len(BitsOfSize(LiteralSizes(B[j]), B[j].items[i][1]))
  /\ uncompressed_data = ItemText(B, j, i - 1)

(* What is refused when the data is whole says more than there is room for. *)
Refuses(B) ==
  /\ Begins(uncompressed_data, Text(B))
  /\ input.damage = "none" => Len(Text(B)) > input.size

Progress(B, q) ==
  /\ at = "call" => uncompressed_data = <<>>
  /\ at = "header" => \E j \in 1..Len(B) : AtBlockHeader(B, q, j)
  /\ at \in {"stored", "fixed", "dynamic"} =>
       \E j \in 1..Len(B) : AtBlockBody(B, q, j)
  /\ at \in {"code_sizes", "build"} =>
       \E j \in 1..Len(B) : \E i \in 0..Len(B[j].code_sizes) : AtSizes(B, q, j, i)
  /\ at = "symbol" =>
       \E j \in 1..Len(B) : \E i \in 0..Len(B[j].items) : AtItem(B, q, j, i)
  /\ at = "distance" =>
       \E j \in 1..Len(B) : \E i \in 1..Len(B[j].items) : AtDistance(B, q, j, i)
  /\ at \in {"trailer", "checksum", "done"} => \E j \in 1..Len(B) : AtEnd(B, q, j)

-----------------------------------------------------------------------------
(* The stream of the inflater is where the bits read end. *)
LEMMA WhereIs ==
  ASSUME InflaterInv
  PROVE  /\ data \in Seq(Bytes)
         /\ IsStream(Stream)
         /\ Position(Stream) = Where
         /\ Where \in Nat
<1>1. data \in Seq(Bytes) /\ IsStream(Stream)
  BY DEF InflaterInv, StreamInv
<1>2. Position(Stream) = Where
  BY DEF Position, Where, Stream
<1> QED
  BY <1>1, <1>2, PositionIsNat

(* Where the inflater is after it has moved. *)
LEMMA WhereMoved ==
  ASSUME NEW s, MoveTo(s)
  PROVE  Where' = Position(s) /\ byte_stream_offset' = s.offset
BY DEF MoveTo, Where, Position

(* What a block of the message is, for the inflater. *)
LEMMA BlockOfMessage ==
  ASSUME data \in Seq(Bytes), NEW B, NEW q, Inflates(B, q), NEW j \in 1..Len(B)
  PROVE  /\ IsBlockAt(B, q, j)
         /\ IsBlock(TextAt(B, j - 1), B[j])
         /\ TextAt(B, j - 1) \in Seq(Bytes) /\ TextAt(B, j) \in Seq(Bytes)
         /\ TextAt(B, j) = TextAfterBlock(TextAt(B, j - 1), B[j])
         /\ B[j].kind \in {"stored", "fixed", "dynamic"}
         /\ Len(B) \in Nat
<1>1. IsMessage(B) /\ q \in Nat /\ Comes(q, MessageBits(B))
  BY DEF Inflates
<1>2. IsBlockAt(B, q, j)
  BY <1>1, BlockComes
<1>3. /\ IsBlock(TextAt(B, j - 1), B[j])
      /\ TextAt(B, j - 1) \in Seq(Bytes) /\ TextAt(B, j) \in Seq(Bytes)
      /\ TextAt(B, j) = TextAfterBlock(TextAt(B, j - 1), B[j])
      /\ Len(B) \in Nat
  BY <1>1, TextsOfBlocks
<1> QED
  BY <1>2, <1>3, KindsAre

(* After a block the next one comes, if there is one. *)
LEMMA BlockEnded ==
  ASSUME InflaterInv, NEW B, NEW q, Inflates(B, q), NEW j, InBlock(B, j),
         UNCHANGED <<input, last_block_flag>>, NEW s, IsStream(s), MoveTo(s),
         Position(s) = BlockAt(B, q, j), uncompressed_data' = TextAt(B, j),
         AfterBlock(s.offset)
  PROVE  Progress(B, q)'
<1>1. /\ j \in 1..Len(B) /\ (last_block_flag' = (j = Len(B)))
      /\ last_block_flag' = last_block_flag /\ data' = data
      /\ input'.zlib = input.zlib
  BY DEF InBlock, data
<1>2. /\ Where' = BlockAt(B, q, j) /\ byte_stream_offset' = s.offset
  BY WhereMoved
<1>3. /\ data \in Seq(Bytes) /\ Len(data) \in Nat /\ Len(B) \in Nat
      /\ s.offset \in Nat
  <2>1. data \in Seq(Bytes)
    BY WhereIs
  <2> QED
    BY <1>1, <2>1, BlockOfMessage, PositionIsNat
<1>4. CASE last_block_flag \/ s.offset >= Len(data)
  <2>1. at' \in {"trailer", "done"}
    BY <1>4 DEF AfterBlock
  <2>2. last_block_flag' \/ byte_stream_offset' >= Len(data')
    BY <1>1, <1>2, <1>4
  <2>3. AtEnd(B, q, j)'
    BY <1>1, <1>2, <2>2 DEF AtEnd, InBlock
  <2> QED
    BY <1>1, <2>1, <2>3 DEF Progress
<1>5. CASE ~(last_block_flag \/ s.offset >= Len(data))
  <2>1. at' = "header"
    BY <1>5 DEF AfterBlock
  <2>4. j # Len(B)
    BY <1>5, Zenon DEF InBlock
  <2>2. j + 1 \in 1..Len(B) /\ (j + 1) - 1 = j
    BY <1>1, <1>3, <2>4
  <2>3. AtBlockHeader(B, q, j + 1)'
    BY <1>2, <2>2 DEF AtBlockHeader
  <2> QED
    BY <2>1, <2>2, <2>3 DEF Progress
<1> QED
  BY <1>4, <1>5

(* Bits that come are read. *)
LEMMA BitsAreRead ==
  ASSUME data \in Seq(Bytes), NEW s, IsStream(s), NEW x \in Seq(Bits),
         Comes(Position(s), x)
  PROVE  /\ \A v \in Values(s, Len(x)) :
              v.bits = x /\ Position(v.stream) = Position(s) + Len(x)
         /\ input.damage = "none" => Values(s, Len(x)) # {}
BY ReadsWhatComes, Zenon

LEMMA ThreeBitsAreRead ==
  ASSUME data \in Seq(Bytes), NEW s, IsStream(s), NEW x \in Seq(Bits), Len(x) = 3,
         Comes(Position(s), x)
  PROVE  /\ \A v \in Values(s, 3) :
              v.bits = x /\ Position(v.stream) = Position(s) + 3
         /\ input.damage = "none" => Values(s, 3) # {}
BY BitsAreRead

(* The header of a block is read. *)
LEMMA ReadBlockHeaderProgress ==
  ASSUME InflaterInv, NEW B, NEW q, Inflates(B, q), Progress(B, q), ReadBlockHeader
  PROVE  Progress(B, q)'
<1>1. PICK j \in 1..Len(B) : AtBlockHeader(B, q, j)
  BY DEF ReadBlockHeader, Progress
<1>2. PICK v \in Values(Stream, 3) :
        /\ last_block_flag' = (v.bits[1] = 1)
        /\ at' = <<"stored", "fixed", "dynamic">>[Number(SubSeq(v.bits, 2, 3)) + 1]
        /\ MoveTo(v.stream)
  BY DEF ReadBlockHeader
<1>3. uncompressed_data' = uncompressed_data
  BY DEF ReadBlockHeader
<1>4. data \in Seq(Bytes) /\ IsStream(Stream) /\ Position(Stream) = Where
  BY WhereIs
<1>5. /\ IsBlockAt(B, q, j) /\ B[j].kind \in {"stored", "fixed", "dynamic"}
  BY <1>4, BlockOfMessage
<1> DEFINE last == j = Len(B)
           x == BlockHeader(B[j], last)
<1>6. /\ x \in Seq(Bits) /\ Len(x) = 3
      /\ (x[1] = 1) = last
      /\ <<"stored", "fixed", "dynamic">>[Number(SubSeq(x, 2, 3)) + 1] = B[j].kind
  <2>1. last \in BOOLEAN
    OBVIOUS
  <2> HIDE DEF last
  <2> QED
    BY <1>5, <2>1, BlockHeaderIs
<1>7. Comes(Position(Stream), x)
  BY <1>1, <1>4, <1>5 DEF IsBlockAt, AtBlockHeader
<1> HIDE DEF x
<1>8. v.bits = x /\ Position(v.stream) = Position(Stream) + 3
  BY <1>2, <1>4, <1>6, <1>7, ThreeBitsAreRead
<1>9. at' = B[j].kind /\ last_block_flag' = last
  BY <1>2, <1>6, <1>8
<1>10. Where' = BlockAt(B, q, j - 1) + 3
  <2>1. Where' = Where + 3
    BY <1>2, <1>4, <1>8, WhereMoved
  <2> QED
    BY <1>1, <2>1 DEF AtBlockHeader
<1>11. AtBlockBody(B, q, j)'
  <2>1. uncompressed_data' = TextAt(B, j - 1)
    BY <1>1, <1>3 DEF AtBlockHeader
  <2> QED
    BY <1>9, <1>10, <2>1 DEF AtBlockBody, InBlock
<1> QED
  BY <1>5, <1>9, <1>11 DEF Progress

(* The header of a block is refused of data that is cut only. *)
LEMMA CannotReadBlockHeaderProgress ==
  ASSUME InflaterInv, NEW B, NEW q, Inflates(B, q), Progress(B, q),
         CannotReadBlockHeader
  PROVE  input.damage # "none"
<1>1. PICK j \in 1..Len(B) : AtBlockHeader(B, q, j)
  BY DEF CannotReadBlockHeader, Progress
<1>2. \A v \in Values(Stream, 3) : Number(SubSeq(v.bits, 2, 3)) = 3
  BY DEF CannotReadBlockHeader
<1>4. data \in Seq(Bytes) /\ IsStream(Stream) /\ Position(Stream) = Where
  BY WhereIs
<1>5. /\ IsBlockAt(B, q, j) /\ B[j].kind \in {"stored", "fixed", "dynamic"}
  BY <1>4, BlockOfMessage
<1> DEFINE last == j = Len(B)
           x == BlockHeader(B[j], last)
<1>6. x \in Seq(Bits) /\ Len(x) = 3 /\ Number(SubSeq(x, 2, 3)) # 3
  <2>1. last \in BOOLEAN
    OBVIOUS
  <2> HIDE DEF last
  <2> QED
    BY <1>5, <2>1, BlockHeaderIs
<1>7. Comes(Position(Stream), x)
  BY <1>1, <1>4, <1>5 DEF IsBlockAt, AtBlockHeader
<1> HIDE DEF x
<1>8. /\ \A v \in Values(Stream, 3) : v.bits = x
      /\ input.damage = "none" => Values(Stream, 3) # {}
  BY <1>4, <1>6, <1>7, ThreeBitsAreRead
<1> QED
  BY <1>2, <1>6, <1>8

(* No text of a block is longer than that of the message. *)
LEMMA TextOfBlockFits ==
  ASSUME NEW B, IsMessage(B), NEW j \in 1..Len(B), NEW text \in Seq(Bytes),
         Begins(text, TextAt(B, j))
  PROVE  Begins(text, Text(B)) /\ Len(text) <= Len(Text(B))
<1>1. Len(B) \in Nat /\ j \in 0..Len(B)
  BY TextsOfBlocks
<1>2. /\ TextAt(B, j) \in Seq(Bytes) /\ Text(B) \in Seq(Bytes)
      /\ Begins(TextAt(B, j), Text(B))
  BY <1>1, TextsOfMessage
<1>3. Begins(text, Text(B))
  BY <1>2, BeginsThrough
<1> QED
  BY <1>3 DEF Begins

(* What the inflater finds where a stored block of the message is. *)
IsStoredBlock(B, q, j) ==
  LET bytes == B[j].bytes
      n == Position(Stream) + Skipped(BitsBefore(B, j - 1) + 3) + 32
  IN  /\ bytes \in Seq(Bytes)
      /\ TextAt(B, j) = TextAt(B, j - 1) \o bytes
      /\ BlockAt(B, q, j) = n + (8 * Len(bytes))
      /\ \A z \in BlockSizes :
           /\ IsStoredAt(z, B[j], n)
           /\ z.stream.offset \in Nat
           /\ z.stream.offset + Len(bytes) <= Len(data) =>
                SubSeq(data, z.stream.offset + 1, z.stream.offset + Len(bytes)) = bytes
      /\ input.damage = "none" =>
           /\ BlockSizes # {}
           /\ \A z \in BlockSizes : z.stream.offset + Len(bytes) <= Len(data)

LEMMA StoredBlockIs ==
  ASSUME InflaterInv, NEW B, NEW q, Inflates(B, q), NEW j, AtBlockBody(B, q, j),
         at = "stored"
  PROVE  IsStoredBlock(B, q, j)
<1> DEFINE b == B[j]
           n == BitsBefore(B, j - 1) + 3
           t == TextAt(B, j - 1)
           p == BlockAt(B, q, j - 1)
<1>1. /\ data \in Seq(Bytes) /\ IsStream(Stream) /\ Position(Stream) = Where
      /\ Where \in Nat
  BY WhereIs
<1>2. j \in 1..Len(B) /\ b.kind = "stored" /\ Position(Stream) = p + 3
  BY <1>1 DEF AtBlockBody, InBlock
<1>3. /\ IsBlockAt(B, q, j) /\ IsBlock(t, b) /\ t \in Seq(Bytes)
      /\ TextAt(B, j) = TextAfterBlock(t, b)
  BY <1>1, <1>2, BlockOfMessage
<1>4. /\ b.bytes \in Seq(Bytes) /\ Len(b.bytes) <= MaximumStored
      /\ TextAt(B, j) = t \o b.bytes
  <2> HIDE DEF b, t
  <2> QED
    BY <1>2, <1>3, TextAfterBlockIs
<1>5. PICK h \in Nat : q = 8 * h
  BY DEF Inflates
<1>6. /\ BitsBefore(B, j - 1) \in Nat /\ p = q + BitsBefore(B, j - 1)
      /\ Comes(p + 3, BlockBody(BitsBefore(B, j - 1), b))
      /\ BlockAt(B, q, j) = p + 3 + Len(BlockBody(BitsBefore(B, j - 1), b))
      /\ p \in Nat
  BY <1>3 DEF IsBlockAt
<1>7. BlockBody(BitsBefore(B, j - 1), b) = StoredBits(n, b)
  <2> DEFINE m == BitsBefore(B, j - 1)
  <2> HIDE DEF m, b, t
  <2> QED
    BY <1>2, <1>3, <1>6, BlockBodyIs DEF m
<1>8. Comes(Position(Stream), StoredBits(n, b))
  BY <1>2, <1>6, <1>7
<1>9. n \in Nat /\ Position(Stream) = (8 * h) + n
  BY <1>2, <1>5, <1>6
<1>10. Len(StoredBits(n, b)) = Skipped(n) + 32 + (8 * Len(b.bytes))
       /\ Skipped(n) \in 0..7
  <2> HIDE DEF n, b
  <2> QED
    BY <1>4, <1>9, StoredBitsAre
<1> HIDE DEF n, b
<1>11. /\ \A z \in BlockSizes :
            /\ IsStoredAt(z, b, Position(Stream) + Skipped(n) + 32)
            /\ z.stream.offset \in Nat
            /\ z.stream.offset + Len(b.bytes) <= Len(data) =>
                 SubSeq(data, z.stream.offset + 1, z.stream.offset + Len(b.bytes))
                   = b.bytes
       /\ input.damage = "none" =>
            /\ BlockSizes # {}
            /\ \A z \in BlockSizes : z.stream.offset + Len(b.bytes) <= Len(data)
  BY <1>1, <1>4, <1>8, <1>9, StoredSizeIsRead
<1>12. BlockAt(B, q, j) = Position(Stream) + Skipped(n) + 32 + (8 * Len(b.bytes))
  <2>1. Len(b.bytes) \in Nat
    BY <1>4
  <2>2. BlockAt(B, q, j) = Position(Stream) + Len(StoredBits(n, b))
    BY <1>2, <1>6, <1>7
  <2> DEFINE a == Position(Stream)
             skipped == Skipped(n)
             l == Len(b.bytes)
             all == Len(StoredBits(n, b))
  <2>3. all = skipped + 32 + (8 * l) /\ a \in Nat /\ skipped \in Nat /\ l \in Nat
    BY <1>1, <1>10, <2>1
  <2>4. BlockAt(B, q, j) = a + all
    BY <2>2
  <2> HIDE DEF a, skipped, l, all
  <2>5. BlockAt(B, q, j) = a + skipped + 32 + (8 * l)
    BY <2>3, <2>4
  <2> QED
    BY <2>5 DEF a, skipped, l
<1> QED
  BY <1>4, <1>11, <1>12 DEF IsStoredBlock, b, n, t

(* A stored block is read. *)
LEMMA ReadStoredProgress ==
  ASSUME InflaterInv, NEW B, NEW q, Inflates(B, q), Progress(B, q), ReadStored
  PROVE  Progress(B, q)'
<1>1. PICK j \in 1..Len(B) : AtBlockBody(B, q, j)
  BY DEF ReadStored, Progress
<1>2. PICK z \in BlockSizes :
        /\ StoredFits(z)
        /\ uncompressed_data' = uncompressed_data
             \o SubSeq(data, z.stream.offset + 1, z.stream.offset + z.size)
        /\ MoveTo([offset |-> z.stream.offset + z.size, buffer |-> <<>>])
        /\ AfterBlock(z.stream.offset + z.size)
  BY DEF ReadStored
<1> DEFINE bytes == B[j].bytes
           n == Position(Stream) + Skipped(BitsBefore(B, j - 1) + 3) + 32
           o == z.stream.offset
           s == [offset |-> o + z.size, buffer |-> <<>>]
<1>3. IsStoredBlock(B, q, j)
  BY <1>1, StoredBlockIs DEF ReadStored
<1>4. /\ z.size = Len(bytes) /\ IsStream(z.stream) /\ 8 * o = n /\ o \in Nat
      /\ bytes \in Seq(Bytes)
      /\ TextAt(B, j) = TextAt(B, j - 1) \o bytes
      /\ BlockAt(B, q, j) = n + (8 * Len(bytes))
      /\ o + Len(bytes) <= Len(data) => SubSeq(data, o + 1, o + Len(bytes)) = bytes
  BY <1>3 DEF IsStoredBlock, IsStoredAt
<1>5. data \in Seq(Bytes) /\ Len(data) \in Nat /\ Len(bytes) \in Nat
  BY <1>4, WhereIs
<1>6. z.size <= Len(data) - o
  BY <1>2 DEF StoredFits
<1> HIDE DEF bytes, n, o
<1>7. o + z.size \in 0..Len(data) /\ o + Len(bytes) <= Len(data)
  BY <1>4, <1>5, <1>6
<1>8. IsStream(s)
  BY <1>7, WholeBytes
<1>9. Position(s) = BlockAt(B, q, j)
  <2>1. Position(s) = (8 * (o + z.size)) - Len(<<>>) /\ Len(<<>>) = 0
    BY DEF Position
  <2> QED
    BY <1>4, <1>5, <2>1
<1>10. uncompressed_data' = TextAt(B, j)
  <2>1. uncompressed_data = TextAt(B, j - 1)
    BY <1>1 DEF AtBlockBody
  <2> QED
    BY <1>2, <1>4, <1>7, <2>1 DEF o
<1>11. MoveTo(s) /\ AfterBlock(s.offset)
  BY <1>2 DEF o
<1>12. InBlock(B, j)
  BY <1>1 DEF AtBlockBody
<1>13. UNCHANGED <<input, last_block_flag>>
  BY DEF ReadStored, decoding
<1> HIDE DEF s
<1> QED
  BY <1>8, <1>9, <1>10, <1>11, <1>12, <1>13, BlockEnded

(* A stored block of whole data is refused when there is no room for it. *)
LEMMA CannotReadStoredProgress ==
  ASSUME InflaterInv, NEW B, NEW q, Inflates(B, q), Progress(B, q), CannotReadStored,
         input.damage = "none"
  PROVE  Len(Text(B)) > input.size
<1>1. PICK j \in 1..Len(B) : AtBlockBody(B, q, j)
  BY DEF CannotReadStored, Progress
<1> DEFINE bytes == B[j].bytes
<1>3. IsStoredBlock(B, q, j)
  BY <1>1, StoredBlockIs DEF CannotReadStored
<1>4. PICK z \in BlockSizes : z.stream.offset + Len(bytes) <= Len(data)
  BY <1>3 DEF IsStoredBlock
<1> DEFINE o == z.stream.offset
<1>5. /\ z.size = Len(bytes) /\ o \in Nat
      /\ bytes \in Seq(Bytes)
      /\ TextAt(B, j) = TextAt(B, j - 1) \o bytes
  BY <1>3 DEF IsStoredBlock, IsStoredAt
<1>6. ~StoredFits(z)
  BY DEF CannotReadStored
<1>7. data \in Seq(Bytes) /\ Len(data) \in Nat /\ Len(bytes) \in Nat
  BY <1>5, WhereIs
<1>8. /\ uncompressed_data = TextAt(B, j - 1)
      /\ uncompressed_data \in Seq(Bytes) /\ Len(uncompressed_data) \in Nat
      /\ input.size \in Nat
  BY <1>1 DEF AtBlockBody, InflaterInv, OutputInv
<1>9. ~(z.size <= Len(data) - o /\ z.size <= input.size - Len(uncompressed_data))
  BY <1>6 DEF StoredFits
<1> HIDE DEF bytes, o
<1>10. o + Len(bytes) <= Len(data)
  BY <1>4 DEF o, bytes
<1>11. Len(bytes) > input.size - Len(uncompressed_data)
  BY <1>5, <1>7, <1>8, <1>9, <1>10
<1>12. /\ TextAt(B, j) \in Seq(Bytes)
       /\ Len(TextAt(B, j)) = Len(uncompressed_data) + Len(bytes)
  BY <1>5, <1>8, ConcatenationOf
<1>13. Len(TextAt(B, j)) <= Len(Text(B)) /\ Len(Text(B)) \in Nat
  <2>1. IsMessage(B) /\ Begins(TextAt(B, j), TextAt(B, j))
    BY <1>12, BeginsAll DEF Inflates
  <2>2. Len(B) \in Nat /\ j \in 0..Len(B)
    BY <2>1, TextsOfBlocks
  <2>3. Text(B) \in Seq(Bytes)
    BY <2>1, <2>2, TextsOfMessage
  <2> QED
    BY <1>12, <2>1, <2>3, TextOfBlockFits
<1> QED
  BY <1>7, <1>8, <1>11, <1>12, <1>13

(* What the inflater finds where a block of items of the message is. *)
IsItemsBlock(B, q, j) ==
  LET b == B[j]
      n == Len(b.items)
  IN  /\ HasTrees(b)
      /\ AreItemTexts(ItemTexts(TextAt(B, j - 1), b.items), TextAt(B, j - 1), b)
      /\ n \in Nat
      /\ ItemsAt(B, q, j) \in Nat
      /\ ItemsCome(b, ItemsAt(B, q, j))
      /\ BlockAt(B, q, j) = ItemsAt(B, q, j) + Len(BlockItemsBits(b))
      /\ TextAt(B, j) = ItemText(B, j, n)
      /\ TextAt(B, j - 1) = ItemText(B, j, 0)
      /\ ItemAt(B, q, j, 0) = ItemsAt(B, q, j)
      /\ b.kind = "dynamic" =>
           /\ AreTrees(b)
           /\ Comes(BlockAt(B, q, j - 1) + 3, TreesBits(b))
           /\ TreesBits(b) \in Seq(Bits)
           /\ ItemsAt(B, q, j) = BlockAt(B, q, j - 1) + 3 + Len(TreesBits(b))
           /\ BlockAt(B, q, j - 1) \in Nat
      /\ b.kind = "fixed" => ItemsAt(B, q, j) = BlockAt(B, q, j - 1) + 3

LEMMA PartsOfTrees ==
  ASSUME NEW b, AreTrees(b)
  PROVE  LET header == TreesHeader(b)
             codes == Joined(CodesBits(b), b.used)
             rest == SizesBitsUpTo(b)[Len(b.code_sizes)]
         IN  /\ header \in Seq(Bits) /\ codes \in Seq(Bits) /\ rest \in Seq(Bits)
             /\ TreesBits(b) = (header \o codes) \o rest
             /\ TreesBits(b) \in Seq(Bits)
<1> DEFINE n == Len(b.code_sizes)
<1>1. /\ n \in Nat /\ (\A k \in 0..n : SizesBitsUpTo(b)[k] \in Seq(Bits))
      /\ TreesHeader(b) \in Seq(Bits) /\ Joined(CodesBits(b), b.used) \in Seq(Bits)
      /\ TreesBits(b) = (TreesHeader(b) \o Joined(CodesBits(b), b.used))
                          \o SizesBitsUpTo(b)[n]
      /\ TreesBits(b) \in Seq(Bits)
  BY TreesBitsAre, Zenon
<1> HIDE DEF n
<1>2. n \in 0..n
  BY <1>1
<1>3. SizesBitsUpTo(b)[n] \in Seq(Bits)
  BY <1>1, <1>2
<1> QED
  BY <1>1, <1>3, Zenon DEF n

LEMMA ItemsBlockIs ==
  ASSUME data \in Seq(Bytes), NEW B, NEW q, Inflates(B, q), NEW j \in 1..Len(B),
         B[j].kind # "stored"
  PROVE  IsItemsBlock(B, q, j)
<1> DEFINE b == B[j]
           n == Len(b.items)
           t == TextAt(B, j - 1)
           p == BlockAt(B, q, j - 1)
           m == BitsBefore(B, j - 1)
           o == ItemsAt(B, q, j)
           x == TreesBits(b)
           y == BlockItemsBits(b)
           f == ItemTexts(t, b.items)
<1>1. /\ IsBlockAt(B, q, j) /\ IsBlock(t, b) /\ t \in Seq(Bytes)
      /\ TextAt(B, j) = TextAfterBlock(t, b)
      /\ b.kind \in {"stored", "fixed", "dynamic"}
  BY BlockOfMessage
<1>2. b.kind \in {"fixed", "dynamic"}
  BY <1>1
<1>3. /\ m \in Nat /\ p \in Nat
      /\ Comes(p + 3, BlockBody(m, b))
      /\ BlockAt(B, q, j) = p + 3 + Len(BlockBody(m, b))
  BY <1>1 DEF IsBlockAt
<1>4. o = p + 3 + (IF b.kind = "dynamic" THEN Len(x) ELSE 0)
  BY DEF ItemsAt
<1>5. ItemText(B, j, n) = f[n] /\ ItemText(B, j, 0) = f[0]
  BY DEF ItemText
<1>6. ItemAt(B, q, j, 0) = o + Len(ItemsUpTo(b)[0])
  BY DEF ItemAt
<1>7. b.kind # "stored"
  OBVIOUS
<1> HIDE DEF b, t, p, m, o, x, y, n
<1>8. /\ HasTrees(b) /\ AreItemTexts(f, t, b) /\ (b.kind = "dynamic" => AreTrees(b))
  BY <1>1, <1>7, BlockHasTrees
<1>9. TextAt(B, j) = f[n]
  BY <1>1, <1>7, TextAfterBlockIs DEF n
<1>10. n \in Nat /\ f[0] = t
  BY <1>8 DEF AreItemTexts, n
<1> HIDE DEF f
<1>11. ItemsUpTo(b)[0] = <<>> /\ y \in Seq(Bits)
  BY <1>8, ItemsAreJoined DEF y
<1>12. CASE b.kind = "fixed"
  <2>1. BlockBody(m, b) = y
    BY <1>1, <1>3, <1>12, BlockBodyIs DEF y
  <2>2. o = p + 3
    BY <1>4, <1>12, <1>3
  <2>3. Comes(o, y) /\ BlockAt(B, q, j) = o + Len(y) /\ o \in Nat
    BY <1>3, <2>1, <2>2
  <2>4. ItemsCome(b, o)
    BY <1>8, <2>3, ItemsOfBlockCome DEF y
  <2>5. ItemAt(B, q, j, 0) = o
    BY <1>6, <1>11, <2>3
  <2> QED
    BY <1>5, <1>8, <1>9, <1>10, <1>12, <2>2, <2>3, <2>4, <2>5
       DEF IsItemsBlock, b, n, o, t, p, y, f
<1>13. CASE b.kind = "dynamic"
  <2>1. /\ BlockBody(m, b) = x \o y
        /\ Len(BlockBody(m, b)) = Len(x) + Len(y)
    BY <1>1, <1>3, <1>13, BlockBodyIs DEF x, y
  <2>2. AreTrees(b)
    BY <1>8, <1>13
  <2>3. x \in Seq(Bits) /\ Len(x) \in Nat
    <3>1. x \in Seq(Bits)
      BY <2>2, PartsOfTrees, Zenon DEF x
    <3> QED
      BY <3>1
  <2>4. o = p + 3 + Len(x)
    BY <1>4, <1>13
  <2>5. o \in Nat /\ p + 3 \in Nat /\ Len(y) \in Nat
    BY <1>3, <1>11, <2>3, <2>4
  <2>6. Comes(p + 3, x \o y)
    BY <1>3, <2>1
  <2>7. Comes(p + 3, x) /\ Comes((p + 3) + Len(x), y)
    BY <1>11, <2>3, <2>5, <2>6, PartsCome
  <2>8. Comes(o, y) /\ BlockAt(B, q, j) = o + Len(y)
    BY <1>3, <2>1, <2>3, <2>4, <2>5, <2>7
  <2>9. ItemsCome(b, o)
    BY <1>8, <2>5, <2>8, ItemsOfBlockCome DEF y
  <2>10. ItemAt(B, q, j, 0) = o
    BY <1>6, <1>11, <2>5
  <2> QED
    BY <1>3, <1>5, <1>8, <1>9, <1>10, <1>13, <2>2, <2>3, <2>4, <2>5, <2>7, <2>8, <2>9,
       <2>10 DEF IsItemsBlock, b, n, o, t, p, x, y, f
<1> QED
  BY <1>2, <1>12, <1>13

(* With the trees of a block its items begin. *)
LEMMA ItemsBegin ==
  ASSUME NEW B, NEW q, NEW j, InBlock(B, j), IsItemsBlock(B, q, j),
         B[j].kind # "stored", last_block_flag' = last_block_flag,
         literals_tree' = Tree(LiteralSizes(B[j])),
         distances_tree' = Tree(DistanceSizes(B[j])),
         Where' = ItemsAt(B, q, j), uncompressed_data' = TextAt(B, j - 1),
         at' = "symbol"
  PROVE  Progress(B, q)'
<1>1. InItems(B, j)'
  BY DEF InItems, InBlock
<1>2. 0 \in 0..Len(B[j].items) /\ j \in 1..Len(B)
  BY DEF IsItemsBlock, InBlock
<1>3. AtItem(B, q, j, 0)'
  BY <1>1, <1>2 DEF AtItem, IsItemsBlock
<1> QED
  BY <1>2, <1>3 DEF Progress

(* The fixed trees are taken. *)
LEMMA UseFixedTreesProgress ==
  ASSUME InflaterInv, NEW B, NEW q, Inflates(B, q), Progress(B, q), UseFixedTrees
  PROVE  Progress(B, q)'
<1>1. PICK j \in 1..Len(B) : AtBlockBody(B, q, j)
  BY DEF UseFixedTrees, Progress
<1>2. /\ B[j].kind = "fixed" /\ InBlock(B, j) /\ Where = BlockAt(B, q, j - 1) + 3
      /\ uncompressed_data = TextAt(B, j - 1)
  BY <1>1 DEF AtBlockBody, UseFixedTrees
<1>3. IsItemsBlock(B, q, j)
  BY <1>2, WhereIs, ItemsBlockIs
<1>4. /\ LiteralSizes(B[j]) = FixedLiteralSizes
      /\ DistanceSizes(B[j]) = FixedDistanceSizes
  BY <1>2, FixedHasTrees
<1>5. /\ literals_tree' = Tree(LiteralSizes(B[j]))
      /\ distances_tree' = Tree(DistanceSizes(B[j]))
      /\ at' = "symbol"
  BY <1>4, FixedSizesAre DEF UseFixedTrees
<1>6. /\ last_block_flag' = last_block_flag /\ uncompressed_data' = uncompressed_data
      /\ Where' = Where
  BY DEF UseFixedTrees, stream, Where
<1>7. Where' = ItemsAt(B, q, j)
  BY <1>2, <1>3, <1>6 DEF IsItemsBlock
<1> QED
  BY <1>2, <1>3, <1>5, <1>6, <1>7, ItemsBegin

(* The tree that the sizes of codes are written with is found. *)
LEMMA CodesTreeComes ==
  ASSUME InflaterInv, NEW B, NEW q, Inflates(B, q), NEW j, AtBlockBody(B, q, j),
         at = "dynamic"
  PROVE  /\ \A h \in CodesHeaders :
              /\ IsCodesHeader(h, B[j], Where + 14 + (3 * B[j].used))
              /\ CodesTrees(h.bits) = {Tree(B[j].codes)}
         /\ input.damage = "none" => CodesHeaders # {}
         /\ AreTrees(B[j])
<1> DEFINE b == B[j]
           header == TreesHeader(b)
           codes == Joined(CodesBits(b), b.used)
           rest == SizesBitsUpTo(b)[Len(b.code_sizes)]
<1>1. /\ b.kind = "dynamic" /\ j \in 1..Len(B)
      /\ Where = BlockAt(B, q, j - 1) + 3
  BY DEF AtBlockBody, InBlock
<1>2. /\ data \in Seq(Bytes) /\ IsStream(Stream) /\ Position(Stream) = Where
      /\ Where \in Nat
  BY WhereIs
<1>3. AreTrees(b) /\ Comes(Where, TreesBits(b))
  BY <1>1, <1>2, ItemsBlockIs DEF IsItemsBlock
<1> HIDE DEF b
<1>4. /\ header \in Seq(Bits) /\ codes \in Seq(Bits) /\ rest \in Seq(Bits)
      /\ TreesBits(b) = (header \o codes) \o rest
  BY <1>3, PartsOfTrees, Zenon
<1> HIDE DEF header, codes, rest
<1>5. header \o codes \in Seq(Bits)
  BY <1>4, ConcatenationOf
<1>6. Comes(Where, header \o codes)
  <2>1. Comes(Where, (header \o codes) \o rest)
    BY <1>3, <1>4
  <2> DEFINE first == header \o codes
  <2> HIDE DEF first
  <2>2. Comes(Where, first \o rest) /\ first \in Seq(Bits)
    BY <1>5, <2>1 DEF first
  <2>3. Comes(Where, first)
    BY <1>2, <1>4, <2>2, PartsCome
  <2> QED
    BY <2>3 DEF first
<1>7. /\ \A h \in CodesHeaders :
             IsCodesHeader(h, b, Position(Stream) + 14 + (3 * b.used))
      /\ input.damage = "none" => CodesHeaders # {}
  BY <1>2, <1>3, <1>6, TreesHeaderIsRead DEF header, codes
<1>8. CodesTrees(codes) = {Tree(b.codes)}
  BY <1>3, CodesTreesAre DEF codes
<1> QED
  BY <1>2, <1>3, <1>7, <1>8 DEF IsCodesHeader, codes, b

LEMMA UsedIsNat ==
  ASSUME NEW b, AreTrees(b)
  PROVE  b.used \in Nat
<1>1. b.used \in 4..19
  BY DEF AreTrees
<1>2. \A x \in 4..19 : x \in Nat
  OBVIOUS
<1> QED
  BY <1>1, <1>2, Zenon

(* There are sizes of codes to be read, and they fill the array. *)
LEMMA SizesOfBlockAre ==
  ASSUME NEW b, AreTrees(b), b.kind = "dynamic"
  PROVE  LET n == Len(b.code_sizes)
             f == SizesUpTo(b.code_sizes)
         IN  /\ n \in Nat \ {0}
             /\ f[0] = <<>>
             /\ AreSizesUpTo(f, b)
             /\ f[n] = SizesOf(b.code_sizes)
             /\ Len(f[n]) = b.literals + b.distances
             /\ b.literals \in Nat /\ b.distances \in Nat
             /\ \A k \in 0..n : /\ Len(f[k]) <= b.literals + b.distances
                                /\ k # n <=> Len(f[k]) < b.literals + b.distances
<1> DEFINE n == Len(b.code_sizes)
           f == SizesUpTo(b.code_sizes)
           total == b.literals + b.distances
<1>1. AreSizesUpTo(f, b)
  BY SizesUpToAre
<1>2. /\ b.literals \in Nat /\ b.distances \in Nat /\ b.literals >= 1
      /\ Len(SizesOf(b.code_sizes)) = total
  <2>1. b.literals \in 257..286 /\ b.distances \in 1..30
        /\ Len(SizesOf(b.code_sizes)) = total
    BY DEF AreTrees
  <2>2. /\ \A x \in 257..286 : x \in Nat /\ x >= 1
        /\ \A x \in 1..30 : x \in Nat
    OBVIOUS
  <2> QED
    BY <2>1, <2>2, ZenonT(60)
<1>3. f[n] = SizesOf(b.code_sizes)
  BY DEF SizesOf
<1>4. n \in Nat /\ f[0] = <<>>
  BY <1>1 DEF AreSizesUpTo
<1> HIDE DEF n, f
<1>5. n # 0
  <2>1. SUFFICES ASSUME n = 0 PROVE FALSE
    OBVIOUS
  <2>2. Len(f[n]) = 0
    BY <1>4, <2>1
  <2> QED
    BY <1>2, <1>3, <2>2
<1>6. ASSUME NEW k \in 0..n
      PROVE  /\ Len(f[k]) <= total
             /\ k # n <=> Len(f[k]) < total
  <2>1. /\ f[k] \in Seq(0..15)
        /\ Len(f[k]) <= Len(f[n])
        /\ k # n => Len(f[k]) < Len(f[n])
    BY <1>1, SizesGrow DEF n
  <2>2. Len(f[n]) = total /\ Len(f[k]) \in Nat /\ total \in Nat
    BY <1>2, <1>3, <2>1
  <2> HIDE DEF total
  <2> QED
    BY <2>1, <2>2
<1> QED
  BY <1>1, <1>2, <1>3, <1>4, <1>5, <1>6 DEF n, f

(* The numbers of codes and the tree their sizes are written with are read. *)
LEMMA ReadCodesTreeProgress ==
  ASSUME InflaterInv, NEW B, NEW q, Inflates(B, q), Progress(B, q), ReadCodesTree
  PROVE  Progress(B, q)'
<1>1. PICK j \in 1..Len(B) : AtBlockBody(B, q, j)
  BY DEF ReadCodesTree, Progress
<1>2. PICK h \in CodesHeaders : \E t \in CodesTrees(h.bits) :
        /\ codes_tree' = t
        /\ number_of_literal_codes' = h.literals
        /\ number_of_distance_codes' = h.distances
        /\ MoveTo(h.stream)
  BY DEF ReadCodesTree
<1> DEFINE b == B[j]
           p == BlockAt(B, q, j - 1)
<1>3. /\ IsCodesHeader(h, b, Where + 14 + (3 * b.used))
      /\ CodesTrees(h.bits) = {Tree(b.codes)}
      /\ AreTrees(b)
  BY <1>1, CodesTreeComes DEF ReadCodesTree
<1>4. /\ codes_tree' = Tree(b.codes)
      /\ number_of_literal_codes' = b.literals
      /\ number_of_distance_codes' = b.distances
      /\ Where' = Where + 14 + (3 * b.used)
  BY <1>2, <1>3, WhereMoved DEF IsCodesHeader
<1>5. /\ InBlock(B, j) /\ b.kind = "dynamic" /\ Where = p + 3
      /\ uncompressed_data = TextAt(B, j - 1)
  BY <1>1 DEF AtBlockBody, ReadCodesTree
<1>6. p \in Nat
  BY <1>5, WhereIs, ItemsBlockIs DEF IsItemsBlock
<1>7. /\ code_size_array' = <<>> /\ at' = "code_sizes"
      /\ last_block_flag' = last_block_flag
      /\ uncompressed_data' = uncompressed_data
  BY DEF ReadCodesTree
<1>8. /\ Len(b.code_sizes) \in Nat \ {0}
      /\ SizesUpTo(b.code_sizes)[0] = <<>>
  <2> HIDE DEF b
  <2> QED
    BY <1>3, <1>5, SizesOfBlockAre
<1>9. SizesBitsUpTo(b)[0] = <<>> /\ b.used \in Nat
  <2>1. b.used \in Nat
    BY <1>3, UsedIsNat
  <2> HIDE DEF b
  <2>2. SizesBitsUpTo(b)[0] = <<>>
    BY <1>3, TreesBitsAre
  <2> QED
    BY <2>1, <2>2
<1>10. Where' = SizesAt(B, q, j, 0)
  <2>1. SizesAt(B, q, j, 0) = p + 17 + (3 * b.used) + Len(<<>>)
    BY <1>9 DEF SizesAt
  <2>2. Len(<<>>) = 0
    OBVIOUS
  <2> HIDE DEF p
  <2> QED
    BY <1>4, <1>5, <1>6, <1>9, <2>1, <2>2
<1>11. 0 \in 0..Len(b.code_sizes) /\ 0 # Len(b.code_sizes)
  BY <1>8
<1>12. AtSizes(B, q, j, 0)'
  BY <1>4, <1>5, <1>7, <1>8, <1>10, <1>11 DEF AtSizes, InBlock
<1> QED
  BY <1>5, <1>7, <1>11, <1>12 DEF Progress, InBlock

LEMMA CannotReadCodesTreeProgress ==
  ASSUME InflaterInv, NEW B, NEW q, Inflates(B, q), Progress(B, q),
         CannotReadCodesTree
  PROVE  input.damage # "none"
<1>1. PICK j \in 1..Len(B) : AtBlockBody(B, q, j)
  BY DEF CannotReadCodesTree, Progress
<1>2. /\ \A h \in CodesHeaders : CodesTrees(h.bits) = {Tree(B[j].codes)}
      /\ input.damage = "none" => CodesHeaders # {}
  BY <1>1, CodesTreeComes DEF CannotReadCodesTree
<1>3. \A h \in CodesHeaders : CodesTrees(h.bits) = {}
  BY DEF CannotReadCodesTree
<1> QED
  BY <1>2, <1>3

(* The next item of the sizes of codes is read. *)
LEMMA NextRunComes ==
  ASSUME InflaterInv, NEW B, NEW q, Inflates(B, q), NEW j, NEW i, AtSizes(B, q, j, i),
         at = "code_sizes"
  PROVE  /\ i + 1 \in 1..Len(B[j].code_sizes)
         /\ \A r \in Runs :
              IsRun(r, SizeItem(code_size_array, B[j].code_sizes[i + 1]),
                    SizesAt(B, q, j, i + 1))
         /\ input.damage = "none" => Runs # {}
<1> DEFINE b == B[j]
           n == Len(b.code_sizes)
           f == SizesUpTo(b.code_sizes)
           F == SizesBitsUpTo(b)
           p == BlockAt(B, q, j - 1)
           first == p + 3
           item == b.code_sizes[i + 1]
<1>1. /\ InBlock(B, j) /\ b.kind = "dynamic" /\ i \in 0..n /\ i # n
      /\ code_size_array = f[i]
      /\ number_of_literal_codes = b.literals
      /\ number_of_distance_codes = b.distances
      /\ Where = SizesAt(B, q, j, i)
      /\ codes_tree = Tree(b.codes)
  BY DEF AtSizes
<1>2. /\ data \in Seq(Bytes) /\ IsStream(Stream) /\ Position(Stream) = Where
      /\ Where \in Nat
  BY WhereIs
<1>3. AreTrees(b) /\ Comes(first, TreesBits(b)) /\ p \in Nat
  BY <1>1, <1>2, ItemsBlockIs DEF IsItemsBlock, InBlock
<1>4. /\ SizesAt(B, q, j, i) = p + 17 + (3 * b.used) + Len(F[i])
      /\ SizesAt(B, q, j, i + 1) = p + 17 + (3 * b.used) + Len(F[i + 1])
  BY DEF SizesAt
<1>5. b.used \in Nat
  BY <1>3, UsedIsNat
<1> DEFINE header == TreesHeader(b)
           codes == Joined(CodesBits(b), b.used)
           rest == F[n]
           bits == BitsOfSizes(b, i + 1)
<1> HIDE DEF b, p
<1>6. /\ n \in Nat \ {0} /\ AreSizesUpTo(f, b)
      /\ \A k \in 0..n : Len(f[k]) <= b.literals + b.distances
  BY <1>1, <1>3, SizesOfBlockAre
<1>7. i + 1 \in 1..n /\ (i + 1) - 1 = i
  BY <1>1, <1>6
<1>8. /\ n \in Nat
      /\ header \in Seq(Bits) /\ Len(header) = 14
      /\ codes \in Seq(Bits) /\ Len(codes) = 3 * b.used
      /\ (\A k \in 1..n : /\ BitsOfSizes(b, k) \in Seq(Bits)
                          /\ Len(F[k]) = Len(F[k - 1]) + Len(BitsOfSizes(b, k)))
      /\ (\A k \in 0..n : F[k] \in Seq(Bits))
      /\ IsJoined(F, CodeSizesBits(b), n, Bits)
  BY <1>3, TreesBitsAre, Zenon
<1>9. rest \in Seq(Bits) /\ TreesBits(b) = (header \o codes) \o rest
  BY <1>3, PartsOfTrees, Zenon
<1>10. CodeSizesBits(b)[i + 1] = bits
  BY <1>7 DEF CodeSizesBits, BitsOfSizes
<1>11. AreCodes(b.codes)
  BY <1>3, CodesTreesAre
<1>12. /\ f[i + 1] = f[i] \o SizeItem(f[i], item)
       /\ IsSizeItem(f[i], b.codes, item)
       /\ Len(f[i + 1]) = Len(f[i]) + Len(SizeItem(f[i], item))
  BY <1>6, <1>7 DEF AreSizesUpTo
<1>13. Len(f[i + 1]) <= b.literals + b.distances
  BY <1>6, <1>7
<1> HIDE DEF header, codes, rest, n, F, bits, f, item, first
<1>14. /\ bits \in Seq(Bits)
       /\ Len(F[i + 1]) = Len(F[i]) + Len(bits)
       /\ Len(F[i]) \in Nat /\ Len(bits) \in Nat
  <2>1. i \in 0..n
    BY <1>1
  <2>2. F[i] \in Seq(Bits)
    BY <1>8, <2>1
  <2>3. bits \in Seq(Bits) /\ Len(F[i + 1]) = Len(F[i]) + Len(bits)
    BY <1>7, <1>8 DEF bits
  <2> QED
    BY <2>2, <2>3
<1>15. Comes(first + 14 + (3 * b.used), rest)
  <2> DEFINE start == header \o codes
  <2>1. start \in Seq(Bits) /\ Len(start) = 14 + (3 * b.used)
    <3> DEFINE u == 3 * b.used
    <3>1. u \in Nat
      BY <1>5
    <3>2. /\ header \in Seq(Bits) /\ codes \in Seq(Bits)
          /\ Len(header) = 14 /\ Len(codes) = u
      BY <1>8
    <3> HIDE DEF u
    <3>3. header \o codes \in Seq(Bits) /\ Len(header \o codes) = Len(header) + Len(codes)
      BY <3>2, ConcatenationOf
    <3> QED
      BY <3>1, <3>2, <3>3 DEF u
  <2>2. Comes(first, start \o rest)
    BY <1>3, <1>9
  <2>3. first \in Nat
    BY <1>3 DEF first
  <2> HIDE DEF start
  <2>4. Comes(first + Len(start), rest)
    BY <1>2, <1>9, <2>1, <2>2, <2>3, PartsCome
  <2>5. first + Len(start) = first + 14 + (3 * b.used)
    BY <1>5, <2>1, <2>3
  <2> QED
    BY <2>4, <2>5
<1> DEFINE o == first + 14 + (3 * b.used)
<1>16. o \in Nat /\ o = p + 17 + (3 * b.used)
  BY <1>3, <1>5 DEF first
<1> HIDE DEF o
<1>17. Comes(o + Len(F[i]), bits)
  <2>1. Comes(o, F[n])
    BY <1>15 DEF o, rest
  <2>2. Comes(o + Len(F[(i + 1) - 1]), CodeSizesBits(b)[i + 1])
    BY <1>2, <1>7, <1>8, <1>16, <2>1, JoinedComes
  <2> QED
    BY <1>7, <1>10, <2>2
<1>18. /\ Position(Stream) = o + Len(F[i])
       /\ SizesAt(B, q, j, i + 1) = Position(Stream) + Len(bits)
  <2>1. Position(Stream) = o + Len(F[i]) /\ SizesAt(B, q, j, i + 1) = o + Len(F[i + 1])
    BY <1>1, <1>2, <1>4, <1>16
  <2> QED
    BY <1>14, <1>16, <2>1
<1>19. number_of_code_sizes = b.literals + b.distances
  BY <1>1 DEF number_of_code_sizes
<1>20. bits = SizeItemBits(b.codes, item)
  BY DEF bits, BitsOfSizes, item
<1>21. code_size_array \in Seq(0..15)
  BY DEF InflaterInv, SizesInv
<1>22. /\ IsSizeItem(code_size_array, b.codes, item)
       /\ Len(code_size_array) + Len(SizeItem(code_size_array, item))
            <= number_of_code_sizes
       /\ Comes(Position(Stream), SizeItemBits(b.codes, item))
  BY <1>1, <1>12, <1>13, <1>17, <1>18, <1>19, <1>20
<1>23. /\ \A r \in Runs :
            IsRun(r, SizeItem(code_size_array, item),
                  Position(Stream) + Len(SizeItemBits(b.codes, item)))
       /\ input.damage = "none" => Runs # {}
  BY <1>1, <1>2, <1>11, <1>21, <1>22, RunIsRead, Zenon
<1> QED
  BY <1>7, <1>18, <1>20, <1>23 DEF item, b, n

(* Sizes of codes are read. *)
LEMMA ReadCodeSizesProgress ==
  ASSUME InflaterInv, NEW B, NEW q, Inflates(B, q), Progress(B, q), ReadCodeSizes
  PROVE  Progress(B, q)'
<1>0. at = "code_sizes"
  BY DEF ReadCodeSizes
<1>1. PICK j \in 1..Len(B) : \E i \in 0..Len(B[j].code_sizes) : AtSizes(B, q, j, i)
  BY <1>0 DEF Progress
<1>2. PICK i \in 0..Len(B[j].code_sizes) : AtSizes(B, q, j, i)
  BY <1>1
<1>3. PICK r \in Runs :
        /\ code_size_array' = code_size_array \o r.run
        /\ MoveTo(r.stream)
  BY DEF ReadCodeSizes
<1> DEFINE b == B[j]
           n == Len(b.code_sizes)
           f == SizesUpTo(b.code_sizes)
           total == b.literals + b.distances
           m == i + 1
<1>4. /\ m \in 1..n
      /\ IsRun(r, SizeItem(code_size_array, b.code_sizes[m]), SizesAt(B, q, j, m))
  BY <1>0, <1>2, <1>3, NextRunComes
<1>5. /\ InBlock(B, j) /\ b.kind = "dynamic"
      /\ code_size_array = f[i]
      /\ number_of_literal_codes = b.literals
      /\ number_of_distance_codes = b.distances
      /\ uncompressed_data = TextAt(B, j - 1)
      /\ codes_tree = Tree(b.codes)
  BY <1>0, <1>2 DEF AtSizes
<1>6. AreTrees(b)
  BY <1>5, WhereIs, ItemsBlockIs DEF IsItemsBlock, InBlock
<1>7. /\ n \in Nat \ {0} /\ AreSizesUpTo(f, b)
      /\ \A k \in 0..n : k # n <=> Len(f[k]) < total
  <2> HIDE DEF b
  <2> QED
    BY <1>5, <1>6, SizesOfBlockAre, Zenon
<1>8. f[m] = f[m - 1] \o SizeItem(f[m - 1], b.code_sizes[m]) /\ m - 1 = i
  <2>1. m - 1 = i
    OBVIOUS
  <2> HIDE DEF f, m
  <2> QED
    BY <1>4, <1>7, <2>1 DEF AreSizesUpTo
<1>9. code_size_array' = f[m] /\ Where' = SizesAt(B, q, j, m)
  <2>1. Where' = SizesAt(B, q, j, m)
    BY <1>3, <1>4, WhereMoved DEF IsRun
  <2> HIDE DEF f, m
  <2> QED
    BY <1>3, <1>4, <1>5, <1>8, <2>1 DEF IsRun
<1>10. /\ last_block_flag' = last_block_flag /\ codes_tree' = codes_tree
       /\ number_of_literal_codes' = number_of_literal_codes
       /\ number_of_distance_codes' = number_of_distance_codes
       /\ uncompressed_data' = uncompressed_data
       /\ at' = IF Len(code_size_array') < number_of_code_sizes
                THEN "code_sizes" ELSE "build"
  BY DEF ReadCodeSizes
<1>11. number_of_code_sizes = total
  BY <1>5 DEF number_of_code_sizes
<1> HIDE DEF f, m, n, total
<1>12. m \in 0..n /\ (m # n <=> Len(f[m]) < total)
  BY <1>4, <1>7
<1>13. /\ at' \in {"code_sizes", "build"}
       /\ at' = "code_sizes" => m # n
       /\ at' = "build" => m = n
  BY <1>9, <1>10, <1>11, <1>12
<1>14. AtSizes(B, q, j, m)'
  <2>1. InBlock(B, j)'
    BY <1>5, <1>10 DEF InBlock
  <2>2. /\ code_size_array' = SizesUpTo(B[j].code_sizes)[m]
        /\ m \in 0..Len(B[j].code_sizes)
        /\ at' = "code_sizes" => m # Len(B[j].code_sizes)
        /\ at' = "build" => m = Len(B[j].code_sizes)
    BY <1>9, <1>12, <1>13 DEF f, n
  <2> QED
    BY <1>5, <1>9, <1>10, <1>13, <2>1, <2>2 DEF AtSizes
<1> QED
  BY <1>12, <1>13, <1>14 DEF Progress, n

LEMMA CannotReadCodeSizesProgress ==
  ASSUME InflaterInv, NEW B, NEW q, Inflates(B, q), Progress(B, q),
         CannotReadCodeSizes
  PROVE  input.damage # "none"
<1>0. at = "code_sizes" /\ Runs = {}
  BY DEF CannotReadCodeSizes
<1>1. PICK j \in 1..Len(B) : \E i \in 0..Len(B[j].code_sizes) : AtSizes(B, q, j, i)
  BY <1>0 DEF Progress
<1>2. PICK i \in 0..Len(B[j].code_sizes) : AtSizes(B, q, j, i)
  BY <1>1
<1> QED
  BY <1>0, <1>2, NextRunComes

(* All sizes of codes are read: the trees are built. *)
LEMMA TreesOfBlock ==
  ASSUME InflaterInv, NEW B, NEW q, Inflates(B, q), Progress(B, q), at = "build"
  PROVE  /\ code_size_array[257] # 0
         /\ \E j \in 1..Len(B) :
              /\ InBlock(B, j)
              /\ B[j].kind = "dynamic"
              /\ uncompressed_data = TextAt(B, j - 1)
              /\ Where = ItemsAt(B, q, j)
              /\ Trees(LiteralCodeSizes) = {Tree(LiteralSizes(B[j]))}
              /\ Trees(DistanceCodeSizes) = {Tree(DistanceSizes(B[j]))}
<1>1. PICK j \in 1..Len(B) : \E i \in 0..Len(B[j].code_sizes) : AtSizes(B, q, j, i)
  BY DEF Progress
<1>2. PICK i \in 0..Len(B[j].code_sizes) : AtSizes(B, q, j, i)
  BY <1>1
<1> DEFINE b == B[j]
           n == Len(b.code_sizes)
           p == BlockAt(B, q, j - 1)
           rest == SizesBitsUpTo(b)[n]
<1>3. /\ InBlock(B, j) /\ b.kind = "dynamic" /\ i = n
      /\ code_size_array = SizesUpTo(b.code_sizes)[i]
      /\ number_of_literal_codes = b.literals
      /\ number_of_distance_codes = b.distances
      /\ uncompressed_data = TextAt(B, j - 1)
      /\ Where = SizesAt(B, q, j, i)
  BY <1>2 DEF AtSizes
<1>4. /\ AreTrees(b) /\ p \in Nat /\ HasTrees(b)
      /\ ItemsAt(B, q, j) = p + 3 + Len(TreesBits(b))
  BY <1>3, WhereIs, ItemsBlockIs DEF IsItemsBlock, InBlock
<1>5. SizesAt(B, q, j, i) = p + 17 + (3 * b.used) + Len(rest)
  BY <1>3 DEF SizesAt
<1>6. code_size_array = SizesOf(b.code_sizes)
  BY <1>3 DEF SizesOf
<1> HIDE DEF b, p
<1>7. b.used \in Nat /\ Len(rest) \in Nat
  <2>1. rest \in Seq(Bits)
    BY <1>4, PartsOfTrees, Zenon
  <2> QED
    BY <1>4, <2>1, UsedIsNat
<1>8. Len(TreesBits(b)) = 14 + (3 * b.used) + Len(rest)
  BY <1>4, TreesBitsAre, Zenon
<1>9. Where = ItemsAt(B, q, j)
  <2> DEFINE l == Len(rest)
             u == 3 * b.used
             all == Len(TreesBits(b))
  <2>1. /\ u \in Nat /\ l \in Nat /\ all = 14 + u + l
        /\ Where = p + 17 + u + l /\ ItemsAt(B, q, j) = p + 3 + all
    <3>1. u \in Nat /\ l \in Nat /\ all = 14 + u + l
      BY <1>7, <1>8
    <3>2. Where = p + 17 + u + l
      BY <1>3, <1>5
    <3>3. ItemsAt(B, q, j) = p + 3 + all
      BY <1>4
    <3> QED
      BY <3>1, <3>2, <3>3
  <2> HIDE DEF l, u, all
  <2> QED
    BY <1>4, <2>1
<1>10. /\ LiteralSizes(b) = SubSeq(SizesOf(b.code_sizes), 1, b.literals)
       /\ DistanceSizes(b) = SubSeq(SizesOf(b.code_sizes), b.literals + 1,
                                    b.literals + b.distances)
       /\ SizesOf(b.code_sizes)[257] # 0
  BY <1>3, <1>4, DynamicHasTrees
<1>11. LiteralCodeSizes = LiteralSizes(b) /\ DistanceCodeSizes = DistanceSizes(b)
  BY <1>3, <1>6, <1>10
     DEF LiteralCodeSizes, DistanceCodeSizes, number_of_code_sizes
<1>12. AreCodes(LiteralSizes(b)) /\ AreCodes(DistanceSizes(b))
  BY <1>4 DEF HasTrees
<1>13. /\ Trees(LiteralSizes(b)) = {Tree(LiteralSizes(b))}
       /\ Trees(DistanceSizes(b)) = {Tree(DistanceSizes(b))}
  BY <1>12, TreeIsBuilt DEF AreCodes
<1> QED
  BY <1>3, <1>6, <1>9, <1>10, <1>11, <1>13 DEF b

LEMMA BuildDynamicTreesProgress ==
  ASSUME InflaterInv, NEW B, NEW q, Inflates(B, q), Progress(B, q), BuildDynamicTrees
  PROVE  Progress(B, q)'
<1>1. at = "build"
  BY DEF BuildDynamicTrees
<1>2. PICK j \in 1..Len(B) :
        /\ InBlock(B, j)
        /\ B[j].kind = "dynamic"
        /\ uncompressed_data = TextAt(B, j - 1)
        /\ Where = ItemsAt(B, q, j)
        /\ Trees(LiteralCodeSizes) = {Tree(LiteralSizes(B[j]))}
        /\ Trees(DistanceCodeSizes) = {Tree(DistanceSizes(B[j]))}
  BY <1>1, TreesOfBlock
<1>3. /\ literals_tree' = Tree(LiteralSizes(B[j]))
      /\ distances_tree' = Tree(DistanceSizes(B[j]))
      /\ at' = "symbol"
  BY <1>2 DEF BuildDynamicTrees
<1>4. /\ last_block_flag' = last_block_flag /\ uncompressed_data' = uncompressed_data
      /\ Where' = Where
  BY DEF BuildDynamicTrees, stream, Where
<1>5. IsItemsBlock(B, q, j) /\ B[j].kind # "stored"
  BY <1>2, WhereIs, ItemsBlockIs
<1> QED
  BY <1>2, <1>3, <1>4, <1>5, ItemsBegin

LEMMA CannotBuildDynamicTreesProgress ==
  ASSUME InflaterInv, NEW B, NEW q, Inflates(B, q), Progress(B, q),
         CannotBuildDynamicTrees
  PROVE  FALSE
<1>1. at = "build"
  BY DEF CannotBuildDynamicTrees
<1>2. /\ code_size_array[257] # 0
      /\ Trees(LiteralCodeSizes) # {} /\ Trees(DistanceCodeSizes) # {}
  BY <1>1, TreesOfBlock
<1> QED
  BY <1>2 DEF CannotBuildDynamicTrees

(* What comes after an item of a block: its end, a literal or a match. *)
EndComes(B, q, j, i) ==
  /\ i = Len(B[j].items)
  /\ \A d \in LiteralsOrSizes :
       /\ d.symbol = 256
       /\ IsStream(d.stream)
       /\ Position(d.stream) = BlockAt(B, q, j)

LiteralComes(B, q, j, i) ==
  /\ i + 1 \in 1..Len(B[j].items)
  /\ B[j].items[i + 1][1] \in 0..255
  /\ ItemText(B, j, i + 1) = Append(ItemText(B, j, i), B[j].items[i + 1][1])
  /\ \A d \in LiteralsOrSizes :
       /\ d.symbol = B[j].items[i + 1][1]
       /\ IsStream(d.stream)
       /\ Position(d.stream) = ItemAt(B, q, j, i + 1)

MatchComes(B, q, j, i) ==
  /\ i + 1 \in 1..Len(B[j].items)
  /\ Len(B[j].items[i + 1]) # 1
  /\ \A d \in LiteralsOrSizes :
       /\ d.symbol \in 257..285
       /\ \A m \in MatchSizes(d) :
            /\ m.size = B[j].items[i + 1][1]
            /\ IsStream(m.stream)
            /\ Position(m.stream) =
                 ItemAt(B, q, j, i)
                   + Len(BitsOfSize(LiteralSizes(B[j]), B[j].items[i + 1][1]))
       /\ input.damage = "none" => MatchSizes(d) # {}

(* The items of a block, and the bits and texts they stand for. *)
LEMMA ItemIs ==
  ASSUME data \in Seq(Bytes), NEW B, NEW q, Inflates(B, q), NEW j \in 1..Len(B),
         B[j].kind # "stored", NEW i \in 1..Len(B[j].items)
  PROVE  LET b == B[j]
             item == b.items[i]
         IN  /\ AreCodes(LiteralSizes(b)) /\ AreCodes(DistanceSizes(b))
             /\ IsItem(ItemText(B, j, i - 1), LiteralSizes(b), DistanceSizes(b), item)
             /\ ItemText(B, j, i - 1) \in Seq(Bytes)
             /\ ItemText(B, j, i) = TextAfterItem(ItemText(B, j, i - 1), item)
             /\ ItemAt(B, q, j, i - 1) \in Nat
             /\ Comes(ItemAt(B, q, j, i - 1), BitsOfItem(b, i))
             /\ BitsOfItem(b, i) \in Seq(Bits)
             /\ ItemAt(B, q, j, i) = ItemAt(B, q, j, i - 1) + Len(BitsOfItem(b, i))
<1> DEFINE b == B[j]
           n == Len(b.items)
           f == ItemTexts(TextAt(B, j - 1), b.items)
           F == ItemsUpTo(b)
           o == ItemsAt(B, q, j)
           t == TextAt(B, j - 1)
<1>1. /\ HasTrees(b) /\ AreItemTexts(f, t, b)
      /\ n \in Nat /\ o \in Nat /\ ItemsCome(b, o)
  BY ItemsBlockIs DEF IsItemsBlock
<1>2. i \in 1..n
  OBVIOUS
<1>3. /\ ItemText(B, j, i - 1) = f[i - 1] /\ ItemText(B, j, i) = f[i]
      /\ ItemAt(B, q, j, i - 1) = o + Len(F[i - 1])
      /\ ItemAt(B, q, j, i) = o + Len(F[i])
  BY DEF ItemText, ItemAt
<1>4. Comes(o + Len(F[i - 1]), BitsOfItem(b, i))
  BY <1>1 DEF ItemsCome
<1> HIDE DEF b, f, o, t
<1>5. /\ f \in [0..n -> Seq(Bytes)]
      /\ f[i] = TextAfterItem(f[i - 1], b.items[i])
      /\ IsItem(f[i - 1], LiteralSizes(b), DistanceSizes(b), b.items[i])
  BY <1>1, <1>2 DEF AreItemTexts, AreTexts
<1>6. /\ \A k \in 0..n : F[k] \in Seq(Bits)
      /\ \A k \in 1..n : /\ BitsOfItem(b, k) \in Seq(Bits)
                         /\ Len(F[k]) = Len(F[k - 1]) + Len(BitsOfItem(b, k))
  BY <1>1, ItemsAreJoined, ZenonT(60)
<1> HIDE DEF n, F
<1>7. i - 1 \in 0..n
  BY <1>1, <1>2
<1>8. f[i - 1] \in Seq(Bytes) /\ F[i - 1] \in Seq(Bits)
  BY <1>5, <1>6, <1>7
<1>9. BitsOfItem(b, i) \in Seq(Bits) /\ Len(F[i]) = Len(F[i - 1]) + Len(BitsOfItem(b, i))
  BY <1>2, <1>6
<1>10. /\ o + Len(F[i - 1]) \in Nat
       /\ o + Len(F[i]) = (o + Len(F[i - 1])) + Len(BitsOfItem(b, i))
  BY <1>1, <1>8, <1>9
<1>11. AreCodes(LiteralSizes(b)) /\ AreCodes(DistanceSizes(b))
  BY <1>1 DEF HasTrees
<1> QED
  BY <1>3, <1>4, <1>5, <1>8, <1>9, <1>10, <1>11 DEF b

(* The symbol that comes after item i of the block that is read. *)
LEMMA SymbolComes ==
  ASSUME InflaterInv, NEW B, NEW q, Inflates(B, q), NEW j, NEW i, AtItem(B, q, j, i)
  PROVE  /\ \/ EndComes(B, q, j, i)
            \/ LiteralComes(B, q, j, i)
            \/ MatchComes(B, q, j, i)
         /\ input.damage = "none" => LiteralsOrSizes # {}
<1> DEFINE b == B[j]
           n == Len(b.items)
           literals == LiteralSizes(b)
           distances == DistanceSizes(b)
           o == ItemsAt(B, q, j)
           m == i + 1
           item == b.items[m]
<1>1. /\ j \in 1..Len(B) /\ b.kind # "stored" /\ i \in 0..n
      /\ literals_tree = Tree(literals)
      /\ Where = ItemAt(B, q, j, i)
  BY DEF AtItem, InItems, InBlock
<1>2. /\ data \in Seq(Bytes) /\ IsStream(Stream) /\ Position(Stream) = Where
      /\ Where \in Nat
  BY WhereIs
<1>3. /\ HasTrees(b) /\ n \in Nat /\ o \in Nat /\ ItemsCome(b, o)
      /\ AreItemTexts(ItemTexts(TextAt(B, j - 1), b.items), TextAt(B, j - 1), b)
      /\ BlockAt(B, q, j) = o + Len(BlockItemsBits(b))
  BY <1>1, <1>2, ItemsBlockIs DEF IsItemsBlock
<1>4. AreCodes(literals) /\ HasCode(literals, 256)
  BY <1>3 DEF HasTrees
<1>5. LiteralsOrSizes = Symbols(Tree(literals), Stream)
  BY <1>1 DEF LiteralsOrSizes
<1>6. CASE i = n
  <2> DEFINE F == ItemsUpTo(b)
             e == Code(literals, 256)
             end == 256
  <2>1. Where = o + Len(F[n]) /\ Comes(o + Len(F[n]), e)
    BY <1>1, <1>3, <1>6 DEF ItemAt, ItemsCome
  <2> HIDE DEF b
  <2>2. /\ \A k \in 0..n : F[k] \in Seq(Bits)
        /\ e \in Seq(Bits)
        /\ Len(BlockItemsBits(b)) = Len(F[n]) + Len(e)
    BY <1>3, ItemsAreJoined, ZenonT(60)
  <2> HIDE DEF literals, F, n
  <2>3. end \in Nat /\ HasCode(literals, end) /\ e = Code(literals, end)
    BY <1>4
  <2> HIDE DEF end, e
  <2>4. Comes(Position(Stream), e)
    BY <1>2, <2>1
  <2>5. /\ \A d \in Symbols(Tree(literals), Stream) :
             /\ d.symbol = end
             /\ IsStream(d.stream)
             /\ Position(d.stream) = Position(Stream) + Len(e)
        /\ input.damage = "none" => Symbols(Tree(literals), Stream) # {}
    BY <1>2, <1>4, <2>3, <2>4, CodeIsRead
  <2>6. Position(Stream) + Len(e) = BlockAt(B, q, j)
    <3>1. n \in 0..n
      BY <1>3
    <3>2. Len(F[n]) \in Nat /\ Len(e) \in Nat
      BY <2>2, <3>1
    <3> QED
      BY <1>2, <1>3, <2>1, <2>2, <3>2
  <2>7. EndComes(B, q, j, i)
    BY <1>5, <1>6, <2>5, <2>6 DEF EndComes, end, n, b
  <2> QED
    BY <1>5, <2>5, <2>7
<1>7. CASE i # n
  <2>1. m \in 1..n /\ m - 1 = i
    BY <1>1, <1>3, <1>7
  <2> DEFINE p == ItemAt(B, q, j, m - 1)
             bits == BitsOfItem(b, m)
             text == ItemText(B, j, m - 1)
  <2>2. /\ AreCodes(distances)
        /\ IsItem(text, literals, distances, item)
        /\ text \in Seq(Bytes)
        /\ ItemText(B, j, m) = TextAfterItem(text, item)
        /\ p \in Nat
        /\ Comes(p, bits)
        /\ ItemAt(B, q, j, m) = p + Len(bits)
    <3> HIDE DEF m
    <3> QED
      BY <1>1, <1>2, <2>1, ItemIs
  <2>3. bits = ItemBits(literals, distances, item)
    BY DEF BitsOfItem
  <2>4. p = ItemAt(B, q, j, i) /\ text = ItemText(B, j, i) /\ Position(Stream) = p
    BY <1>1, <1>2, <2>1
  <2> HIDE DEF b, m, n, item, literals, distances, p, bits, text
  <2>5. CASE Len(item) = 1
    <3>1. item[1] \in 0..255 /\ HasCode(literals, item[1])
            /\ bits = Code(literals, item[1])
      BY <1>4, <2>2, <2>3, <2>5, ItemBitsAre, ZenonT(60)
    <3>2. ItemText(B, j, m) = Append(text, item[1])
      BY <2>2, <2>5, TextAfterItemIs
    <3>3. \A s \in 0..255 : s \in Nat
      OBVIOUS
    <3>4. item[1] \in Nat
      BY <3>1, <3>3, Zenon
    <3>5. Comes(Position(Stream), Code(literals, item[1]))
      BY <2>2, <2>4, <3>1
    <3>6. /\ \A d \in Symbols(Tree(literals), Stream) :
               /\ d.symbol = item[1]
               /\ IsStream(d.stream)
               /\ Position(d.stream) = Position(Stream) + Len(Code(literals, item[1]))
          /\ input.damage = "none" => Symbols(Tree(literals), Stream) # {}
      BY <1>2, <1>4, <3>1, <3>4, <3>5, CodeIsRead, Zenon
    <3>7. \A d \in LiteralsOrSizes :
               /\ d.symbol = item[1]
               /\ IsStream(d.stream)
               /\ Position(d.stream) = ItemAt(B, q, j, m)
      BY <1>5, <2>2, <2>4, <3>1, <3>6, Zenon
    <3>8. LiteralComes(B, q, j, i)
      BY <2>1, <2>4, <3>1, <3>2, <3>7, Zenon DEF LiteralComes, m, n, b, item
    <3> QED
      BY <1>5, <3>6, <3>8
  <2>6. CASE Len(item) # 1
    <3> DEFINE size == item[1]
               first == BitsOfSize(literals, size)
               second == BitsOfDistance(distances, item[2])
               code == SizeCode(size)
               extra == LowFirst(size - FirstSizes[code], SizeExtra(code))
               start == Code(literals, code)
    <3>1. /\ IsMatchSize(literals, size)
          /\ first \in Seq(Bits) /\ second \in Seq(Bits)
          /\ bits = first \o second
      BY <1>4, <2>2, <2>3, <2>6, ItemBitsAre, ZenonT(60)
    <3> HIDE DEF size, second
    <3>2. /\ code \in 257..285 /\ start \in Seq(Bits) /\ extra \in Seq(Bits)
          /\ first = start \o extra
      BY <1>4, <3>1, SizeBitsAre, ZenonT(60)
    <3>3. HasCode(literals, code)
      BY <3>1 DEF IsMatchSize
    <3>4. \A s \in 257..285 : s \in Nat
      OBVIOUS
    <3>5. code \in Nat
      BY <3>2, <3>4, Zenon
    <3> HIDE DEF first, extra, start, code
    <3>6. Comes(p, first \o second) /\ Comes(p, start \o extra) /\ Comes(p, start)
      <4>1. Comes(p, first \o second)
        BY <2>2, <3>1
      <4>2. Comes(p, first)
        BY <1>2, <2>2, <3>1, <4>1, PartsCome
      <4>3. Comes(p, start \o extra)
        BY <3>2, <4>2
      <4>4. Comes(p, start)
        BY <1>2, <2>2, <3>2, <4>3, PartsCome
      <4> QED
        BY <4>1, <4>3, <4>4
    <3>7. input.damage = "none" => Symbols(Tree(literals), Stream) # {}
      <4>1. Comes(Position(Stream), Code(literals, code))
        BY <2>4, <3>6 DEF start
      <4> QED
        BY <1>2, <1>4, <3>3, <3>5, <4>1, CodeIsRead, Zenon
    <3>8. Comes(Position(Stream), BitsOfSize(literals, size))
      BY <2>4, <3>2, <3>6 DEF first
    <3>9. \A d \in Symbols(Tree(literals), Stream) :
            /\ d.symbol \in 257..285
            /\ \A v \in MatchSizes(d) :
                 /\ v.size = size
                 /\ IsStream(v.stream)
                 /\ Position(v.stream) =
                        Position(Stream) + Len(BitsOfSize(literals, size))
            /\ input.damage = "none" => MatchSizes(d) # {}
      BY <1>2, <1>4, <3>1, <3>8, MatchSizeIsRead, Zenon
    <3>10. MatchComes(B, q, j, i)
      <4>1. Position(Stream) = ItemAt(B, q, j, i)
        BY <2>4
      <4> QED
        BY <1>5, <2>1, <2>6, <3>9, <4>1, ZenonT(60)
           DEF MatchComes, m, n, b, item, size, literals
    <3> QED
      BY <1>5, <3>7, <3>10
  <2> QED
    BY <2>5, <2>6
<1> QED
  BY <1>6, <1>7

(* The place among the items of a block where the inflater is. *)
LEMMA SymbolIsAtItem ==
  ASSUME NEW B, NEW q, Progress(B, q), at = "symbol"
  PROVE  \E j \in 1..Len(B) : \E i \in 0..Len(B[j].items) : AtItem(B, q, j, i)
BY DEF Progress

(* The text after an item is a beginning of that of the message. *)
LEMMA TextOfItemFits ==
  ASSUME data \in Seq(Bytes), NEW B, NEW q, Inflates(B, q), NEW j \in 1..Len(B),
         B[j].kind # "stored", NEW k \in 0..Len(B[j].items)
  PROVE  /\ ItemText(B, j, k) \in Seq(Bytes)
         /\ Begins(ItemText(B, j, k), Text(B))
         /\ Len(ItemText(B, j, k)) <= Len(Text(B))
         /\ Len(ItemText(B, j, k)) \in Nat /\ Len(Text(B)) \in Nat
<1> DEFINE b == B[j]
           n == Len(b.items)
           f == ItemTexts(TextAt(B, j - 1), b.items)
           t == TextAt(B, j - 1)
<1>1. /\ AreItemTexts(f, t, b) /\ n \in Nat
      /\ TextAt(B, j) = ItemText(B, j, n)
  BY ItemsBlockIs DEF IsItemsBlock
<1>2. ItemText(B, j, k) = f[k] /\ ItemText(B, j, n) = f[n]
  BY DEF ItemText
<1>3. k \in 0..n
  OBVIOUS
<1>4. IsMessage(B) /\ Len(B) \in Nat /\ j \in 0..Len(B)
  <2>1. IsMessage(B)
    BY DEF Inflates
  <2> QED
    BY <2>1, TextsOfBlocks
<1> HIDE DEF b, f, t
<1>5. AreTexts(f, n)
  BY <1>1 DEF AreItemTexts
<1>6. f[k] \in Seq(Bytes) /\ Begins(f[k], f[n])
  <2> HIDE DEF n
  <2> QED
    BY <1>1, <1>3, <1>5, TextsAreBeginnings
<1>7. /\ Begins(f[k], Text(B)) /\ Len(f[k]) <= Len(Text(B))
  BY <1>1, <1>2, <1>4, <1>6, TextOfBlockFits
<1>8. Text(B) \in Seq(Bytes)
  BY <1>4, TextsOfMessage
<1> QED
  BY <1>2, <1>6, <1>7, <1>8

(* What kind of symbol follows is known from what is done with it. *)
SaysEnd(d) == d.symbol = 256
SaysLiteral(d) == d.symbol \in 0..255
SaysMatch(d) == d.symbol \in 257..285

LEMMA KindsDiffer ==
  ASSUME NEW d
  PROVE  /\ SaysEnd(d) => ~SaysLiteral(d) /\ ~SaysMatch(d)
         /\ SaysLiteral(d) => ~SaysMatch(d)
BY DEF SaysEnd, SaysLiteral, SaysMatch

LEMMA KindsOfSymbols ==
  ASSUME NEW B, NEW q, NEW j, NEW i, NEW d \in LiteralsOrSizes
  PROVE  /\ EndComes(B, q, j, i) => SaysEnd(d)
         /\ LiteralComes(B, q, j, i) => SaysLiteral(d)
         /\ MatchComes(B, q, j, i) => SaysMatch(d)
<1>3. EndComes(B, q, j, i) => SaysEnd(d)
  BY DEF EndComes, SaysEnd
<1>4. LiteralComes(B, q, j, i) => SaysLiteral(d)
  BY DEF LiteralComes, SaysLiteral
<1>5. MatchComes(B, q, j, i) => SaysMatch(d)
  BY DEF MatchComes, SaysMatch
<1> QED
  BY <1>3, <1>4, <1>5, Zenon

LEMMA KindComes ==
  ASSUME NEW B, NEW q, NEW j, NEW i, NEW d \in LiteralsOrSizes,
         \/ EndComes(B, q, j, i) \/ LiteralComes(B, q, j, i) \/ MatchComes(B, q, j, i)
  PROVE  /\ IsLiteral(d) => LiteralComes(B, q, j, i)
         /\ MatchSizes(d) # {} => MatchComes(B, q, j, i)
         /\ d.symbol = 256 => EndComes(B, q, j, i)
<1>1. IsLiteral(d) => SaysLiteral(d)
  BY DEF IsLiteral, SaysLiteral
<1>2. MatchSizes(d) # {} => SaysMatch(d)
  BY DEF MatchSizes, SaysMatch
<1>3. d.symbol = 256 => SaysEnd(d)
  BY DEF SaysEnd
<1>4. /\ SaysLiteral(d) => LiteralComes(B, q, j, i)
      /\ SaysMatch(d) => MatchComes(B, q, j, i)
      /\ SaysEnd(d) => EndComes(B, q, j, i)
  BY KindsOfSymbols, KindsDiffer, Zenon
<1> QED
  BY <1>1, <1>2, <1>3, <1>4

(* A literal is decoded. *)
LEMMA DecodeLiteralProgress ==
  ASSUME InflaterInv, NEW B, NEW q, Inflates(B, q), Progress(B, q), DecodeLiteral
  PROVE  Progress(B, q)'
<1>0. at = "symbol"
  BY DEF DecodeLiteral
<1>1. PICK j \in 1..Len(B) : \E i \in 0..Len(B[j].items) : AtItem(B, q, j, i)
  BY <1>0, SymbolIsAtItem
<1>2. PICK i \in 0..Len(B[j].items) : AtItem(B, q, j, i)
  BY <1>1
<1>3. PICK d \in LiteralsOrSizes :
        /\ IsLiteral(d)
        /\ uncompressed_data' = Append(uncompressed_data, d.symbol)
        /\ MoveTo(d.stream)
  BY DEF DecodeLiteral
<1>4. LiteralComes(B, q, j, i)
  BY <1>2, <1>3, SymbolComes, KindComes
<1>5. /\ Where' = ItemAt(B, q, j, i + 1)
      /\ uncompressed_data' = ItemText(B, j, i + 1)
      /\ i + 1 \in 0..Len(B[j].items)
  <2>1. uncompressed_data = ItemText(B, j, i)
    BY <1>2 DEF AtItem
  <2>2. Where' = ItemAt(B, q, j, i + 1) /\ uncompressed_data' = ItemText(B, j, i + 1)
    BY <1>3, <1>4, <2>1, WhereMoved, Zenon DEF LiteralComes
  <2>3. i + 1 \in 1..Len(B[j].items)
    BY <1>4 DEF LiteralComes
  <2> QED
    BY <2>2, <2>3
<1>6. /\ last_block_flag' = last_block_flag /\ at' = at
      /\ literals_tree' = literals_tree /\ distances_tree' = distances_tree
  BY DEF DecodeLiteral, decoding, trees
<1>7. InItems(B, j)'
  <2>1. InItems(B, j)
    BY <1>2 DEF AtItem
  <2> QED
    BY <1>6, <2>1 DEF InItems, InBlock
<1>8. AtItem(B, q, j, i + 1)'
  BY <1>5, <1>7 DEF AtItem
<1> QED
  BY <1>0, <1>5, <1>6, <1>8 DEF Progress

(* The size of a match is decoded. *)
LEMMA DecodeMatchSizeProgress ==
  ASSUME InflaterInv, NEW B, NEW q, Inflates(B, q), Progress(B, q), DecodeMatchSize
  PROVE  Progress(B, q)'
<1>0. at = "symbol"
  BY DEF DecodeMatchSize
<1>1. PICK j \in 1..Len(B) : \E i \in 0..Len(B[j].items) : AtItem(B, q, j, i)
  BY <1>0, SymbolIsAtItem
<1>2. PICK i \in 0..Len(B[j].items) : AtItem(B, q, j, i)
  BY <1>1
<1>3. PICK d \in LiteralsOrSizes : \E m \in MatchSizes(d) :
        compression_size' = m.size /\ MoveTo(m.stream)
  BY DEF DecodeMatchSize
<1>4. PICK m \in MatchSizes(d) : compression_size' = m.size /\ MoveTo(m.stream)
  BY <1>3
<1>5. MatchComes(B, q, j, i)
  BY <1>2, <1>4, SymbolComes, KindComes
<1> DEFINE k == i + 1
<1>6. /\ k \in 1..Len(B[j].items) /\ k - 1 = i /\ Len(B[j].items[k]) # 1
      /\ compression_size' = B[j].items[k][1]
      /\ Where' = ItemAt(B, q, j, i)
                    + Len(BitsOfSize(LiteralSizes(B[j]), B[j].items[k][1]))
  <2>1. k \in 1..Len(B[j].items) /\ Len(B[j].items[k]) # 1
    BY <1>5 DEF MatchComes
  <2>2. k - 1 = i
    OBVIOUS
  <2>3. /\ m.size = B[j].items[k][1]
        /\ Position(m.stream) =
             ItemAt(B, q, j, i)
               + Len(BitsOfSize(LiteralSizes(B[j]), B[j].items[k][1]))
    BY <1>5, Zenon DEF MatchComes
  <2> HIDE DEF k
  <2> QED
    BY <1>4, <2>1, <2>2, <2>3, WhereMoved, Zenon
<1>7. /\ last_block_flag' = last_block_flag /\ at' = "distance"
      /\ literals_tree' = literals_tree /\ distances_tree' = distances_tree
      /\ uncompressed_data' = uncompressed_data
  BY DEF DecodeMatchSize, trees
<1>8. InItems(B, j) /\ uncompressed_data = ItemText(B, j, i)
  BY <1>2 DEF AtItem
<1>9. InItems(B, j)'
  BY <1>7, <1>8 DEF InItems, InBlock
<1> HIDE DEF k
<1>10. AtDistance(B, q, j, k)'
  BY <1>6, <1>7, <1>8, <1>9 DEF AtDistance
<1> QED
  BY <1>6, <1>7, <1>10 DEF Progress

(* The end of a block is decoded. *)
LEMMA EndBlockProgress ==
  ASSUME InflaterInv, NEW B, NEW q, Inflates(B, q), Progress(B, q), EndBlock
  PROVE  Progress(B, q)'
<1>0. at = "symbol"
  BY DEF EndBlock
<1>1. PICK j \in 1..Len(B) : \E i \in 0..Len(B[j].items) : AtItem(B, q, j, i)
  BY <1>0, SymbolIsAtItem
<1>2. PICK i \in 0..Len(B[j].items) : AtItem(B, q, j, i)
  BY <1>1
<1>3. PICK d \in LiteralsOrSizes :
        d.symbol = 256 /\ MoveTo(d.stream) /\ AfterBlock(d.stream.offset)
  BY DEF EndBlock
<1>4. EndComes(B, q, j, i)
  <2>1. EndComes(B, q, j, i) \/ LiteralComes(B, q, j, i) \/ MatchComes(B, q, j, i)
    BY <1>2, SymbolComes
  <2>2. d.symbol = 256 => EndComes(B, q, j, i)
    BY <2>1, KindComes
  <2> QED
    BY <1>3, <2>2
<1>5. /\ IsStream(d.stream) /\ Position(d.stream) = BlockAt(B, q, j)
      /\ i = Len(B[j].items)
  BY <1>4 DEF EndComes
<1>6. InBlock(B, j) /\ B[j].kind # "stored" /\ uncompressed_data = ItemText(B, j, i)
  BY <1>2 DEF AtItem, InItems
<1>7. UNCHANGED <<input, last_block_flag>> /\ uncompressed_data' = uncompressed_data
  BY DEF EndBlock
<1>8. uncompressed_data' = TextAt(B, j)
  <2>1. ItemText(B, j, Len(B[j].items)) = TextAt(B, j)
    BY <1>6, WhereIs, ItemsBlockIs DEF IsItemsBlock, InBlock
  <2> QED
    BY <1>5, <1>6, <1>7, <2>1
<1> DEFINE z == d.stream
<1> HIDE DEF z
<1>9. IsStream(z) /\ MoveTo(z) /\ AfterBlock(z.offset) /\ Position(z) = BlockAt(B, q, j)
  BY <1>3, <1>5 DEF z
<1> QED
  BY <1>6, <1>7, <1>8, <1>9, BlockEnded

(* A symbol of whole data is refused when there is no room for a literal. *)
LEMMA CannotDecodeSymbolProgress ==
  ASSUME InflaterInv, NEW B, NEW q, Inflates(B, q), Progress(B, q),
         CannotDecodeSymbol, input.damage = "none"
  PROVE  Len(Text(B)) > input.size
<1>0. at = "symbol"
  BY DEF CannotDecodeSymbol
<1>1. PICK j \in 1..Len(B) : \E i \in 0..Len(B[j].items) : AtItem(B, q, j, i)
  BY <1>0, SymbolIsAtItem
<1>2. PICK i \in 0..Len(B[j].items) : AtItem(B, q, j, i)
  BY <1>1
<1>3. /\ \/ EndComes(B, q, j, i) \/ LiteralComes(B, q, j, i) \/ MatchComes(B, q, j, i)
      /\ LiteralsOrSizes # {}
  BY <1>2, SymbolComes
<1>4. PICK d \in LiteralsOrSizes : TRUE
  BY <1>3
<1>5. ~IsLiteral(d) /\ MatchSizes(d) = {} /\ d.symbol # 256
  BY DEF CannotDecodeSymbol
<1>6. LiteralComes(B, q, j, i)
  BY <1>3, <1>4, <1>5 DEF EndComes, MatchComes
<1>7. d.symbol \in 0..255
  BY <1>6, KindsOfSymbols DEF SaysLiteral
<1>8. ~(Len(uncompressed_data) < input.size)
  BY <1>5, <1>7 DEF IsLiteral
<1> DEFINE k == i + 1
           byte == B[j].items[k][1]
<1>9. /\ k \in 1..Len(B[j].items) /\ byte \in Bytes
      /\ ItemText(B, j, k) = Append(ItemText(B, j, i), byte)
  BY <1>6 DEF LiteralComes, Bytes
<1>10. /\ InBlock(B, j) /\ B[j].kind # "stored"
       /\ uncompressed_data = ItemText(B, j, i)
  BY <1>2 DEF AtItem, InItems
<1> HIDE DEF k, byte
<1>11. /\ uncompressed_data \in Seq(Bytes) /\ input.size \in Nat
  BY DEF InflaterInv, OutputInv
<1>12. Len(ItemText(B, j, k)) > input.size
  <2> DEFINE text == ItemText(B, j, k)
  <2>1. text = Append(uncompressed_data, byte)
    BY <1>9, <1>10
  <2> HIDE DEF text
  <2>2. Len(text) = Len(uncompressed_data) + 1 /\ Len(uncompressed_data) \in Nat
    BY <1>9, <1>11, <2>1
  <2>3. Len(text) > input.size
    BY <1>8, <1>11, <2>2
  <2> QED
    BY <2>3 DEF text
<1>13. k \in 0..Len(B[j].items)
  BY <1>9
<1>14. /\ Len(ItemText(B, j, k)) <= Len(Text(B))
       /\ Len(ItemText(B, j, k)) \in Nat /\ Len(Text(B)) \in Nat
  BY <1>10, <1>13, WhereIs, TextOfItemFits DEF InBlock
<1> QED
  BY <1>11, <1>12, <1>14

(* What a match of the block that is read copies. *)
LEMMA MatchIsCopied ==
  ASSUME InflaterInv, NEW B, NEW q, Inflates(B, q), NEW j, NEW i,
         AtDistance(B, q, j, i)
  PROVE  /\ \A m \in Distances :
              /\ m.distance <= Len(uncompressed_data)
              /\ IsStream(m.stream)
              /\ Position(m.stream) = ItemAt(B, q, j, i)
              /\ uncompressed_data \o Copy(m.distance) = ItemText(B, j, i)
         /\ input.damage = "none" => Distances # {}
         /\ Len(ItemText(B, j, i)) = Len(uncompressed_data) + compression_size
<1> DEFINE b == B[j]
           literals == LiteralSizes(b)
           distances == DistanceSizes(b)
           item == b.items[i]
           p == ItemAt(B, q, j, i - 1)
           bits == BitsOfItem(b, i)
           text == uncompressed_data
           first == BitsOfSize(literals, item[1])
           second == BitsOfDistance(distances, item[2])
<1>1. /\ j \in 1..Len(B) /\ b.kind # "stored" /\ i \in 1..Len(b.items)
      /\ distances_tree = Tree(distances)
      /\ Len(item) # 1
      /\ compression_size = item[1]
      /\ Where = p + Len(first)
      /\ text = ItemText(B, j, i - 1)
  BY DEF AtDistance, InItems, InBlock
<1>2. /\ data \in Seq(Bytes) /\ IsStream(Stream) /\ Position(Stream) = Where
      /\ Where \in Nat
  BY WhereIs
<1>3. /\ AreCodes(literals) /\ AreCodes(distances)
      /\ IsItem(text, literals, distances, item)
      /\ text \in Seq(Bytes)
      /\ ItemText(B, j, i) = TextAfterItem(text, item)
      /\ p \in Nat
      /\ Comes(p, bits)
      /\ ItemAt(B, q, j, i) = p + Len(bits)
  BY <1>1, <1>2, ItemIs
<1>4. bits = ItemBits(literals, distances, item)
  BY DEF BitsOfItem
<1> HIDE DEF b, literals, distances, item, p, bits, text
<1>5. /\ IsMatchSize(literals, item[1]) /\ IsMatchDistance(distances, item[2])
      /\ first \in Seq(Bits) /\ second \in Seq(Bits)
      /\ bits = first \o second
  BY <1>1, <1>3, <1>4, ItemBitsAre, ZenonT(60)
<1>6. /\ item[1] \in Nat /\ item[2] \in Nat \ {0} /\ item[2] <= Len(text)
      /\ TextAfterItem(text, item) = text \o Copied(text, item[1], item[2])
      /\ Len(TextAfterItem(text, item)) = Len(text) + item[1]
  <2>1. /\ text \in Seq(Bytes) /\ Len(item) # 1
        /\ IsItem(text, literals, distances, item)
    BY <1>1, <1>3
  <2> HIDE DEF first, second
  <2> QED
    BY <2>1, TextAfterItemIs, ZenonT(60)
<1> HIDE DEF first, second
<1>7. Comes(p + Len(first), second)
  <2>1. Comes(p, first \o second)
    BY <1>3, <1>5
  <2> QED
    BY <1>2, <1>3, <1>5, <2>1, PartsCome
<1>8. Position(Stream) = p + Len(first)
      /\ ItemAt(B, q, j, i) = Position(Stream) + Len(second)
  <2>1. Len(bits) = Len(first) + Len(second) /\ Len(first) \in Nat /\ Len(second) \in Nat
    <3>1. first \in Seq(Bits) /\ second \in Seq(Bits)
      BY <1>5
    <3>2. Len(first \o second) = Len(first) + Len(second)
      BY <3>1, ConcatenationOf, Zenon
    <3>3. Len(first) \in Nat /\ Len(second) \in Nat
      BY <3>1
    <3> QED
      BY <1>5, <3>2, <3>3, Zenon
  <2> QED
    BY <1>1, <1>2, <1>3, <2>1
<1>9. /\ \A m \in Distances :
           /\ m.distance = item[2]
           /\ IsStream(m.stream)
           /\ Position(m.stream) =
                Position(Stream) + Len(BitsOfDistance(distances, item[2]))
      /\ input.damage = "none" => Distances # {}
  <2>1. Comes(Position(Stream), BitsOfDistance(distances, item[2]))
    BY <1>7, <1>8 DEF second
  <2> QED
    BY <1>1, <1>2, <1>3, <1>5, <2>1, DistanceIsRead, Zenon
<1>10. Copy(item[2]) = Copied(text, item[1], item[2])
  <2>1. Copied(text, item[1], item[2]) =
          [k \in 1..item[1] |->
             text[Len(text) - item[2] + 1 + ((k - 1) % item[2])]]
    BY <1>3, <1>6, CopiedIs
  <2> QED
    BY <1>1, <2>1 DEF Copy, text
<1>11. text \o Copy(item[2]) = ItemText(B, j, i)
  BY <1>3, <1>6, <1>10
<1>12. \A m \in Distances :
          /\ m.distance <= Len(text)
          /\ IsStream(m.stream)
          /\ Position(m.stream) = ItemAt(B, q, j, i)
          /\ text \o Copy(m.distance) = ItemText(B, j, i)
  <2>1. ItemAt(B, q, j, i) = Position(Stream) + Len(BitsOfDistance(distances, item[2]))
    BY <1>8 DEF second
  <2> QED
    BY <1>6, <1>9, <1>11, <2>1, Zenon
<1> QED
  BY <1>1, <1>3, <1>6, <1>9, <1>12 DEF text

LEMMA DistanceIsAtItem ==
  ASSUME NEW B, NEW q, Progress(B, q), at = "distance"
  PROVE  \E j \in 1..Len(B) : \E i \in 1..Len(B[j].items) : AtDistance(B, q, j, i)
BY DEF Progress

(* A match is copied. *)
LEMMA CopyMatchProgress ==
  ASSUME InflaterInv, NEW B, NEW q, Inflates(B, q), Progress(B, q), CopyMatch
  PROVE  Progress(B, q)'
<1>0. at = "distance"
  BY DEF CopyMatch
<1>1. PICK j \in 1..Len(B) : \E i \in 1..Len(B[j].items) : AtDistance(B, q, j, i)
  BY <1>0, DistanceIsAtItem
<1>2. PICK i \in 1..Len(B[j].items) : AtDistance(B, q, j, i)
  BY <1>1
<1>3. PICK m \in Distances :
        /\ uncompressed_data' = uncompressed_data \o Copy(m.distance)
        /\ MoveTo(m.stream)
  BY DEF CopyMatch
<1>4. /\ uncompressed_data' = ItemText(B, j, i)
      /\ Where' = ItemAt(B, q, j, i)
  BY <1>2, <1>3, MatchIsCopied, WhereMoved
<1>5. /\ last_block_flag' = last_block_flag /\ at' = "symbol"
      /\ literals_tree' = literals_tree /\ distances_tree' = distances_tree
  BY DEF CopyMatch, trees
<1>6. InItems(B, j)
  BY <1>2 DEF AtDistance
<1>7. InItems(B, j)'
  BY <1>5, <1>6 DEF InItems, InBlock
<1>8. i \in 0..Len(B[j].items)
  OBVIOUS
<1>9. AtItem(B, q, j, i)'
  BY <1>4, <1>7, <1>8 DEF AtItem
<1> QED
  BY <1>5, <1>8, <1>9 DEF Progress

(* A match of whole data is refused when there is no room for it. *)
LEMMA CannotCopyMatchProgress ==
  ASSUME InflaterInv, NEW B, NEW q, Inflates(B, q), Progress(B, q), CannotCopyMatch,
         input.damage = "none"
  PROVE  Len(Text(B)) > input.size
<1>0. at = "distance"
  BY DEF CannotCopyMatch
<1>1. PICK j \in 1..Len(B) : \E i \in 1..Len(B[j].items) : AtDistance(B, q, j, i)
  BY <1>0, DistanceIsAtItem
<1>2. PICK i \in 1..Len(B[j].items) : AtDistance(B, q, j, i)
  BY <1>1
<1>3. PICK m \in Distances : m.distance <= Len(uncompressed_data)
  BY <1>2, MatchIsCopied
<1>4. ~MatchFits(m)
  BY DEF CannotCopyMatch
<1>5. ~(Len(uncompressed_data) + compression_size <= input.size)
  BY <1>3, <1>4 DEF MatchFits
<1>6. Len(ItemText(B, j, i)) = Len(uncompressed_data) + compression_size
  BY <1>2, MatchIsCopied
<1>7. i \in 0..Len(B[j].items) /\ B[j].kind # "stored"
  BY <1>2 DEF AtDistance, InItems
<1>8. /\ Len(ItemText(B, j, i)) <= Len(Text(B))
      /\ Len(ItemText(B, j, i)) \in Nat /\ Len(Text(B)) \in Nat
  BY <1>7, WhereIs, TextOfItemFits
<1>9. input.size \in Nat
  BY DEF InflaterInv, OutputInv
<1> QED
  BY <1>5, <1>6, <1>8, <1>9

-----------------------------------------------------------------------------
(* A step that leaves everything but the checksum. *)
LEMMA ProgressAtEnd ==
  ASSUME NEW B, NEW q, Progress(B, q), at \in {"trailer", "checksum"},
         UNCHANGED <<input, stream, decoding, uncompressed_data>>,
         at' \in {"checksum", "done"}
  PROVE  Progress(B, q)'
<1>1. PICK j \in 1..Len(B) : AtEnd(B, q, j)
  BY DEF Progress
<1>2. /\ last_block_flag' = last_block_flag /\ Where' = Where /\ data' = data
      /\ byte_stream_offset' = byte_stream_offset
      /\ uncompressed_data' = uncompressed_data
  BY DEF decoding, stream, Where, data
<1>3. AtEnd(B, q, j)'
  BY <1>1, <1>2 DEF AtEnd, InBlock
<1> QED
  BY <1>3 DEF Progress

LEMMA TrailerProgress ==
  ASSUME NEW B, NEW q, Progress(B, q),
         \/ SkipTrailer \/ ReadTrailer \/ AddByte \/ Reduce \/ ChecksumMatches
  PROVE  Progress(B, q)'
<1>1. /\ at \in {"trailer", "checksum"} /\ at' \in {"checksum", "done"}
      /\ UNCHANGED <<input, stream, decoding, uncompressed_data>>
  BY DEF SkipTrailer, ReadTrailer, AddByte, Reduce, ChecksumMatches
<1> QED
  BY <1>1, ProgressAtEnd

(* The data is accepted. *)
LEMMA DecompressProgress ==
  ASSUME InflaterInv, NEW B, NEW q, Inflates(B, q), Progress(B, q), Decompress,
         q = 8 * DataHeaderSize(input)
  PROVE  Progress(B, q)'
<1>1. /\ at = "call" /\ at' = "header"
      /\ byte_stream_offset' = DataHeaderSize(input)
      /\ bit_buffer' = bit_buffer /\ uncompressed_data' = uncompressed_data
  BY DEF Decompress, decoding
<1>2. bit_buffer = <<>> /\ uncompressed_data = <<>>
  BY <1>1 DEF InflaterInv, StreamInv, Progress
<1>3. q \in Nat /\ IsMessage(B)
  BY DEF Inflates
<1>4. Len(B) \in Nat \ {0} /\ BitsUpTo(B)[0] = <<>>
  BY <1>3, MessageIsJoined DEF IsJoined
<1>5. 1 \in 1..Len(B)
  BY <1>4
<1>6. TextAt(B, 0) = <<>>
  BY <1>3, <1>5, TextsOfBlocks
<1>7. Where' = q + 0
  <2>1. Where' = (8 * byte_stream_offset') - Len(bit_buffer')
    BY DEF Where
  <2>2. Len(<<>>) = 0
    OBVIOUS
  <2> QED
    BY <1>1, <1>2, <1>3, <2>1, <2>2
<1>8. BlockAt(B, q, 0) = q + 0
  BY <1>4 DEF BlockAt
<1>9. AtBlockHeader(B, q, 1)'
  BY <1>1, <1>2, <1>5, <1>6, <1>7, <1>8 DEF AtBlockHeader
<1> QED
  BY <1>1, <1>5, <1>9 DEF Progress

-----------------------------------------------------------------------------
(* Data that was written.                                                  *)

(* The encoding of a message is bytes, at least one. *)
LEMMA EncodingIs ==
  ASSUME NEW B, IsMessage(B)
  PROVE  /\ MessageBits(B) \in Seq(Bits) /\ Encoding(B) \in Seq(Bytes)
         /\ Len(MessageBits(B)) \in Nat /\ Len(Encoding(B)) \in Nat
         /\ Len(Encoding(B)) >= 1
         /\ Len(MessageBits(B)) <= 8 * Len(Encoding(B))
         /\ 8 * Len(Encoding(B)) < Len(MessageBits(B)) + 8
         /\ \A p \in 1..Len(MessageBits(B)) :
              BitsOfBytes(Encoding(B))[p] = MessageBits(B)[p]
<1> DEFINE f == BitsUpTo(B)
           g == BitsOfBlocks(B)
           n == Len(B)
<1>1. n \in Nat \ {0} /\ IsJoined(f, g, n, Bits)
  BY MessageIsJoined
<1>2. MessageBits(B) = f[n]
  BY DEF MessageBits
<1>3. Len(f[n]) >= 1
  <2>1. f[n - 1] \in Seq(Bits) /\ g[n] \in Seq(Bits) /\ f[n] = f[n - 1] \o g[n]
    <3>1. n \in 1..n /\ n - 1 \in 0..n
      BY <1>1
    <3> QED
      BY <1>1, <3>1 DEF IsJoined
  <2>2. Len(g[n]) >= 8
    <3>1. n \in 1..n
      BY <1>1
    <3>2. /\ TextAt(B, n - 1) \in Seq(Bytes) /\ IsBlock(TextAt(B, n - 1), B[n])
      BY <3>1, TextsOfBlocks
    <3>3. Len(f[n - 1]) \in Nat
      BY <2>1
    <3>4. g[n] = BlockBits(Len(f[n - 1]), B[n], n = Len(B))
      BY <3>1 DEF BitsOfBlocks
    <3> DEFINE last == n = Len(B)
               m == Len(f[n - 1])
    <3>5. last \in BOOLEAN /\ g[n] = BlockBits(m, B[n], last) /\ m \in Nat
      BY <3>3, <3>4
    <3> HIDE DEF f, g, n, last, m
    <3>6. Len(BlockBits(m, B[n], last)) >= 8
      BY <3>2, <3>5, BlockBitsAre
    <3> QED
      BY <3>5, <3>6
  <2>3. Len(f[n]) = Len(f[n - 1]) + Len(g[n]) /\ Len(f[n - 1]) \in Nat
        /\ Len(g[n]) \in Nat
    BY <2>1, ConcatenationOf
  <2> DEFINE a == Len(f[n - 1])
             b == Len(g[n])
             c == Len(f[n])
  <2>4. c = a + b /\ a \in Nat /\ b \in Nat /\ b >= 8
    BY <2>2, <2>3
  <2> HIDE DEF a, b, c
  <2>5. c >= 1
    BY <2>4
  <2> QED
    BY <2>5 DEF c
<1>4. f[n] \in Seq(Bits)
  <2>1. n \in 0..n
    BY <1>1
  <2> QED
    BY <1>1, <2>1 DEF IsJoined
<1> DEFINE x == MessageBits(B)
           y == Encoding(B)
<1>5. y = BytesOf(x)
  BY DEF Encoding
<1>6. x \in Seq(Bits) /\ Len(x) >= 1
  BY <1>2, <1>3, <1>4
<1> HIDE DEF x, y
<1>7. /\ y \in Seq(Bytes)
      /\ Len(x) <= 8 * Len(y) /\ 8 * Len(y) < Len(x) + 8
      /\ \A p \in 1..Len(x) : BitsOfBytes(y)[p] = x[p]
  BY <1>5, <1>6, BitsOfBytesOf
<1>8. Len(x) \in Nat /\ Len(y) \in Nat /\ Len(y) >= 1
  BY <1>6, <1>7
<1> QED
  BY <1>6, <1>7, <1>8 DEF x, y

(* How long the header of what was written is, and the checksum. *)
HeaderLength(call, header) == IF call.zlib THEN Len(header) ELSE 0
ChecksumLength(call) == IF call.zlib THEN 4 ELSE 0
WholeLength(call, header, B) ==
  HeaderLength(call, header) + Len(Encoding(B)) + ChecksumLength(call)
Whole(call, header, B) ==
  IF call.zlib THEN ZlibEncoding(header, B) ELSE Encoding(B)

LEMMA ChecksumBytesAre ==
  ASSUME NEW text
  PROVE  \E S : ChecksumBytes(text) \in Seq(S) /\ Len(ChecksumBytes(text)) = 4
<1> DEFINE sum == Checksum(text)
           a == sum[2] \div 256
           b == sum[2] % 256
           c == sum[1] \div 256
           d == sum[1] % 256
<1>1. ChecksumBytes(text) = <<a, b, c, d>>
  BY DEF ChecksumBytes
<1> HIDE DEF a, b, c, d
<1>2. <<a, b, c, d>> \in Seq({a, b, c, d}) /\ Len(<<a, b, c, d>>) = 4
  OBVIOUS
<1> QED
  BY <1>1, <1>2

(* What of the data that was written is where. *)
LEMMA PartsOfThree ==
  ASSUME NEW S, NEW x \in Seq(S), NEW y \in Seq(S), NEW z \in Seq(S)
  PROVE  LET w == x \o y \o z
             l == Len(x)
             m == Len(y)
             n == Len(z)
         IN  /\ Len(w) = l + m + n
             /\ \A k \in 1..l : w[k] = x[k]
             /\ \A k \in 1..m : w[l + k] = y[k]
             /\ \A k \in 1..n : w[l + m + k] = z[k]
<1> DEFINE l == Len(x)
           m == Len(y)
           n == Len(z)
           v == x \o y
           w == v \o z
<1>1. /\ v \in Seq(S) /\ Len(v) = l + m
      /\ \A k \in 1..l : v[k] = x[k]
      /\ \A k \in (l + 1)..(l + m) : v[k] = y[k - l]
  BY ConcatenationOf
<1> HIDE DEF v
<1>2. /\ Len(w) = l + m + n
      /\ \A k \in 1..(l + m) : w[k] = v[k]
      /\ \A k \in (l + m + 1)..(l + m + n) : w[k] = z[k - (l + m)]
  <2>1. v \in Seq(S) /\ Len(v) = l + m
    BY <1>1
  <2>2. /\ Len(w) = Len(v) + n
        /\ \A k \in 1..Len(v) : w[k] = v[k]
        /\ \A k \in (Len(v) + 1)..(Len(v) + n) : w[k] = z[k - Len(v)]
    <3>1. v \in Seq(S)
      BY <2>1
    <3> QED
      BY <3>1, ConcatenationOf
  <2> HIDE DEF w, l, m, n
  <2> QED
    BY <2>1, <2>2
<1>3. l \in Nat /\ m \in Nat /\ n \in Nat
  OBVIOUS
<1> HIDE DEF w, l, m, n
<1>4. \A k \in 1..l : w[k] = x[k]
  <2> TAKE k \in 1..l
  <2>1. k \in 1..(l + m)
    BY <1>3
  <2> QED
    BY <1>1, <1>2, <2>1
<1>5. \A k \in 1..m : w[l + k] = y[k]
  <2> TAKE k \in 1..m
  <2>1. l + k \in 1..(l + m) /\ l + k \in (l + 1)..(l + m) /\ (l + k) - l = k
    BY <1>3
  <2> QED
    BY <1>1, <1>2, <2>1
<1>6. \A k \in 1..n : w[l + m + k] = z[k]
  <2> TAKE k \in 1..n
  <2>1. l + m + k \in (l + m + 1)..(l + m + n) /\ (l + m + k) - (l + m) = k
    BY <1>3
  <2> QED
    BY <1>2, <2>1
<1> QED
  BY <1>2, <1>4, <1>5, <1>6 DEF w, v, l, m, n

LEMMA WholeIs ==
  ASSUME NEW call, call.zlib \in BOOLEAN, NEW header, NEW B, IsMessage(B),
         call.zlib => IsZlibHeader(header)
  PROVE  LET h == HeaderLength(call, header)
             e == Len(Encoding(B))
             w == Whole(call, header, B)
         IN  /\ h \in Nat /\ e \in Nat /\ e >= 1
             /\ Len(w) = WholeLength(call, header, B)
             /\ \A k \in 1..e : w[h + k] = Encoding(B)[k]
             /\ call.zlib =>
                  /\ \A k \in 1..h : w[k] = header[k]
                  /\ \A k \in 1..4 : w[h + e + k] = ChecksumBytes(Text(B))[k]
<1> DEFINE h == HeaderLength(call, header)
           x == header
           y == Encoding(B)
           z == ChecksumBytes(Text(B))
           w == Whole(call, header, B)
<1>1. y \in Seq(Bytes) /\ Len(y) \in Nat /\ Len(y) >= 1
  BY EncodingIs
<1>2. CASE call.zlib
  <2>1. PICK S : z \in Seq(S) /\ Len(z) = 4
    BY ChecksumBytesAre
  <2> DEFINE T == S \cup Bytes
  <2>2. x \in Seq(T) /\ y \in Seq(T) /\ z \in Seq(T)
    BY <1>1, <1>2, <2>1 DEF IsZlibHeader, Bytes
  <2>3. w = x \o y \o z /\ h = Len(x)
    BY <1>2 DEF Whole, ZlibEncoding, HeaderLength
  <2> HIDE DEF x, y, z, T, w
  <2>4. /\ Len(w) = Len(x) + Len(y) + Len(z)
        /\ \A k \in 1..Len(x) : w[k] = x[k]
        /\ \A k \in 1..Len(y) : w[Len(x) + k] = y[k]
        /\ \A k \in 1..Len(z) : w[Len(x) + Len(y) + k] = z[k]
    BY <2>2, <2>3, PartsOfThree
  <2>5. Len(x) \in Nat
    BY <2>2
  <2>6. WholeLength(call, header, B) = Len(x) + Len(y) + 4
    BY <1>2, <2>3 DEF WholeLength, ChecksumLength, y
  <2>7. /\ h \in Nat /\ Len(w) = WholeLength(call, header, B)
        /\ \A k \in 1..h : w[k] = x[k]
        /\ \A k \in 1..Len(y) : w[h + k] = y[k]
        /\ \A k \in 1..4 : w[h + Len(y) + k] = z[k]
    BY <2>1, <2>3, <2>4, <2>5, <2>6
  <2> QED
    BY <1>1, <2>7 DEF w, x, y, z
<1>3. CASE ~call.zlib
  <2>1. w = y /\ h = 0 /\ ChecksumLength(call) = 0
    BY <1>3 DEF Whole, HeaderLength, ChecksumLength
  <2>2. WholeLength(call, header, B) = Len(y)
    BY <1>1, <2>1 DEF WholeLength
  <2>3. \A k \in 1..Len(y) : w[h + k] = y[k]
    BY <1>1, <2>1
  <2> QED
    BY <1>1, <1>3, <2>1, <2>2, <2>3
<1> QED
  BY <1>2, <1>3

(* What the data that is given has of it, when the header has h bytes. *)
DataHas(call, h, B) ==
  LET e == Len(Encoding(B))
      l == Len(call.data)
  IN  /\ h \in Nat /\ e \in Nat /\ e >= 1 /\ l \in Nat
      /\ \A k \in 1..e : h + k <= l => call.data[h + k] = Encoding(B)[k]
      /\ call.damage = "none" =>
           /\ l >= h + e + ChecksumLength(call)
           /\ call.zlib =>
                \A k \in 1..4 : call.data[h + e + k] = ChecksumBytes(Text(B))[k]
      /\ call.damage = "cut" => l < h + e + ChecksumLength(call)

LEMMA WrittenIs ==
  ASSUME NEW call \in Inputs, NEW header, NEW B, IsWritten(call, header, B),
         call.damage # "altered"
  PROVE  LET h == HeaderLength(call, header)
         IN  /\ DataHas(call, h, B)
             /\ call.zlib =>
                  \A k \in 1..h : k <= Len(call.data) => call.data[k] = header[k]
<1> DEFINE h == HeaderLength(call, header)
           e == Len(Encoding(B))
           l == Len(call.data)
           d == call.data
           w == Whole(call, header, B)
           c == ChecksumLength(call)
<1>1. /\ call.zlib \in BOOLEAN /\ call.damage \in {"none", "cut"} /\ l \in Nat
  BY DEF Inputs
<1>2. /\ IsMessage(B)
      /\ call.zlib => IsZlibHeader(header)
      /\ call.damage = "none" => Begins(w, d)
      /\ call.damage = "cut" => Begins(d, w) /\ l < Len(w)
  BY DEF IsWritten, Whole
<1>3. /\ h \in Nat /\ e \in Nat /\ e >= 1
      /\ Len(w) = h + e + c
      /\ \A k \in 1..e : w[h + k] = Encoding(B)[k]
      /\ call.zlib =>
           /\ \A k \in 1..h : w[k] = header[k]
           /\ \A k \in 1..4 : w[h + e + k] = ChecksumBytes(Text(B))[k]
  BY <1>1, <1>2, WholeIs DEF WholeLength
<1>4. c \in Nat /\ (call.zlib => c = 4)
  BY DEF ChecksumLength
<1>5. \A k \in 1..Len(w) : k <= l => d[k] = w[k]
  <2>1. CASE call.damage = "none"
    BY <1>2, <2>1 DEF Begins
  <2>2. CASE call.damage = "cut"
    <3> TAKE k \in 1..Len(w)
    <3> HAVE k <= l
    <3>1. k \in 1..l
      BY <1>1
    <3> QED
      BY <1>2, <2>2, <3>1 DEF Begins
  <2> QED
    BY <1>1, <2>1, <2>2
<1>6. call.damage = "none" => Len(w) <= l
  BY <1>2 DEF Begins
<1> HIDE DEF h, e, l, d, w, c
<1>7. \A k \in 1..e : h + k <= l => d[h + k] = Encoding(B)[k]
  <2> TAKE k \in 1..e
  <2>1. h + k \in 1..Len(w)
    BY <1>3, <1>4
  <2> QED
    BY <1>3, <1>5, <2>1
<1>8. call.zlib => \A k \in 1..h : k <= l => d[k] = header[k]
  <2> HAVE call.zlib
  <2> TAKE k \in 1..h
  <2>1. k \in 1..Len(w)
    BY <1>3, <1>4
  <2> QED
    BY <1>3, <1>5, <2>1
<1>9. ASSUME call.damage = "none", call.zlib, NEW k \in 1..4
      PROVE  d[h + e + k] = ChecksumBytes(Text(B))[k]
  <2>1. h + e + k \in 1..Len(w) /\ h + e + k <= l
    BY <1>1, <1>3, <1>4, <1>6, <1>9
  <2> QED
    BY <1>3, <1>5, <1>9, <2>1
<1>10. /\ call.damage = "none" => l >= h + e + c
       /\ call.damage = "cut" => l < h + e + c
  BY <1>2, <1>3, <1>6 DEF l
<1> QED
  BY <1>1, <1>3, <1>7, <1>8, <1>9, <1>10 DEF h, e, l, d, c, DataHas

(* The header of what was written is known by its first bytes. *)
WindowFits(n) == 2 ^ (n + 8) <= 32768

LEMMA SmallWindowFits ==
  ASSUME NEW n, n \in 0..7
  PROVE  WindowFits(n)
<1>2. /\ 2 ^ 8 = 256 /\ 2 ^ 9 = 512 /\ 2 ^ 10 = 1024 /\ 2 ^ 11 = 2048
      /\ 2 ^ 12 = 4096 /\ 2 ^ 13 = 8192 /\ 2 ^ 14 = 16384 /\ 2 ^ 15 = 32768
  OBVIOUS
<1>3. \/ n = 0 \/ n = 1 \/ n = 2 \/ n = 3 \/ n = 4 \/ n = 5 \/ n = 6 \/ n = 7
  OBVIOUS
<1>4. CASE n = 0
  BY <1>2, <1>4 DEF WindowFits
<1>5. CASE n = 1
  BY <1>2, <1>5 DEF WindowFits
<1>6. CASE n = 2
  BY <1>2, <1>6 DEF WindowFits
<1>7. CASE n = 3
  BY <1>2, <1>7 DEF WindowFits
<1>8. CASE n = 4
  BY <1>2, <1>8 DEF WindowFits
<1>9. CASE n = 5
  BY <1>2, <1>9 DEF WindowFits
<1>10. CASE n = 6
  BY <1>2, <1>10 DEF WindowFits
<1>11. CASE n = 7
  BY <1>2, <1>11 DEF WindowFits
<1> QED
  BY <1>3, <1>4, <1>5, <1>6, <1>7, <1>8, <1>9, <1>10, <1>11

LEMMA HeaderOfWritten ==
  ASSUME NEW call \in Inputs, NEW header, NEW B, IsWritten(call, header, B),
         call.damage # "altered", Accepted(call)
  PROVE  DataHeaderSize(call) = HeaderLength(call, header)
<1> DEFINE h == HeaderLength(call, header)
           l == Len(call.data)
<1>1. CASE call.zlib
  <2>1. h \in Nat /\ l \in Nat /\ \A k \in 1..h : k <= l => call.data[k] = header[k]
    BY <1>1, WrittenIs DEF DataHas
  <2>2. l >= 2
    BY <1>1 DEF Accepted, IsDataHeader
  <2>3. h = Len(header) /\ IsZlibHeader(header)
    BY <1>1 DEF HeaderLength, IsWritten
  <2>4. h >= 2
    BY <2>3 DEF IsZlibHeader
  <2>5. call.data[2] = header[2]
    <3>1. 2 \in 1..h
      BY <2>1, <2>4
    <3> QED
      BY <2>1, <2>2, <3>1
  <2> QED
    BY <1>1, <2>3, <2>5 DEF IsZlibHeader, DataHeaderSize
<1>2. CASE ~call.zlib
  BY <1>2 DEF DataHeaderSize, HeaderLength
<1> QED
  BY <1>1, <1>2

LEMMA WrittenIsAccepted ==
  ASSUME NEW call \in Inputs, NEW header, NEW B, IsWritten(call, header, B),
         call.damage = "none"
  PROVE  Accepted(call)
<1> DEFINE h == HeaderLength(call, header)
           e == Len(Encoding(B))
           l == Len(call.data)
           c == ChecksumLength(call)
<1>1. /\ h \in Nat /\ e \in Nat /\ e >= 1 /\ l \in Nat
      /\ l >= h + e + c
      /\ call.zlib => \A k \in 1..h : k <= l => call.data[k] = header[k]
  BY WrittenIs DEF DataHas
<1>2. CASE call.zlib
  <2>1. c = 4 /\ h = Len(header) /\ IsZlibHeader(header)
    BY <1>2 DEF ChecksumLength, HeaderLength, IsWritten
  <2>2. h \in {2, 6} /\ (h = 6 <=> (header[2] \div 32) % 2 = 1)
        /\ header[1] % 16 = 8 /\ header[1] \div 16 <= 7 /\ header \in Seq(Bytes)
    <3>1. /\ header \in Seq(Bytes)
          /\ h = IF (header[2] \div 32) % 2 = 1 THEN 6 ELSE 2
          /\ header[1] % 16 = 8 /\ header[1] \div 16 <= 7
      BY <2>1 DEF IsZlibHeader, Bytes
    <3> HIDE DEF h
    <3> QED
      BY <3>1
  <2> HIDE DEF h, e, l, c
  <2>3. 1 \in 1..h /\ 2 \in 1..h /\ 1 <= l /\ 2 <= l /\ h < l
        /\ (h = 6 => l >= 8)
    <3>1. h = 2 \/ h = 6
      BY <2>2
    <3>2. e \in Nat /\ e >= 1 /\ l \in Nat /\ l >= h + e + 4
      BY <1>1, <2>1
    <3> QED
      BY <3>1, <3>2
  <2>4. call.data[1] = header[1] /\ call.data[2] = header[2]
    BY <1>1, <1>2, <2>3
  <2>5. 2 ^ ((header[1] \div 16) + 8) <= 32768
    <3> DEFINE first == header[1]
               window == first \div 16
    <3>1. first \in Nat
      <4>1. header \in Seq(Bytes) /\ 1 \in 1..Len(header)
        BY <2>1, <2>2, <2>3
      <4>2. header[1] \in Bytes
        BY <4>1
      <4> QED
        BY <4>2 DEF Bytes
    <3>2. window \in Nat
      <4> HIDE DEF first
      <4> QED
        BY <3>1
    <3>3. window \in 0..7
      <4>1. window <= 7
        BY <2>2
      <4> HIDE DEF window
      <4> QED
        BY <3>2, <4>1
    <3> HIDE DEF window
    <3>4. WindowFits(window)
      BY <3>3, SmallWindowFits
    <3> QED
      BY <3>4 DEF window, WindowFits
  <2>6. DataHeaderSize(call) = h
    BY <1>2, <2>2, <2>4 DEF DataHeaderSize
  <2> QED
    BY <1>2, <2>2, <2>3, <2>4, <2>5, <2>6 DEF Accepted, IsDataHeader, l
<1>3. CASE ~call.zlib
  <2>1. c = 0 /\ h = 0
    BY <1>3 DEF ChecksumLength, HeaderLength
  <2> HIDE DEF h, e, l, c
  <2>2. 0 < l
    BY <1>1, <2>1
  <2> QED
    BY <1>3, <2>2 DEF Accepted, IsDataHeader, DataHeaderSize, l
<1> QED
  BY <1>2, <1>3

(* The bits of the message come after the header. *)
LEMMA WrittenInflates ==
  ASSUME InflaterInv, input \in Inputs, NEW header, NEW B,
         IsWritten(input, header, B), input.damage # "altered", Accepted(input)
  PROVE  /\ Inflates(B, 8 * DataHeaderSize(input))
         /\ DataHeaderSize(input) = HeaderLength(input, header)
<1> DEFINE h == HeaderLength(input, header)
           x == MessageBits(B)
           y == Encoding(B)
           e == Len(y)
           l == Len(data)
           c == ChecksumLength(input)
           D == DataBits
<1>1. input \in Inputs /\ data \in Seq(Bytes)
  BY DEF InflaterInv, StreamInv
<1>2. DataHeaderSize(input) = h
  BY <1>1, HeaderOfWritten
<1>3. /\ h \in Nat /\ e \in Nat /\ l \in Nat
      /\ \A k \in 1..e : h + k <= l => data[h + k] = y[k]
      /\ input.damage = "none" => l >= h + e + c
  BY <1>1, WrittenIs DEF data, DataHas
<1>4. IsMessage(B)
  BY DEF IsWritten
<1>5. /\ x \in Seq(Bits) /\ y \in Seq(Bytes) /\ Len(x) \in Nat
      /\ Len(x) <= 8 * e /\ 8 * e < Len(x) + 8
      /\ \A p \in 1..Len(x) : BitsOfBytes(y)[p] = x[p]
  BY <1>4, EncodingIs
<1>6. c \in Nat
  BY DEF ChecksumLength
<1>7. input.damage = "none" => (8 * h) + Len(x) <= 8 * l
  <2> HIDE DEF h, x, y, e, l, c
  <2> QED
    BY <1>3, <1>5, <1>6
<1>8. ASSUME NEW p \in 1..Len(x), (8 * h) + p <= 8 * l
      PROVE  D[(8 * h) + p] = x[p]
  <2> DEFINE m == ((p - 1) \div 8) + 1
             k == ((p - 1) % 8) + 1
  <2>1. p \in Nat \ {0}
    BY <1>5
  <2>2. m \in Nat \ {0} /\ k \in 1..8 /\ p = (8 * (m - 1)) + k
    <3>1. p - 1 \in Nat
      BY <2>1
    <3> DEFINE n == p - 1
               a == n \div 8
               b == n % 8
    <3>2. a \in Nat /\ b \in 0..7 /\ n = (8 * a) + b
      <4> HIDE DEF n
      <4> QED
        BY <3>1 DEF n
    <3> HIDE DEF a, b
    <3>3. m = a + 1 /\ k = b + 1 /\ p = n + 1
      BY <2>1 DEF a, b
    <3> HIDE DEF n, m, k
    <3> QED
      BY <3>1, <3>2, <3>3
  <2> HIDE DEF m, k
  <2> HIDE DEF h, x, y, e, l, c, D
  <2>3. m \in 1..e /\ h + m <= l /\ h + m \in 1..l
    <3>1. p <= Len(x)
      BY <1>5
    <3>2. (8 * (m - 1)) + k <= 8 * e
      BY <1>3, <1>5, <2>1, <2>2, <3>1
    <3>3. (8 * h) + (8 * (m - 1)) + k <= 8 * l
      BY <1>3, <1>8, <2>2
    <3> QED
      BY <1>3, <2>2, <3>2, <3>3
  <2>4. data[h + m] = y[m]
    BY <1>3, <2>3
  <2>5. D[(8 * ((h + m) - 1)) + k] = BitOf(data[h + m], k)
    BY <1>1, <2>2, <2>3, BitInByte DEF l, D, DataBits
  <2>6. BitsOfBytes(y)[(8 * (m - 1)) + k] = BitOf(y[m], k)
    BY <1>5, <2>2, <2>3, BitInByte DEF e
  <2>7. (8 * ((h + m) - 1)) + k = (8 * h) + p
    BY <1>3, <2>2
  <2> QED
    BY <1>5, <2>2, <2>4, <2>5, <2>6, <2>7
<1>9. Comes(8 * h, x)
  BY <1>7, <1>8 DEF Comes
<1> QED
  <2>1. 8 * h \in Nat
    BY <1>3
  <2> QED
    BY <1>2, <1>3, <1>4, <1>9, <2>1 DEF Inflates

-----------------------------------------------------------------------------
(* The message is followed through the whole call.                         *)

(* The inflater does not change what it was called with. *)
LEMMA InflaterKeepsInput ==
  ASSUME InflaterNext
  PROVE  input' = input
BY DEF InflaterNext, Blocks, HuffmanTrees, DecodeHuffman, Trailer, Fail,
       Decompress, CannotDecompress, ReadBlockHeader, CannotReadBlockHeader,
       ReadStored, CannotReadStored, UseFixedTrees, ReadCodesTree,
       CannotReadCodesTree, ReadCodeSizes, CannotReadCodeSizes,
       BuildDynamicTrees, CannotBuildDynamicTrees, DecodeLiteral,
       DecodeMatchSize, EndBlock, CannotDecodeSymbol, CopyMatch,
       CannotCopyMatch, AddByte, Reduce, SkipTrailer, ReadTrailer,
       ChecksumMatches, ChecksumFails

InMessage == at \notin {"call", "error"}

(* What is written so far is the beginning of the text. *)
LEMMA ProgressIsText ==
  ASSUME NEW B, NEW q
  PROVE  InflaterInv /\ Inflates(B, q) /\ Progress(B, q) /\ InMessage
           => Begins(uncompressed_data, Text(B))
<1> SUFFICES ASSUME InflaterInv, Inflates(B, q), Progress(B, q), InMessage
             PROVE  Begins(uncompressed_data, Text(B))
  OBVIOUS
<1>1. data \in Seq(Bytes)
  BY WhereIs
<1>2. IsMessage(B)
  BY DEF Inflates
<1>3. ASSUME NEW j \in 1..Len(B), uncompressed_data = TextAt(B, j - 1)
      PROVE  Begins(uncompressed_data, Text(B))
  <2>1. j - 1 \in 0..Len(B)
    BY <1>2, TextsOfBlocks
  <2> QED
    BY <1>2, <1>3, <2>1, TextsOfMessage
<1>4. CASE at = "header"
  BY <1>3, <1>4 DEF Progress, AtBlockHeader
<1>5. CASE at \in {"stored", "fixed", "dynamic"}
  BY <1>3, <1>5 DEF Progress, AtBlockBody
<1>6. CASE at \in {"code_sizes", "build"}
  BY <1>3, <1>6 DEF Progress, AtSizes
<1>7. CASE at = "symbol"
  <2>1. PICK j \in 1..Len(B) : \E i \in 0..Len(B[j].items) : AtItem(B, q, j, i)
    BY <1>7 DEF Progress
  <2>2. PICK i \in 0..Len(B[j].items) : AtItem(B, q, j, i)
    BY <2>1
  <2>3. B[j].kind # "stored" /\ uncompressed_data = ItemText(B, j, i)
    BY <2>2 DEF AtItem, InItems
  <2> QED
    BY <1>1, <2>3, TextOfItemFits
<1>8. CASE at = "distance"
  <2>1. PICK j \in 1..Len(B) : \E i \in 1..Len(B[j].items) : AtDistance(B, q, j, i)
    BY <1>8 DEF Progress
  <2>2. PICK i \in 1..Len(B[j].items) : AtDistance(B, q, j, i)
    BY <2>1
  <2>3. B[j].kind # "stored" /\ uncompressed_data = ItemText(B, j, i - 1)
    BY <2>2 DEF AtDistance, InItems
  <2>4. i - 1 \in 0..Len(B[j].items)
    OBVIOUS
  <2> QED
    BY <1>1, <2>3, <2>4, TextOfItemFits
<1>9. CASE at \in {"trailer", "checksum", "done"}
  <2>1. PICK j \in 1..Len(B) : AtEnd(B, q, j)
    BY <1>9 DEF Progress
  <2>2. uncompressed_data = TextAt(B, j) /\ j \in 0..Len(B)
    BY <1>2, <2>1, TextsOfBlocks DEF AtEnd
  <2> QED
    BY <1>2, <2>2, TextsOfMessage
<1>10. at \in Places
  BY DEF InflaterInv
<1> QED
  BY <1>4, <1>5, <1>6, <1>7, <1>8, <1>9, <1>10 DEF Places, InMessage

(* The call is of data that was written with message B, and so far it has   *)
(* written what B says.                                                     *)
Follows(header, B, q) ==
  /\ input \in Inputs
  /\ input.damage # "altered"
  /\ IsWritten(input, header, B)
  /\ q = 8 * DataHeaderSize(input)
  /\ at = "call" => uncompressed_data = <<>>
  /\ InMessage => Accepted(input) /\ Progress(B, q)
  /\ Begins(uncompressed_data, Text(B))

(* What is refused was cut, or has no room. *)
RefusedRightly(B) ==
  at = "error" /\ input.damage = "none" => Len(Text(B)) > input.size

LEMMA FollowsInflates ==
  ASSUME InflaterInv, NEW header, NEW B, NEW q, Follows(header, B, q), Accepted(input)
  PROVE  Inflates(B, q)
BY WrittenInflates DEF Follows

(* A step that goes on with the message. *)
LEMMA GoesOn ==
  ASSUME NEW header, NEW B, NEW q, InflaterInv', Follows(header, B, q),
         Accepted(input), input' = input, InMessage', Inflates(B, q), Progress(B, q)'
  PROVE  Follows(header, B, q)' /\ RefusedRightly(B)'
<1>1. /\ input' \in Inputs /\ input'.damage # "altered"
      /\ IsWritten(input', header, B) /\ Accepted(input')
      /\ q = 8 * DataHeaderSize(input')
  BY DEF Follows
<1>3. Inflates(B, q)'
  BY DEF Inflates, Comes, DataBits, data
<1>4. (InflaterInv /\ Inflates(B, q) /\ Progress(B, q) /\ InMessage
         => Begins(uncompressed_data, Text(B)))'
  BY ProgressIsText, PTL
<1>5. Begins(uncompressed_data', Text(B))
  BY <1>3, <1>4
<1> QED
  BY <1>1, <1>5 DEF Follows, RefusedRightly, InMessage

(* The steps that read what was written. *)
Reads ==
  \/ ReadBlockHeader \/ ReadStored \/ UseFixedTrees \/ ReadCodesTree
  \/ ReadCodeSizes \/ BuildDynamicTrees \/ DecodeLiteral \/ DecodeMatchSize
  \/ EndBlock \/ CopyMatch
  \/ SkipTrailer \/ ReadTrailer \/ AddByte \/ Reduce \/ ChecksumMatches

LEMMA ReadsGoOn ==
  ASSUME InflaterInv, Reads
  PROVE  InMessage /\ InMessage'
<1>1. CASE ReadBlockHeader
  <2>1. at = "header" /\ at' \in {"stored", "fixed", "dynamic"}
    BY <1>1, PlacesAfterHeader DEF ReadBlockHeader
  <2> QED
    BY <2>1 DEF InMessage
<1>2. CASE ReadStored
  <2>1. at = "stored" /\ \E b \in BlockSizes : AfterBlock(b.stream.offset + b.size)
    BY <1>2, Zenon DEF ReadStored
  <2>2. at' \in {"trailer", "done", "header"}
    BY <2>1, PlacesAfterBlock
  <2> QED
    BY <2>1, <2>2 DEF InMessage
<1>6. CASE EndBlock
  <2>1. at = "symbol" /\ \E d \in LiteralsOrSizes : AfterBlock(d.stream.offset)
    BY <1>6, Zenon DEF EndBlock
  <2>2. at' \in {"trailer", "done", "header"}
    BY <2>1, PlacesAfterBlock
  <2> QED
    BY <2>1, <2>2 DEF InMessage
<1>3. CASE ReadCodeSizes
  BY <1>3 DEF ReadCodeSizes, InMessage
<1>4. CASE UseFixedTrees \/ ReadCodesTree \/ BuildDynamicTrees \/ DecodeLiteral
           \/ DecodeMatchSize \/ CopyMatch
  BY <1>4 DEF UseFixedTrees, ReadCodesTree, BuildDynamicTrees, DecodeLiteral,
              DecodeMatchSize, CopyMatch, InMessage
<1>5. CASE SkipTrailer \/ ReadTrailer \/ AddByte \/ Reduce \/ ChecksumMatches
  BY <1>5 DEF SkipTrailer, ReadTrailer, AddByte, Reduce, ChecksumMatches, InMessage
<1> QED
  BY <1>1, <1>2, <1>3, <1>4, <1>5, <1>6 DEF Reads

LEMMA ReadsProgress ==
  ASSUME InflaterInv, NEW B, NEW q, Inflates(B, q), Progress(B, q), Reads
  PROVE  Progress(B, q)'
BY ReadBlockHeaderProgress, ReadStoredProgress, UseFixedTreesProgress,
   ReadCodesTreeProgress, ReadCodeSizesProgress, BuildDynamicTreesProgress,
   DecodeLiteralProgress, DecodeMatchSizeProgress, EndBlockProgress,
   CopyMatchProgress, TrailerProgress, Zenon DEF Reads

LEMMA ReadsFollow ==
  ASSUME InflaterInv, InflaterInv', NEW header, NEW B, NEW q, Follows(header, B, q),
         Reads, input' = input
  PROVE  Follows(header, B, q)' /\ RefusedRightly(B)'
<1>1. InMessage /\ InMessage'
  BY ReadsGoOn
<1>2. Accepted(input) /\ Progress(B, q)
  BY <1>1 DEF Follows
<1>3. Inflates(B, q)
  BY <1>2, FollowsInflates
<1>4. Progress(B, q)'
  BY <1>2, <1>3, ReadsProgress
<1> QED
  BY <1>1, <1>2, <1>3, <1>4, GoesOn

LEMMA DecompressFollows ==
  ASSUME InflaterInv, InflaterInv', NEW header, NEW B, NEW q, Follows(header, B, q),
         Decompress
  PROVE  Follows(header, B, q)' /\ RefusedRightly(B)'
<1>1. at = "call" /\ at' = "header" /\ input' = input /\ Accepted(input)
  BY DEF Decompress
<1>2. Progress(B, q)
  BY <1>1 DEF Follows, Progress
<1>3. Inflates(B, q)
  BY <1>1, FollowsInflates
<1>4. q = 8 * DataHeaderSize(input)
  BY DEF Follows
<1>5. Progress(B, q)'
  BY <1>2, <1>3, <1>4, DecompressProgress
<1>6. InMessage'
  BY <1>1 DEF InMessage
<1> QED
  BY <1>1, <1>3, <1>5, <1>6, GoesOn

(* The steps that refuse it. *)
CannotRead ==
  \/ CannotReadBlockHeader \/ CannotReadStored \/ CannotReadCodesTree
  \/ CannotReadCodeSizes \/ CannotBuildDynamicTrees \/ CannotDecodeSymbol
  \/ CannotCopyMatch

LEMMA CannotReadProgress ==
  ASSUME InflaterInv, NEW B, NEW q, Inflates(B, q), Progress(B, q), CannotRead,
         input.damage = "none"
  PROVE  Len(Text(B)) > input.size
BY CannotReadBlockHeaderProgress, CannotReadStoredProgress,
   CannotReadCodesTreeProgress, CannotReadCodeSizesProgress,
   CannotBuildDynamicTreesProgress, CannotDecodeSymbolProgress,
   CannotCopyMatchProgress, Zenon DEF CannotRead

LEMMA FailFollows ==
  ASSUME NEW header, NEW B, NEW q, Follows(header, B, q), Fail
  PROVE  Follows(header, B, q)'
<1>1. at' = "error" /\ input' = input /\ uncompressed_data' = uncompressed_data
  BY DEF Fail
<1> QED
  BY <1>1 DEF Follows, InMessage

LEMMA CannotReadRightly ==
  ASSUME InflaterInv, NEW header, NEW B, NEW q, Follows(header, B, q), CannotRead
  PROVE  RefusedRightly(B)'
<1>1. InMessage
  BY DEF CannotRead, CannotReadBlockHeader, CannotReadStored, CannotReadCodesTree,
         CannotReadCodeSizes, CannotBuildDynamicTrees, CannotDecodeSymbol,
         CannotCopyMatch, InMessage
<1>2. Accepted(input) /\ Progress(B, q)
  BY <1>1 DEF Follows
<1>3. Inflates(B, q)
  BY <1>2, FollowsInflates
<1>4. input.damage = "none" => Len(Text(B)) > input.size
  BY <1>2, <1>3, CannotReadProgress
<1>5. Fail
  BY CannotFails DEF CannotRead
<1>6. input' = input
  BY <1>5 DEF Fail
<1> QED
  BY <1>4, <1>6 DEF RefusedRightly

LEMMA CannotDecompressRightly ==
  ASSUME NEW header, NEW B, NEW q, Follows(header, B, q), CannotDecompress
  PROVE  RefusedRightly(B)'
<1>1. ~Accepted(input) /\ input' = input
  BY DEF CannotDecompress, Fail
<1>2. input.damage # "none"
  BY <1>1, WrittenIsAccepted DEF Follows
<1> QED
  BY <1>1, <1>2 DEF RefusedRightly

LEMMA ProgressKept ==
  ASSUME NEW B, NEW q, Progress(B, q), input' = input, at' = at,
         uncompressed_data' = uncompressed_data,
         UNCHANGED <<byte_stream_offset, bit_buffer, last_block_flag, literals_tree,
                     distances_tree, codes_tree, code_size_array,
                     number_of_literal_codes, number_of_distance_codes,
                     compression_size>>
  PROVE  Progress(B, q)'
<1>1. Where' = Where /\ data' = data
  BY DEF Where, data
<1>2. ASSUME NEW j
      PROVE  /\ InBlock(B, j)' = InBlock(B, j)
             /\ InItems(B, j)' = InItems(B, j)
             /\ AtBlockHeader(B, q, j)' = AtBlockHeader(B, q, j)
  BY <1>1 DEF InBlock, InItems, AtBlockHeader
<1>3. ASSUME NEW j
      PROVE  /\ AtBlockBody(B, q, j)' = AtBlockBody(B, q, j)
             /\ AtEnd(B, q, j)' = AtEnd(B, q, j)
  <2>1. InBlock(B, j)' = InBlock(B, j)
    BY <1>2
  <2> QED
    BY <1>1, <2>1 DEF AtBlockBody, AtEnd
<1>4. ASSUME NEW j, NEW i
      PROVE  AtItem(B, q, j, i)' = AtItem(B, q, j, i)
  <2>1. InItems(B, j)' = InItems(B, j)
    BY <1>2
  <2> QED
    BY <1>1, <2>1 DEF AtItem
<1>5. ASSUME NEW j, NEW i
      PROVE  AtDistance(B, q, j, i)' = AtDistance(B, q, j, i)
  <2>1. InItems(B, j)' = InItems(B, j)
    BY <1>2
  <2> QED
    BY <1>1, <2>1 DEF AtDistance
<1>6. ASSUME NEW j, NEW i
      PROVE  AtSizes(B, q, j, i)' = AtSizes(B, q, j, i)
  <2>1. InBlock(B, j)' = InBlock(B, j)
    BY <1>2
  <2> QED
    BY <1>1, <2>1 DEF AtSizes
<1> QED
  BY <1>2, <1>3, <1>4, <1>5, <1>6, Zenon DEF Progress

LEMMA UnchangedFollows ==
  ASSUME NEW header, NEW B, NEW q, Follows(header, B, q), RefusedRightly(B),
         UNCHANGED <<input, stream, decoding, uncompressed_data, at>>
  PROVE  Follows(header, B, q)' /\ RefusedRightly(B)'
<1>1. /\ input' = input /\ uncompressed_data' = uncompressed_data /\ at' = at
      /\ UNCHANGED <<byte_stream_offset, bit_buffer, last_block_flag, literals_tree,
                     distances_tree, codes_tree, code_size_array,
                     number_of_literal_codes, number_of_distance_codes,
                     compression_size>>
  BY DEF stream, decoding, trees, sizes
<1>2. RefusedRightly(B)'
  BY <1>1 DEF RefusedRightly
<1>3. InMessage' = InMessage
  BY <1>1 DEF InMessage
<1>4. Progress(B, q) => Progress(B, q)'
  BY <1>1, ProgressKept
<1> QED
  BY <1>1, <1>2, <1>3, <1>4 DEF Follows

-----------------------------------------------------------------------------
(* Where the blocks end.                                                   *)

(* Of data that is whole the last block is read, before no byte is left. *)
LEMMA EndIsLast ==
  ASSUME InflaterInv, NEW B, NEW q, Inflates(B, q), NEW j, AtEnd(B, q, j),
         input.damage = "none"
  PROVE  j = Len(B)
<1>1. /\ j \in 1..Len(B) /\ (last_block_flag = (j = Len(B)))
      /\ Where = BlockAt(B, q, j)
      /\ last_block_flag \/ byte_stream_offset >= Len(data)
  BY DEF AtEnd, InBlock
<1> SUFFICES ASSUME j # Len(B) PROVE FALSE
  OBVIOUS
<1>2. byte_stream_offset >= Len(data)
  BY <1>1, Zenon
<1>3. /\ data \in Seq(Bytes) /\ IsStream(Stream) /\ Position(Stream) = Where
  BY WhereIs
<1> DEFINE b == byte_stream_offset
           m == Len(bit_buffer)
           l == Len(data)
           w == Where
<1>4. /\ b \in Nat /\ m \in 0..7 /\ w = (8 * b) - m /\ l \in Nat
  BY <1>3, PositionIsNat DEF Stream, Position
<1>5. Len(B) \in Nat
  BY <1>1, <1>3, BlockOfMessage
<1> DEFINE k == j + 1
           x == BlockBody(BitsBefore(B, k - 1), B[k])
           n == Len(x)
<1>6. k \in 1..Len(B) /\ k - 1 = j
  BY <1>1, <1>5
<1> HIDE DEF k
<1>7. IsBlockAt(B, q, k)
  BY <1>3, <1>6, BlockOfMessage
<1>8. /\ Comes(BlockAt(B, q, j) + 3, x)
      /\ BlockAt(B, q, k) = BlockAt(B, q, j) + 3 + n
      /\ BlockAt(B, q, k) >= BlockAt(B, q, j) + 8
  BY <1>6, <1>7 DEF IsBlockAt
<1>9. BlockAt(B, q, j) + 3 + n <= 8 * l
  BY <1>8 DEF Comes
<1> DEFINE p == BlockAt(B, q, j)
           r == BlockAt(B, q, k)
<1>12. p = w /\ r = p + 3 + n /\ r >= p + 8 /\ p + 3 + n <= 8 * l
  BY <1>1, <1>8, <1>9
<1> HIDE DEF b, m, l, w, p, r, n
<1>10. w + 8 <= 8 * l
  BY <1>4, <1>12
<1>11. b >= l
  BY <1>2 DEF b, l
<1> QED
  BY <1>4, <1>10, <1>11

(* After the last block the bytes of its encoding have been loaded. *)
LEMMA LastIsWhole ==
  ASSUME InflaterInv, NEW B, NEW q, Inflates(B, q), AtEnd(B, q, Len(B)),
         NEW h \in Nat, q = 8 * h
  PROVE  byte_stream_offset = h + Len(Encoding(B))
<1> DEFINE b == byte_stream_offset
           m == Len(bit_buffer)
           w == Where
           e == Len(Encoding(B))
           n == Len(MessageBits(B))
<1>1. w = q + n
  BY DEF AtEnd, BlockAt, MessageBits
<1>2. /\ data \in Seq(Bytes) /\ IsStream(Stream) /\ Position(Stream) = Where
  BY WhereIs
<1>3. /\ b \in Nat /\ m \in 0..7 /\ w = (8 * b) - m
  BY <1>2, PositionIsNat DEF Stream, Position
<1>4. /\ n \in Nat /\ e \in Nat /\ n <= 8 * e /\ 8 * e < n + 8
  BY EncodingIs DEF Inflates
<1> HIDE DEF b, m, w, e, n
<1>5. b = h + e
  BY <1>1, <1>3, <1>4
<1> QED
  BY <1>5 DEF b, e

(* The parts of what is followed, at the end. *)
LEMMA FollowedToEnd ==
  ASSUME InflaterInv, NEW header, NEW B, NEW q, Follows(header, B, q),
         at \in {"trailer", "checksum", "done"}
  PROVE  LET h == DataHeaderSize(input)
             e == Len(Encoding(B))
             c == ChecksumLength(input)
         IN  /\ h \in Nat /\ e \in Nat /\ c \in {0, 4} /\ (input.zlib <=> c = 4)
             /\ Len(data) \in Nat
             /\ last_block_flag \/ input.damage = "none" =>
                  byte_stream_offset = h + e /\ uncompressed_data = Text(B)
             /\ last_block_flag \/ byte_stream_offset >= Len(data)
             /\ input.damage = "none" =>
                  /\ Len(data) >= h + e + c
                  /\ input.zlib =>
                       \A k \in 1..4 : data[h + e + k] = ChecksumBytes(Text(B))[k]
             /\ input.damage = "cut" => Len(data) < h + e + c
<1> DEFINE h == DataHeaderSize(input)
           e == Len(Encoding(B))
           c == ChecksumLength(input)
           l == Len(data)
<1>1. /\ input \in Inputs /\ input.damage # "altered" /\ IsWritten(input, header, B)
      /\ q = 8 * h /\ Accepted(input) /\ Progress(B, q)
  BY DEF Follows, InMessage
<1>2. Inflates(B, q) /\ h = HeaderLength(input, header)
  BY <1>1, WrittenInflates
<1>3. /\ h \in Nat /\ e \in Nat /\ l \in Nat
      /\ input.damage = "none" =>
           /\ l >= h + e + c
           /\ input.zlib =>
                \A k \in 1..4 : data[h + e + k] = ChecksumBytes(Text(B))[k]
      /\ input.damage = "cut" => l < h + e + c
  <2>1. DataHas(input, h, B)
    BY <1>1, <1>2, WrittenIs
  <2> QED
    BY <2>1 DEF DataHas, data
<1>4. c \in {0, 4} /\ (input.zlib <=> c = 4)
  BY DEF ChecksumLength
<1>5. PICK j \in 1..Len(B) : AtEnd(B, q, j)
  BY <1>1 DEF Progress
<1>6. last_block_flag \/ input.damage = "none" => j = Len(B)
  <2>1. CASE last_block_flag
    BY <1>5, <2>1, Zenon DEF AtEnd, InBlock
  <2>2. CASE input.damage = "none"
    BY <1>2, <1>5, <2>2, EndIsLast
  <2> QED
    BY <2>1, <2>2
<1>7. last_block_flag \/ input.damage = "none" =>
        byte_stream_offset = h + e /\ uncompressed_data = Text(B)
  <2> HAVE last_block_flag \/ input.damage = "none"
  <2>1. AtEnd(B, q, Len(B)) /\ j = Len(B)
    BY <1>5, <1>6
  <2>2. byte_stream_offset = h + e
    BY <1>1, <1>2, <1>3, <2>1, LastIsWhole
  <2>3. IsMessage(B) /\ Len(B) \in 0..Len(B)
    <3>1. IsMessage(B)
      BY <1>2 DEF Inflates
    <3> QED
      BY <1>5, <2>1, <3>1, TextsOfBlocks
  <2>4. TextAt(B, Len(B)) = Text(B)
    BY <2>3, TextsOfMessage
  <2> QED
    BY <2>1, <2>2, <2>4 DEF AtEnd
<1>8. last_block_flag \/ byte_stream_offset >= l
  BY <1>5 DEF AtEnd
<1> QED
  BY <1>3, <1>4, <1>7, <1>8

LEMMA FollowedIsText ==
  ASSUME InflaterInv, NEW header, NEW B, NEW q, Follows(header, B, q)
  PROVE  WritesText
<1>1. input.text = Text(B) /\ IsMessage(B)
  BY DEF Follows, IsWritten
<1>2. uncompressed_data \in Seq(Bytes) /\ input.text \in Seq(Bytes)
  BY DEF InflaterInv, OutputInv, Follows, Inputs
<1>3. Begins(uncompressed_data, input.text)
  BY <1>1 DEF Follows
<1>4. /\ Len(uncompressed_data) <= Len(input.text)
      /\ uncompressed_data = SubSeq(input.text, 1, Len(uncompressed_data))
  BY <1>2, <1>3, BeginningIs
<1>5. at = "done" /\ input.damage = "none" => uncompressed_data = input.text
  BY <1>1, FollowedToEnd
<1> QED
  BY <1>4, <1>5 DEF WritesText

LEMMA FollowedIsNoticed ==
  ASSUME InflaterInv, NEW header, NEW B, NEW q, Follows(header, B, q)
  PROVE  CutIsNoticed
<1> SUFFICES ASSUME at = "done", input.damage = "cut"
             PROVE  /\ byte_stream_offset = Len(data) \/ (input.zlib /\ ~HasChecksum)
                    /\ ~last_block_flag \/ input.zlib
  BY DEF CutIsNoticed
<1> DEFINE h == DataHeaderSize(input)
           e == Len(Encoding(B))
           c == ChecksumLength(input)
           l == Len(data)
           b == byte_stream_offset
<1>1. /\ h \in Nat /\ e \in Nat /\ c \in {0, 4} /\ (input.zlib <=> c = 4)
      /\ l \in Nat /\ l < h + e + c
      /\ last_block_flag => b = h + e
      /\ last_block_flag \/ b >= l
  BY FollowedToEnd
<1>2. b \in Nat /\ b <= l
  <2>1. b \in 0..l
    BY DEF InflaterInv, StreamInv, IsStream, Stream
  <2> QED
    BY <1>1, <2>1
<1>3. HasChecksum <=> l - b >= 4
  BY DEF HasChecksum
<1> HIDE DEF h, e, c, l, b
<1>4. ~last_block_flag => b = l
  BY <1>1, <1>2
<1>5. last_block_flag => c = 4 /\ ~(l - b >= 4)
  BY <1>1, <1>2
<1>6. last_block_flag \in BOOLEAN
  BY DEF InflaterInv
<1> QED
  BY <1>1, <1>3, <1>4, <1>5, <1>6 DEF b, l

-----------------------------------------------------------------------------
(* Sums by rows are sums.                                                   *)

(* A row, one after the other. *)
LEMMA RowByRecursion ==
  ASSUME NEW numbers, NEW start, NEW count \in Nat
  PROVE  /\ RowUpTo(numbers, start, count) =
              [k \in 0..count |-> RowUpTo(numbers, start, count)[k]]
         /\ RowUpTo(numbers, start, count)[0] = 0
         /\ \A k \in 1..count : RowUpTo(numbers, start, count)[k] =
              RowUpTo(numbers, start, count)[k - 1] + numbers[start + k]
<1> DEFINE Next(k, v) == v + numbers[start + k]
           F == RowUpTo(numbers, start, count)
           Is(f, n) == f = [k \in 0..n |-> IF k = 0 THEN 0 ELSE Next(k, f[k - 1])]
           T == {n \in 0..(count) : \E f : Is(f, n)}
<1>1. count \in Int /\ 0 <= count /\ 0 \in Int
  OBVIOUS
<1>2. (\E f : Is(f, count)) => Is(F, count)
  BY Zenon DEF RowUpTo
<1> HIDE DEF Next, F
<1>3. 0 \in T
  <2> DEFINE g == [k \in 0..0 |-> 0]
  <2>1. Is(g, 0)
    OBVIOUS
  <2> HIDE DEF g, Is
  <2> QED
    BY <1>1, <2>1
<1>4. ASSUME NEW n \in 0..(count - 1), n \in T PROVE n + 1 \in T
  <2>1. PICK f : Is(f, n)
    BY <1>4
  <2> DEFINE g == [k \in 0..(n + 1) |-> IF k = n + 1 THEN Next(n + 1, f[n]) ELSE f[k]]
  <2>2. \A k \in 0..n : k # 0 => f[k] = Next(k, f[k - 1])
    BY <2>1
  <2>3. f[0] = 0
    BY <1>1, <2>1
  <2>4. g[n + 1] = Next(n + 1, f[n]) /\ \A k \in 0..n : g[k] = f[k]
    BY <1>1
  <2>5. g[0] = 0
    BY <1>1, <2>3, <2>4
  <2>6. ASSUME NEW k \in 0..(n + 1), k # 0 PROVE g[k] = Next(k, g[k - 1])
    <3>1. k - 1 \in 0..n /\ g[k - 1] = f[k - 1]
      BY <1>1, <2>4, <2>6
    <3>2. CASE k = n + 1
      <4>1. k - 1 = n
        BY <3>2
      <4> QED
        BY <2>4, <3>1, <3>2, <4>1
    <3>3. CASE k # n + 1
      <4>1. k \in 0..n
        BY <2>6, <3>3
      <4> QED
        BY <2>2, <2>4, <2>6, <3>1, <4>1
    <3> QED
      BY <3>2, <3>3
  <2>7. g = [k \in 0..(n + 1) |-> g[k]]
    OBVIOUS
  <2> HIDE DEF g
  <2>8. Is(g, n + 1)
    BY <2>5, <2>6, <2>7
  <2> QED
    BY <1>1, <2>8
<1>5. \A n \in 0..count : n \in T
  <2> HIDE DEF T
  <2> QED
    BY <1>1, <1>3, <1>4, UpTo
<1>6. count \in T
  BY <1>1, <1>5
<1>7. Is(F, count)
  BY <1>2, <1>6
<1>8. F = [k \in 0..count |-> F[k]] /\ F[0] = 0
  BY <1>1, <1>7
<1>9. \A k \in 1..count : F[k] = Next(k, F[k - 1])
  BY <1>1, <1>7
<1> QED
  BY <1>8, <1>9, Zenon DEF F, Next

(* The rows, one after the other. *)
LEMMA RowsByRecursion ==
  ASSUME NEW numbers, NEW count \in Nat
  PROVE  /\ RowsUpTo(numbers, count) = [k \in 0..count |-> RowsUpTo(numbers, count)[k]]
         /\ RowsUpTo(numbers, count)[0] = 0
         /\ \A k \in 1..count : RowsUpTo(numbers, count)[k] =
              RowsUpTo(numbers, count)[k - 1] + Row(numbers, 100 * (k - 1), 100)
<1> DEFINE Next(k, v) == v + Row(numbers, 100 * (k - 1), 100)
           F == RowsUpTo(numbers, count)
           Is(f, n) == f = [k \in 0..n |-> IF k = 0 THEN 0 ELSE Next(k, f[k - 1])]
           T == {n \in 0..(count) : \E f : Is(f, n)}
<1>1. count \in Int /\ 0 <= count /\ 0 \in Int
  OBVIOUS
<1>2. (\E f : Is(f, count)) => Is(F, count)
  BY Zenon DEF RowsUpTo
<1> HIDE DEF Next, F
<1>3. 0 \in T
  <2> DEFINE g == [k \in 0..0 |-> 0]
  <2>1. Is(g, 0)
    OBVIOUS
  <2> HIDE DEF g, Is
  <2> QED
    BY <1>1, <2>1
<1>4. ASSUME NEW n \in 0..(count - 1), n \in T PROVE n + 1 \in T
  <2>1. PICK f : Is(f, n)
    BY <1>4
  <2> DEFINE g == [k \in 0..(n + 1) |-> IF k = n + 1 THEN Next(n + 1, f[n]) ELSE f[k]]
  <2>2. \A k \in 0..n : k # 0 => f[k] = Next(k, f[k - 1])
    BY <2>1
  <2>3. f[0] = 0
    BY <1>1, <2>1
  <2>4. g[n + 1] = Next(n + 1, f[n]) /\ \A k \in 0..n : g[k] = f[k]
    BY <1>1
  <2>5. g[0] = 0
    BY <1>1, <2>3, <2>4
  <2>6. ASSUME NEW k \in 0..(n + 1), k # 0 PROVE g[k] = Next(k, g[k - 1])
    <3>1. k - 1 \in 0..n /\ g[k - 1] = f[k - 1]
      BY <1>1, <2>4, <2>6
    <3>2. CASE k = n + 1
      <4>1. k - 1 = n
        BY <3>2
      <4> QED
        BY <2>4, <3>1, <3>2, <4>1
    <3>3. CASE k # n + 1
      <4>1. k \in 0..n
        BY <2>6, <3>3
      <4> QED
        BY <2>2, <2>4, <2>6, <3>1, <4>1
    <3> QED
      BY <3>2, <3>3
  <2>7. g = [k \in 0..(n + 1) |-> g[k]]
    OBVIOUS
  <2> HIDE DEF g
  <2>8. Is(g, n + 1)
    BY <2>5, <2>6, <2>7
  <2> QED
    BY <1>1, <2>8
<1>5. \A n \in 0..count : n \in T
  <2> HIDE DEF T
  <2> QED
    BY <1>1, <1>3, <1>4, UpTo
<1>6. count \in T
  BY <1>1, <1>5
<1>7. Is(F, count)
  BY <1>2, <1>6
<1>8. F = [k \in 0..count |-> F[k]] /\ F[0] = 0
  BY <1>1, <1>7
<1>9. \A k \in 1..count : F[k] = Next(k, F[k - 1])
  BY <1>1, <1>7
<1> QED
  BY <1>8, <1>9, Zenon DEF F, Next

(* The sums of the numbers up to each of them. *)
SumsOf(numbers, count) == RowUpTo(numbers, 0, count)

AreNumbers(numbers, count) == \A i \in 1..count : numbers[i] \in Nat

LEMMA SumsOfAre ==
  ASSUME NEW count \in Nat, NEW numbers, AreNumbers(numbers, count)
  PROVE  /\ SumsOf(numbers, count)[0] = 0
         /\ \A k \in 0..count : SumsOf(numbers, count)[k] \in Nat
         /\ \A k \in 1..count :
              SumsOf(numbers, count)[k] = SumsOf(numbers, count)[k - 1] + numbers[k]
<1> DEFINE P == SumsOf(numbers, count)
           T == {k \in 0..count : P[k] \in Nat}
<1>1. P[0] = 0 /\ \A k \in 1..count : P[k] = P[k - 1] + numbers[0 + k]
  BY RowByRecursion DEF SumsOf
<1> HIDE DEF P
<1>2. \A k \in 1..count : P[k] = P[k - 1] + numbers[k]
  BY <1>1
<1>3. 0 \in T
  BY <1>1
<1>4. ASSUME NEW k \in 0..(count - 1), k \in T PROVE k + 1 \in T
  <2>1. k + 1 \in 1..count /\ (k + 1) - 1 = k
    BY <1>4
  <2>2. P[k + 1] = P[k] + numbers[k + 1] /\ numbers[k + 1] \in Nat
    BY <1>2, <2>1 DEF AreNumbers
  <2> QED
    BY <1>4, <2>1, <2>2
<1>5. \A k \in 0..count : k \in T
  <2> HIDE DEF T
  <2> QED
    BY <1>3, <1>4, UpTo
<1> QED
  BY <1>1, <1>2, <1>5 DEF P

(* A row is what the sums grow by. *)
LEMMA RowIs ==
  ASSUME NEW n \in Nat, NEW numbers, AreNumbers(numbers, n),
         NEW start \in Nat, NEW count \in Nat, start + count <= n
  PROVE  /\ Row(numbers, start, count)
              = SumsOf(numbers, n)[start + count] - SumsOf(numbers, n)[start]
         /\ start + count \in 0..n /\ start \in 0..n
<1> DEFINE P == SumsOf(numbers, n)
           R == RowUpTo(numbers, start, count)
           T == {k \in 0..count : R[k] = P[start + k] - P[start]}
<1>1. /\ \A k \in 0..n : P[k] \in Nat
      /\ \A k \in 1..n : P[k] = P[k - 1] + numbers[k]
  BY SumsOfAre
<1>2. R[0] = 0 /\ \A k \in 1..count : R[k] = R[k - 1] + numbers[start + k]
  BY RowByRecursion
<1> HIDE DEF P, R
<1>3. 0 \in T
  <2>1. start \in 0..n /\ start + 0 = start
    OBVIOUS
  <2>2. P[start] \in Nat
    BY <1>1, <2>1
  <2> QED
    BY <1>2, <2>1, <2>2
<1>4. ASSUME NEW k \in 0..(count - 1), k \in T PROVE k + 1 \in T
  <2>1. /\ k + 1 \in 1..count /\ (k + 1) - 1 = k /\ start + k + 1 \in 1..n
        /\ (start + k + 1) - 1 = start + k /\ start + k \in 0..n /\ start \in 0..n
        /\ start + (k + 1) = start + k + 1
    BY <1>4
  <2>2. R[k + 1] = R[k] + numbers[start + k + 1]
    BY <1>2, <2>1
  <2>3. P[start + k + 1] = P[start + k] + numbers[start + k + 1]
    BY <1>1, <2>1
  <2>4. P[start] \in Nat /\ P[start + k] \in Nat /\ numbers[start + k + 1] \in Nat
    BY <1>1, <2>1 DEF AreNumbers
  <2>5. R[k] = P[start + k] - P[start]
    BY <1>4
  <2>6. R[k + 1] = P[start + k + 1] - P[start]
    BY <2>2, <2>3, <2>4, <2>5
  <2> QED
    BY <2>1, <2>6
<1>5. \A k \in 0..count : k \in T
  <2> HIDE DEF T
  <2> QED
    BY <1>3, <1>4, UpTo
<1>6. count \in 0..count /\ start + count \in 0..n /\ start \in 0..n
  OBVIOUS
<1>7. R[count] = P[start + count] - P[start]
  BY <1>5, <1>6
<1> QED
  BY <1>6, <1>7 DEF P, R, Row

LEMMA TotalIs ==
  ASSUME NEW n \in Nat, NEW numbers, AreNumbers(numbers, n)
  PROVE  Total(numbers, n) = SumsOf(numbers, n)[n]
<1> DEFINE P == SumsOf(numbers, n)
           d == n \div 100
           r == n % 100
           R == RowsUpTo(numbers, d)
           T == {k \in 0..d : R[k] = P[100 * k]}
<1>1. d \in Nat /\ r \in Nat /\ n = (100 * d) + r
  OBVIOUS
<1>2. P[0] = 0 /\ \A k \in 0..n : P[k] \in Nat
  BY SumsOfAre
<1>3. R[0] = 0 /\ \A k \in 1..d : R[k] = R[k - 1] + Row(numbers, 100 * (k - 1), 100)
  BY <1>1, RowsByRecursion, ZenonT(60)
<1>4. Total(numbers, n) = R[d] + Row(numbers, 100 * d, r)
  BY DEF Total
<1> HIDE DEF P, R, d, r
<1>5. 0 \in T
  <2>1. 100 * 0 = 0 /\ 0 \in 0..d
    BY <1>1
  <2> QED
    BY <1>2, <1>3, <2>1
<1>6. ASSUME NEW k \in 0..(d - 1), k \in T PROVE k + 1 \in T
  <2> DEFINE s == 100 * k
  <2>1. /\ k + 1 \in 1..d /\ (k + 1) - 1 = k /\ s \in Nat /\ s + 100 <= n
        /\ 100 * (k + 1) = s + 100 /\ 100 \in Nat
    BY <1>1, <1>6
  <2>2. R[k + 1] = R[k] + Row(numbers, s, 100)
    BY <1>3, <2>1
  <2> HIDE DEF s
  <2>3. Row(numbers, s, 100) = P[s + 100] - P[s] /\ s + 100 \in 0..n /\ s \in 0..n
    BY <2>1, RowIs DEF P
  <2>4. P[s + 100] \in Nat /\ P[s] \in Nat
    BY <1>2, <2>3
  <2>5. R[k] = P[s]
    BY <1>6 DEF s
  <2>6. R[k + 1] = P[s + 100]
    BY <2>2, <2>3, <2>4, <2>5
  <2>7. k + 1 \in 0..d
    BY <2>1
  <2> QED
    BY <2>1, <2>6, <2>7
<1>7. \A k \in 0..d : k \in T
  <2> HIDE DEF T
  <2> QED
    BY <1>1, <1>5, <1>6, UpTo
<1> DEFINE s == 100 * d
<1>8. R[d] = P[s]
  <2>1. d \in 0..d
    BY <1>1
  <2> QED
    BY <1>7, <2>1
<1>9. s \in Nat /\ s + r <= n /\ s + r = n
  BY <1>1
<1> HIDE DEF s
<1>10. Row(numbers, s, r) = P[s + r] - P[s] /\ s \in 0..n /\ n \in 0..n
  BY <1>1, <1>9, RowIs DEF P
<1>11. P[s] \in Nat /\ P[n] \in Nat
  BY <1>2, <1>10
<1>12. Total(numbers, n) = R[d] + Row(numbers, s, r)
  BY <1>4 DEF s
<1>13. Total(numbers, n) = P[n]
  BY <1>8, <1>9, <1>10, <1>11, <1>12
<1> QED
  BY <1>13 DEF P

-----------------------------------------------------------------------------
(* The checksum that a writer adds is what the inflater adds up.            *)

(* The sums of sums, by the weights: m more bytes follow. *)
LEMMA WeightedStep ==
  ASSUME NEW w \in Int, NEW a \in Int, NEW t \in Int, NEW m \in Int
  PROVE  (w + ((m + 1) * t)) - (m * (a + t)) = (w - ((m + 1) * a)) + (a + t)
<1>1. (m + 1) * t = (m * t) + t /\ (m + 1) * a = (m * a) + a
      /\ m * (a + t) = (m * a) + (m * t)
      /\ m * t \in Int /\ m * a \in Int
  OBVIOUS
<1> QED
  BY <1>1

LEMMA NumbersOfText ==
  ASSUME NEW text \in Seq(Bytes)
  PROVE  /\ Len(text) \in Nat /\ AreNumbers(text, Len(text))
         /\ AreNumbers(Weighted(text), Len(text))
         /\ \A k \in 1..Len(text) :
              /\ text[k] \in Nat
              /\ Weighted(text)[k] = (Len(text) + 1 - k) * text[k]
<1>1. Len(text) \in Nat
  OBVIOUS
<1>2. ASSUME NEW k \in 1..Len(text)
      PROVE  /\ text[k] \in Nat
             /\ Weighted(text)[k] = (Len(text) + 1 - k) * text[k]
             /\ Weighted(text)[k] \in Nat
  <2>1. text[k] \in Bytes
    OBVIOUS
  <2>6. \A byte \in Bytes : byte \in Nat
    BY DEF Bytes
  <2>2. text[k] \in Nat
    BY <2>1, <2>6
  <2>3. Weighted(text)[k] = (Len(text) + 1 - k) * text[k]
    BY DEF Weighted
  <2>4. Len(text) + 1 - k \in Nat
    BY <1>1
  <2>5. \A a \in Nat, b \in Nat : a * b \in Nat
    OBVIOUS
  <2> QED
    BY <2>2, <2>3, <2>4, <2>5
<1> QED
  BY <1>1, <1>2 DEF AreNumbers

Modulo(v) == v % 65521

LEMMA ModuloOfSum ==
  ASSUME NEW a \in Nat, NEW b \in Nat
  PROVE  Modulo(a) \in Nat /\ Modulo(Modulo(a) + b) = Modulo(a + b)
BY RemainderOfSum DEF Modulo

LEMMA SumsAreWeighted ==
  ASSUME NEW text \in Seq(Bytes)
  PROVE  LET n == Len(text)
             A == SumsOf(text, n)
             W == SumsOf(Weighted(text), n)
         IN  \A k \in 0..n :
               /\ W[k] - ((n - k) * A[k]) \in Nat
               /\ Sums(text)[k].lower_word = Modulo(1 + A[k])
               /\ Sums(text)[k].upper_word = Modulo(k + (W[k] - ((n - k) * A[k])))
<1> DEFINE n == Len(text)
           A == SumsOf(text, n)
           W == SumsOf(Weighted(text), n)
           Z == Sums(text)
           B(k) == W[k] - ((n - k) * A[k])
           Is(k) == /\ B(k) \in Nat
                    /\ Z[k].lower_word = Modulo(1 + A[k])
                    /\ Z[k].upper_word = Modulo(k + B(k))
           T == {k \in 0..n : Is(k)}
<1>1. /\ n \in Nat /\ AreNumbers(text, n) /\ AreNumbers(Weighted(text), n)
      /\ \A k \in 1..n :
           text[k] \in Nat /\ Weighted(text)[k] = (n + 1 - k) * text[k]
  BY NumbersOfText
<1>2. /\ A[0] = 0 /\ \A k \in 0..n : A[k] \in Nat
      /\ \A k \in 1..n : A[k] = A[k - 1] + text[k]
  BY <1>1, SumsOfAre
<1>3. /\ W[0] = 0 /\ \A k \in 0..n : W[k] \in Nat
      /\ \A k \in 1..n : W[k] = W[k - 1] + Weighted(text)[k]
  BY <1>1, SumsOfAre
<1>4. /\ \A k \in 0..n : Z[k] \in Words
      /\ Z[0] = FirstWords
      /\ \A k \in 1..n : Z[k] = NextSums(Z[k - 1], text[k])
  BY SumsByRecursion
<1> HIDE DEF n, A, W, Z
<1>8. n \in Nat
  BY <1>1
<1>5. 0 \in T
  <2>1. 0 \in 0..n /\ B(0) = 0
    <3>1. (n - 0) * 0 = 0
      BY <1>1
    <3> QED
      BY <1>1, <1>2, <1>3, <3>1
  <2>2. Z[0].lower_word = 1 /\ Z[0].upper_word = 0
    BY <1>4 DEF FirstWords
  <2>3. Modulo(1) = 1 /\ Modulo(0) = 0
    BY SMT DEF Modulo
  <2>4. 1 + A[0] = 1 /\ 0 + B(0) = 0
    BY <1>2, <2>1
  <2> HIDE DEF B
  <2> QED
    BY <2>1, <2>2, <2>3, <2>4
<1>6. ASSUME NEW k \in 0..(n - 1), k \in T PROVE k + 1 \in T
  <2> DEFINE t == text[k + 1]
             a == A[k]
             b == B(k)
             l == Z[k].lower_word
             u == Z[k].upper_word
             lower == Modulo(l + t)
  <2>1. k + 1 \in 1..n /\ (k + 1) - 1 = k /\ k \in 0..n /\ k + 1 \in 0..n /\ k \in Nat
        /\ n + 1 - (k + 1) = n - k /\ n - k \in Nat /\ n - k = (n - (k + 1)) + 1
    BY <1>8
  <2>2. t \in Nat /\ A[k + 1] = a + t /\ a \in Nat
    BY <1>1, <1>2, <2>1
  <2>3. W[k + 1] = W[k] + ((n - k) * t) /\ W[k] \in Nat
    BY <1>1, <1>3, <2>1
  <2>4. B(k + 1) = b + (a + t)
    <3> DEFINE m == n - (k + 1)
               w == W[k]
    <3>1. m \in Int /\ n - k = m + 1 /\ w \in Int /\ a \in Int /\ t \in Int
      BY <1>1, <2>1, <2>2, <2>3
    <3>2. B(k + 1) = (w + ((m + 1) * t)) - (m * (a + t))
      BY <2>2, <2>3, <3>1
    <3>3. b = w - ((m + 1) * a)
      BY <3>1
    <3> HIDE DEF m, w, a, b, t, B
    <3>4. (w + ((m + 1) * t)) - (m * (a + t)) = (w - ((m + 1) * a)) + (a + t)
      BY <3>1, WeightedStep
    <3> QED
      BY <3>2, <3>3, <3>4
  <2>5. /\ b \in Nat /\ l = Modulo(1 + a) /\ u = Modulo(k + b)
    BY <1>6
  <2>6. /\ Z[k + 1].lower_word = lower
        /\ Z[k + 1].upper_word = Modulo(u + lower)
    <3>1. Z[k + 1] = NextSums(Z[k], t)
      BY <1>4, <2>1
    <3> QED
      BY <3>1 DEF NextSums, Modulo
  <2> DEFINE a2 == A[k + 1]
             b2 == B(k + 1)
             lw == Z[k + 1].lower_word
             uw == Z[k + 1].upper_word
  <2>7. a2 = a + t /\ b2 = b + a2 /\ lw = Modulo(l + t) /\ uw = Modulo(u + lw)
    BY <2>2, <2>4, <2>6
  <2> HIDE DEF B, t, a, b, l, u, lower, a2, b2, lw, uw
  <2>8. a2 \in Nat /\ b2 \in Nat /\ lw = Modulo(1 + a2)
    <3>1. 1 + a \in Nat /\ a2 \in Nat /\ b2 \in Nat /\ (1 + a) + t = 1 + a2
      BY <2>2, <2>5, <2>7
    <3>2. Modulo(Modulo(1 + a) + t) = Modulo((1 + a) + t)
      BY <2>2, <3>1, ModuloOfSum
    <3> QED
      BY <2>5, <2>7, <3>1, <3>2
  <2>9. uw = Modulo((k + 1) + b2)
    <3> DEFINE x == k + b
               y == 1 + a2
    <3>7. k \in Nat /\ b \in Nat /\ a2 \in Nat /\ b2 = b + a2
      BY <2>1, <2>5, <2>7, <2>8, Zenon
    <3>1. x \in Nat /\ y \in Nat /\ x + y = (k + 1) + b2
      BY <3>7
    <3>2. u = Modulo(x) /\ lw = Modulo(y)
      BY <2>5, <2>8
    <3> HIDE DEF x, y
    <3>3. lw \in Nat /\ u \in Nat
      BY <3>1, <3>2, ModuloOfSum
    <3>4. Modulo(u + lw) = Modulo(x + lw)
      BY <3>1, <3>2, <3>3, ModuloOfSum
    <3>5. Modulo(lw + x) = Modulo(y + x)
      BY <3>1, <3>2, ModuloOfSum
    <3>6. x + lw = lw + x /\ y + x = x + y
      BY <3>1, <3>3
    <3> QED
      BY <2>7, <3>1, <3>4, <3>5, <3>6, Zenon
  <2>10. Is(k + 1)
    BY <2>8, <2>9 DEF a2, b2, lw, uw
  <2> HIDE DEF Is
  <2> QED
    BY <2>1, <2>10
<1>7. \A k \in 0..n : k \in T
  <2> HIDE DEF T
  <2> QED
    BY <1>5, <1>6, <1>8, UpTo
<1> QED
  BY <1>7 DEF n, A, W, Z

(* The words of the checksum at the end of a text. *)
LEMMA ChecksumIsOfSums ==
  ASSUME NEW text \in Seq(Bytes)
  PROVE  /\ Checksum(text)[1] = Adler32(text).lower_word
         /\ Checksum(text)[2] = Adler32(text).upper_word
<1> DEFINE n == Len(text)
           A == SumsOf(text, n)
           W == SumsOf(Weighted(text), n)
<1>1. n \in Nat /\ AreNumbers(text, n) /\ AreNumbers(Weighted(text), n)
  BY NumbersOfText
<1>2. Total(text, n) = A[n] /\ Total(Weighted(text), n) = W[n]
  BY <1>1, TotalIs
<1>3. n \in 0..n /\ A[n] \in Nat /\ W[n] \in Nat
  BY <1>1, SumsOfAre
<1>4. /\ Sums(text)[n].lower_word = Modulo(1 + A[n])
      /\ Sums(text)[n].upper_word = Modulo(n + (W[n] - ((n - n) * A[n])))
  BY <1>3, SumsAreWeighted
<1> DEFINE m == n
           a == A[n]
           w == W[n]
           lower == Sums(text)[n].lower_word
           upper == Sums(text)[n].upper_word
<1>5. /\ lower = Modulo(1 + a) /\ upper = Modulo(m + (w - ((m - m) * a)))
      /\ m \in Nat /\ a \in Nat /\ w \in Nat
      /\ Checksum(text) = <<Modulo(1 + a), Modulo(m + w)>>
  BY <1>1, <1>2, <1>3, <1>4 DEF Checksum, Modulo
<1>6. Adler32(text).lower_word = lower /\ Adler32(text).upper_word = upper
  BY DEF Adler32
<1> HIDE DEF a, w, m, lower, upper
<1>7. (m - m) * a = 0
  <2>1. m - m = 0
    BY <1>5
  <2>2. 0 * a = 0
    BY <1>5
  <2> QED
    BY <2>1, <2>2
<1>8. m + (w - ((m - m) * a)) = m + w
  BY <1>5, <1>7
<1> QED
  BY <1>5, <1>6, <1>8

-----------------------------------------------------------------------------
(* The checksum of what was written is the one that is compared.            *)

(* A checksum is looked for when the data has a header only. *)
TrailerInv == at \in {"trailer", "checksum"} => input.zlib

LEMMA TrailerOfNext ==
  ASSUME InflaterInv, TrailerInv, InflaterNext
  PROVE  TrailerInv'
<1>1. input' = input
  BY InflaterKeepsInput
<1> SUFFICES ASSUME at' \in {"trailer", "checksum"} PROVE input.zlib
  BY <1>1 DEF TrailerInv
<1>2. CASE at \in {"trailer", "checksum"}
  BY <1>2 DEF TrailerInv
<1>3. CASE at \notin {"trailer", "checksum"}
  <2>1. ~Fail
    BY DEF Fail
  <2>2. ~ReadBlockHeader
    BY PlacesAfterHeader
  <2>3. ~(\/ Decompress \/ UseFixedTrees \/ ReadCodesTree \/ BuildDynamicTrees
          \/ DecodeMatchSize \/ CopyMatch)
    BY DEF Decompress, UseFixedTrees, ReadCodesTree, BuildDynamicTrees,
           DecodeMatchSize, CopyMatch
  <2>4. ~ReadCodeSizes
    BY DEF ReadCodeSizes
  <2>5. ~DecodeLiteral
    BY <1>3 DEF DecodeLiteral
  <2>6. ~(SkipTrailer \/ ReadTrailer \/ AddByte \/ Reduce \/ ChecksumMatches)
    BY <1>3 DEF SkipTrailer, ReadTrailer, AddByte, Reduce, ChecksumMatches
  <2>7. ReadStored \/ EndBlock
    BY <2>1, <2>2, <2>3, <2>4, <2>5, <2>6, CannotFails
       DEF InflaterNext, Blocks, HuffmanTrees, DecodeHuffman, Trailer
  <2>8. \E o : AfterBlock(o)
    <3>1. CASE ReadStored
      <4>1. \E b \in BlockSizes : AfterBlock(b.stream.offset + b.size)
        BY <3>1, Zenon DEF ReadStored
      <4> QED
        BY <4>1
    <3>2. CASE EndBlock
      <4>1. \E d \in LiteralsOrSizes : AfterBlock(d.stream.offset)
        BY <3>2, Zenon DEF EndBlock
      <4> QED
        BY <4>1
    <3> QED
      BY <2>7, <3>1, <3>2
  <2> QED
    BY <2>8 DEF AfterBlock
<1> QED
  BY <1>2, <1>3

(* Two bytes of a word are the word again. *)
LEMMA WordOfBytes ==
  ASSUME NEW n \in Nat
  PROVE  ((n \div 256) * 256) + (n % 256) = n
<1> DEFINE d == n \div 256
           r == n % 256
<1>1. n = (256 * d) + r /\ d \in Nat /\ r \in Nat
  OBVIOUS
<1> HIDE DEF d, r
<1>2. (d * 256) + r = n
  BY <1>1
<1> QED
  BY <1>2 DEF d, r

LEMMA ChecksumBytesAreWords ==
  ASSUME NEW text \in Seq(Bytes)
  PROVE  LET c == ChecksumBytes(text)
             sums == Adler32(text)
         IN  /\ (c[1] * 256) + c[2] = sums.upper_word
             /\ (c[3] * 256) + c[4] = sums.lower_word
             /\ sums \in Words
<1> DEFINE c == ChecksumBytes(text)
           sums == Adler32(text)
           u == sums.upper_word
           l == sums.lower_word
<1>1. sums \in Words
  <2>1. Len(text) \in 0..Len(text)
    OBVIOUS
  <2> QED
    BY <2>1, SumsByRecursion DEF Adler32
<1>2. u \in Nat /\ l \in Nat
  BY <1>1 DEF Words
<1>3. c = <<u \div 256, u % 256, l \div 256, l % 256>>
  BY ChecksumIsOfSums DEF ChecksumBytes
<1> HIDE DEF c, u, l
<1>4. c[1] = u \div 256 /\ c[2] = u % 256 /\ c[3] = l \div 256 /\ c[4] = l % 256
  BY <1>3
<1>5. /\ ((u \div 256) * 256) + (u % 256) = u
      /\ ((l \div 256) * 256) + (l % 256) = l
  BY <1>2, WordOfBytes
<1> QED
  BY <1>1, <1>4, <1>5 DEF c, u, l

(* Fewer than eight bits are no byte. *)
LEMMA LessThanByte == \A m \in 0..7 : m \div 8 = 0
<1> TAKE m \in 0..7
<1>1. m \in Nat /\ m < 8
  OBVIOUS
<1> QED
  BY <1>1, SMTT(20)

(* The checksum of whole data does not fail. *)
LEMMA ChecksumFailsRightly ==
  ASSUME InflaterInv, AdlerInv, TrailerInv, NEW header, NEW B, NEW q,
         Follows(header, B, q), ChecksumFails
  PROVE  input.damage # "none"
<1> SUFFICES ASSUME input.damage = "none" PROVE FALSE
  OBVIOUS
<1>1. at = "checksum" /\ IsAddedUp /\ checksum.words # StoredChecksum
  BY DEF ChecksumFails
<1>2. input.zlib
  BY <1>1 DEF TrailerInv
<1> DEFINE h == DataHeaderSize(input)
           e == Len(Encoding(B))
           o == h + e
           c == ChecksumBytes(Text(B))
           sums == Adler32(Text(B))
<1>3. /\ h \in Nat /\ e \in Nat
      /\ byte_stream_offset = o /\ uncompressed_data = Text(B)
      /\ \A k \in 1..4 : data[o + k] = c[k]
  BY <1>1, <1>2, FollowedToEnd
<1>4. checksum.words = sums
  BY <1>1, <1>3, WordsAreAdler32
<1>5. ChecksumOffset = o
  <2>1. Len(bit_buffer) \in 0..7
    <3>1. data \in Seq(Bytes) /\ IsStream(Stream)
      BY WhereIs
    <3> QED
      BY <3>1, PositionIsNat DEF Stream
  <2>2. Len(bit_buffer) \div 8 = 0
    BY <2>1, LessThanByte
  <2> QED
    BY <1>3, <2>2 DEF ChecksumOffset
<1>6. uncompressed_data \in Seq(Bytes)
  BY DEF InflaterInv, OutputInv
<1>7. /\ (c[1] * 256) + c[2] = sums.upper_word
      /\ (c[3] * 256) + c[4] = sums.lower_word
      /\ sums \in Words
  BY <1>3, <1>6, ChecksumBytesAreWords
<1>8. /\ data[o + 1] = c[1] /\ data[o + 2] = c[2] /\ data[o + 3] = c[3]
      /\ data[o + 4] = c[4]
  BY <1>3
<1> HIDE DEF o, c, sums
<1>9. o \in Nat /\ o + 1 + 1 = o + 2 /\ o + 3 + 1 = o + 4
  BY <1>3 DEF o
<1>10. StoredChecksum = [lower_word |-> (c[3] * 256) + c[4],
                         upper_word |-> (c[1] * 256) + c[2]]
  BY <1>5, <1>8, <1>9 DEF StoredChecksum
<1>11. StoredChecksum = sums
  BY <1>7, <1>10 DEF Words
<1> QED
  BY <1>1, <1>4, <1>11

-----------------------------------------------------------------------------
(* Every step follows the message.                                         *)

LEMMA NextFollows ==
  ASSUME InflaterInv, AdlerInv, TrailerInv, InflaterNext,
         NEW header, NEW B, NEW q, Follows(header, B, q)
  PROVE  Follows(header, B, q)' /\ RefusedRightly(B)'
<1>1. input' = input
  BY InflaterKeepsInput
<1>2. InflaterInv'
  BY InflaterNextKeepsInv
<1>3. CASE Decompress
  BY <1>2, <1>3, DecompressFollows
<1>4. CASE Reads
  BY <1>1, <1>2, <1>4, ReadsFollow
<1>5. CASE CannotDecompress
  BY <1>5, CannotDecompressRightly, FailFollows, CannotFails
<1>6. CASE CannotRead
  <2>1. Fail
    BY <1>6, CannotFails DEF CannotRead
  <2> QED
    BY <1>6, <2>1, CannotReadRightly, FailFollows
<1>7. CASE ChecksumFails
  <2>1. Fail
    BY <1>7, CannotFails
  <2>2. input.damage # "none"
    BY <1>7, ChecksumFailsRightly
  <2>3. RefusedRightly(B)'
    BY <1>1, <2>2 DEF RefusedRightly
  <2> QED
    BY <2>1, <2>3, FailFollows
<1> QED
  BY <1>3, <1>4, <1>5, <1>6, <1>7
     DEF InflaterNext, Blocks, HuffmanTrees, DecodeHuffman, Trailer, Reads, CannotRead

(* A call has written nothing, and nothing is a beginning of every text. *)
LEMMA CallFollows ==
  ASSUME NothingInflated, input \in Inputs, input.damage # "altered",
         NEW header, NEW B, IsWritten(input, header, B)
  PROVE  /\ Follows(header, B, 8 * DataHeaderSize(input))
         /\ RefusedRightly(B)
<1>1. at = "call" /\ uncompressed_data = <<>>
  BY DEF NothingInflated
<1>2. Begins(<<>>, Text(B))
  <2>1. Text(B) = input.text
    BY DEF IsWritten
  <2>2. input.text \in Seq(Bytes)
    BY DEF Inputs
  <2>3. Len(<<>>) = 0 /\ Len(Text(B)) \in Nat
    BY <2>1, <2>2
  <2> QED
    BY <2>3 DEF Begins
<1> QED
  BY <1>1, <1>2 DEF Follows, RefusedRightly, InMessage

WritesInv ==
  input.damage # "altered" =>
    \E header, B, q : Follows(header, B, q) /\ RefusedRightly(B)

InflationInv == InflaterInv /\ AdlerInv /\ TrailerInv /\ WritesInv

LEMMA CallWrites ==
  ASSUME NothingInflated, input \in Inputs,
         input.damage # "altered" => \E header, B : IsWritten(input, header, B)
  PROVE  InflationInv
<1>1. InflaterInv
  BY NothingInflatedInv
<1>2. AdlerInv
  BY AdlerOfInit
<1>3. TrailerInv
  BY DEF NothingInflated, TrailerInv
<1>4. WritesInv
  <2> SUFFICES ASSUME input.damage # "altered"
               PROVE  \E header, B, q : Follows(header, B, q) /\ RefusedRightly(B)
    BY DEF WritesInv
  <2>1. PICK header, B : IsWritten(input, header, B)
    OBVIOUS
  <2>2. /\ Follows(header, B, 8 * DataHeaderSize(input))
        /\ RefusedRightly(B)
    BY <2>1, CallFollows
  <2> QED
    BY <2>2
<1> QED
  BY <1>1, <1>2, <1>3, <1>4 DEF InflationInv

LEMMA NextWrites ==
  ASSUME InflationInv, InflaterNext
  PROVE  InflationInv'
<1>1. InflaterInv /\ AdlerInv /\ TrailerInv
  BY DEF InflationInv
<1>2. InflaterInv' /\ AdlerInv' /\ TrailerInv' /\ input' = input
  BY <1>1, InflaterNextKeepsInv, InflaterNextAdler, TrailerOfNext, InflaterKeepsInput
<1>3. WritesInv'
  <2> SUFFICES ASSUME input.damage # "altered"
               PROVE  \E header, B, q : Follows(header, B, q)' /\ RefusedRightly(B)'
    BY <1>2 DEF WritesInv
  <2>1. PICK header, B, q : Follows(header, B, q)
    BY DEF InflationInv, WritesInv
  <2>2. Follows(header, B, q)' /\ RefusedRightly(B)'
    BY <1>1, <2>1, NextFollows
  <2> QED
    BY <2>2
<1> QED
  BY <1>2, <1>3 DEF InflationInv

LEMMA StutterWrites ==
  ASSUME InflationInv, UNCHANGED inflaterVars
  PROVE  InflationInv'
<1>1. InflaterInv /\ AdlerInv /\ TrailerInv
  BY DEF InflationInv
<1>2. /\ UNCHANGED <<input, stream, decoding, uncompressed_data, at>>
      /\ input' = input /\ at' = at
  BY DEF inflaterVars
<1>3. InflaterInv' /\ AdlerInv' /\ TrailerInv'
  <2>1. TrailerInv'
    BY <1>1, <1>2 DEF TrailerInv
  <2> QED
    BY <1>1, <2>1, InflaterNextKeepsInv, InflaterNextAdler
<1>4. WritesInv'
  <2> SUFFICES ASSUME input.damage # "altered"
               PROVE  \E header, B, q : Follows(header, B, q)' /\ RefusedRightly(B)'
    BY <1>2 DEF WritesInv
  <2>1. PICK header, B, q : Follows(header, B, q) /\ RefusedRightly(B)
    BY DEF InflationInv, WritesInv
  <2>2. Follows(header, B, q)' /\ RefusedRightly(B)'
    BY <1>2, <2>1, UnchangedFollows
  <2> QED
    BY <2>2
<1> QED
  BY <1>3, <1>4 DEF InflationInv

(* What the invariant says of what is written, refused and cut. *)
LEMMA InflationIs ==
  InflationInv => WritesText /\ OnlyDamageFails /\ CutIsNoticed
<1> SUFFICES ASSUME InflationInv PROVE WritesText /\ OnlyDamageFails /\ CutIsNoticed
  OBVIOUS
<1>1. CASE input.damage = "altered"
  BY <1>1 DEF WritesText, OnlyDamageFails, CutIsNoticed
<1>2. CASE input.damage # "altered"
  <2>1. PICK header, B, q : Follows(header, B, q) /\ RefusedRightly(B)
    BY <1>2 DEF InflationInv, WritesInv
  <2>2. WritesText /\ CutIsNoticed
    BY <2>1, FollowedIsText, FollowedIsNoticed DEF InflationInv
  <2>3. input.text = Text(B)
    BY <2>1 DEF Follows, IsWritten
  <2>4. OnlyDamageFails
    BY <2>1, <2>3 DEF OnlyDamageFails, RefusedRightly
  <2> QED
    BY <2>2, <2>4
<1> QED
  BY <1>1, <1>2

LEMMA InflationInvariant == AreWritten(Calls) /\ InflaterSpec => []InflationInv
<1>1. AreWritten(Calls) /\ InflaterInit => InflationInv
  <2> SUFFICES ASSUME AreWritten(Calls), InflaterInit PROVE InflationInv
    OBVIOUS
  <2>1. input \in Calls /\ NothingInflated /\ input \in Inputs
    BY CallsAreInputs DEF InflaterInit
  <2>2. input.damage # "altered" => \E header, B : IsWritten(input, header, B)
    BY <2>1 DEF AreWritten
  <2> QED
    BY <2>1, <2>2, CallWrites
<1>2. InflationInv /\ [InflaterNext]_inflaterVars => InflationInv'
  BY NextWrites, StutterWrites
<1> QED
  BY <1>1, <1>2, PTL DEF InflaterSpec

(* What was compressed comes out again: whatever the message, its blocks of *)
(* all three forms, its codes, sizes and matches, and however its bits lie  *)
(* in bytes, each step writes the next bytes of the text, and who is told   *)
(* that it is done has all of it, if the data was not cut                   *)
(* (libqcow_deflate_decompress, libqcow_deflate_decompress_zlib).           *)
THEOREM InflatesWhatWasWritten == AreWritten(Calls) /\ InflaterSpec => []WritesText
BY InflationInvariant, InflationIs, PTL

(* Nothing that was written is refused, if there is room for its text: no   *)
(* form of a block, of a match or of a header is, no tree but the distance  *)
(* tree without a code, which IsMessage leaves out, and not for the         *)
(* checksum.                                                                *)
THEOREM RefusesOnlyDamage == AreWritten(Calls) /\ InflaterSpec => []OnlyDamageFails
BY InflationInvariant, InflationIs, PTL

(* Data that was cut and is taken for whole ends after a whole block and    *)
(* with a byte, or has lost bytes of the checksum only.                     *)
THEOREM NoticesCuts == AreWritten(Calls) /\ InflaterSpec => []CutIsNoticed
BY InflationInvariant, InflationIs, PTL
=============================================================================
