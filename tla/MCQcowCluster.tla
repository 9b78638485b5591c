---------------------------- MODULE MCQcowCluster ----------------------------
(***************************************************************************)
(* Instances of QcowCluster for TLC.  References have 16 bits, sectors 8   *)
(* bytes, and a reference takes 2.  Files and compressed data come from    *)
(* the writers of QcowFormat and DeflateFormat.                            *)
(***************************************************************************)
EXTENDS QcowCluster, QcowFormat, TLC

Times(n, item) == [k \in 1..n |-> item]

-----------------------------------------------------------------------------
(* Messages.  Texts of bytes up to 97 keep the checksum in TLC's integers.  *)

Items == << <<1>>, <<2>>, <<200>>, <<5, 2>>, <<3, 1>>, <<255>> >>

(* Sizes of codes of sizes: 2 bits for repetitions of zero, 3 for the rest. *)
Codes ==
  [s \in 1..19 |-> CASE s - 1 = 18 -> 2
                     [] s - 1 \in {0, 1, 2, 3, 16, 17} -> 3 [] OTHER -> 0]

(* a, b, end and two sizes of matches have codes, and all of 4 distances;   *)
(* the last repetition goes from the literals on to the distances.          *)
Spread(items) ==
  Dynamic(Codes, 18, 259, 4,
    << <<18, 97>>, <<2>>, <<2>>, <<18, 138>>, <<18, 19>>, <<2>>, <<3>>, <<3>>,
       <<2>>, <<16, 3>> >>, items)
SpreadItems ==
  << <<97>>, <<98>>, <<97>>, <<4, 3>>, <<3, 2>>, <<98>>, <<3, 4>> >>

(* One distance, which leaves half of its code space unused. *)
Narrow(items) ==
  Dynamic(Codes, 18, 258, 1,
    << <<18, 97>>, <<1>>, <<17, 9>>, <<18, 138>>, <<18, 11>>, <<2>>, <<2>>,
       <<1>> >>, items)
NarrowItems == << <<97>>, <<3, 1>> >>

Mixed ==
  << Stored(<<1, 2, 3>>), Fixed(Items), Stored(<<>>),
     Fixed(<< <<7>> >>), Stored(<<9>>) >>
Trees2 ==
  << Narrow(NarrowItems), Spread(SpreadItems), Fixed(<< <<3, 9>> >>) >>
Short == << Fixed(<< <<65>>, <<4, 1>> >>) >>

(* The first and the last size and distance of many codes, and the longest. *)
Far ==
  << Fixed(<< <<96>>, <<97>>, <<1>>, <<0>>, <<3, 1>>, <<10, 2>>,
       <<11, 4>>, <<12, 5>>, <<18, 4>>, <<19, 7>>, <<34, 8>>, <<35, 9>>,
       <<66, 12>>, <<67, 13>>, <<130, 16>>, <<131, 17>>, <<257, 96>>,
       <<258, 97>>, <<227, 128>>, <<226, 129>> >>
       \o Times(4, <<258, 4>>) \o << <<3, 1024>>, <<3, 1025>>, <<3, 2048>> >>) >>
Long(n) ==
  << Fixed(<< <<96>>, <<97>>, <<1>>, <<0>> >> \o Times(n, <<258, 4>>)) >>

TextOf(blocks) == <<>> \o Text(blocks)
Encoded(blocks) == <<>> \o Encoding(blocks)
ZlibEncoded(first, blocks) == <<>> \o ZlibEncoding(first, blocks)

Call(bytes, size, zlib, text, damage) ==
  [data |-> bytes, size |-> size, zlib |-> zlib, text |-> text,
   damage |-> damage]

(* A call, with the header and the blocks its data was written with.        *)
Written(bytes, size, zlib, first, blocks, damage) ==
  [call |-> Call(bytes, size, zlib, TextOf(blocks), damage),
   header |-> first, blocks |-> blocks]

Plain(blocks, size) ==
  Written(Encoded(blocks), size, FALSE, <<>>, blocks, "none")

(* With all the room there is to be, or with a byte less or more.           *)
Wholes(blocks) == {Plain(blocks, Len(TextOf(blocks)) + d) : d \in {-1, 0, 1}}

Zlib(first, blocks) ==
  Written(ZlibEncoded(first, blocks), Len(TextOf(blocks)), TRUE, first, blocks,
          "none")

Cuts(w) ==
  {[w EXCEPT !.call.data = SubSeq(@, 1, n), !.call.damage = "cut"] :
     n \in 0..(Len(w.call.data) - 1)}

Flipped(byte, bit) ==
  IF (byte \div 2 ^ bit) % 2 = 1 THEN byte - 2 ^ bit ELSE byte + 2 ^ bit
Flips(bytes, zlib, text) ==
  {Call([bytes EXCEPT ![k] = Flipped(@, bit)], Len(text), zlib, text, "altered") :
     k \in DOMAIN bytes, bit \in 0..7}

Dictionary == <<120, 187, 0, 0, 0, 1>>

MCWritten ==
  UNION {Wholes(b) : b \in {Mixed, Trees2, Far}}
  \cup UNION {Cuts(Plain(b, Len(TextOf(b)))) : b \in {Mixed, Trees2}}
  \cup Cuts(Zlib(<<120, 156>>, Short))
  \cup {Zlib(<<120, 156>>, Trees2), Zlib(Dictionary, Mixed),
        Zlib(<<120, 1>>, Long(22))}
  \cup {Plain(Long(100), 26000)}

MCCalls ==
  {w.call : w \in MCWritten}
  \cup Flips(Encoded(Trees2), FALSE, TextOf(Trees2))
  \cup Flips(ZlibEncoded(Dictionary, Short), TRUE, TextOf(Short))

-----------------------------------------------------------------------------
(* Files.                                                                  *)

Header(version, block_bits, level2_bits, references, media_size, size) ==
  [size |-> size, signature |-> TRUE, format_version |-> version,
   number_of_cluster_block_bits |-> block_bits,
   number_of_level2_table_bits |-> level2_bits,
   number_of_level1_table_references |-> references,
   media_size |-> media_size, encryption_method |-> 0,
   level1_table_offset_is_negative |-> FALSE,
   incompatible_feature_flags |-> 1, compatible_feature_flags |-> 1,
   header_size |-> 104]

OnlyHeader(h) ==
  [header |-> h, contents |-> <<>>, references |-> <<>>, offsets |-> {},
   media |-> <<>>, streams |-> <<>>, sound |-> FALSE]

(* Headers of all kinds, most of them of no file. *)
MCHeaders ==
  {Header(v, c, l, 3, m, 20) :
     v \in 0..4, c \in {0, 1, 2, 3, 7, 8, 9, 14, 15, 16, 17},
     l \in {0, 1, 6, 7, 8, 15, 16}, m \in {0, 96, 129}}
  \cup {Header(v, 4, 2, n, 70, s) :
          v \in 1..3, n \in {0, 1, 4096, 4097}, s \in {15, 16}}
  \cup {[Header(3, 4, 2, 3, 70, 20) EXCEPT !.incompatible_feature_flags = i,
           !.compatible_feature_flags = j, !.header_size = s] :
          i \in {0, 2}, j \in {0, 2}, s \in {100, 104, 112}}
  \cup {[Header(v, 4, 2, 3, 70, 20) EXCEPT !.signature = b,
           !.level1_table_offset_is_negative = n] :
          v \in 1..3, b \in BOOLEAN, n \in BOOLEAN}

Filler(n) == [k \in 1..n |-> 255]

(* The text of a cluster block of 2 ^ bits bytes, by its first byte. *)
ClusterItems(bits, first) ==
  << <<first>>, <<first + 1>>, <<first>>, <<2 ^ bits - 4, 2>>, <<7>> >>

(* A file of which the cluster blocks with these offsets of the media have  *)
(* these blocks, at places that these gaps make.                            *)
File(version, bits, level2_bits, media_size, offsets, blocks, gaps, rest) ==
  LET bytes == [k \in DOMAIN offsets |-> Encoded(blocks[k])]
      before[k \in 0..Len(offsets)] ==
        IF k = 0 THEN <<>> ELSE before[k - 1] \o Filler(gaps[k]) \o bytes[k]
      contents == before[Len(offsets)] \o Filler(rest)
      all == {offsets[k] : k \in DOMAIN offsets}
      of(o) == CHOOSE k \in DOMAIN offsets : offsets[k] = o
      place(o) == Len(before[of(o) - 1]) + gaps[of(o)]
      any == Header(version, bits, level2_bits, 0, media_size, Len(contents))
      h == [any EXCEPT !.number_of_level1_table_references =
                         1 + (media_size \div TableBytes(any))]
  IN  [file |->
         [header |-> h,
          contents |-> contents,
          references |-> [e \in {IndexesOf(h, o) : o \in all} |->
             LET o == CHOOSE p \in all : IndexesOf(h, p) = e
             IN  ReferenceTo(h, place(o), Len(bytes[of(o)]))],
          offsets |-> all,
          media |-> [o \in all |-> TextOf(blocks[of(o)])[(o % 2 ^ bits) + 1]],
          streams |-> [o \in all |->
             [bytes |-> bytes[of(o)], text |-> TextOf(blocks[of(o)])]],
          sound |-> TRUE],
       messages |-> [o \in all |-> blocks[of(o)]],
       places |-> [o \in all |-> place(o)]]

Cluster(bits, first) == << Fixed(ClusterItems(bits, first)) >>
InTwo(bits, first) ==
  << Stored(<<first, 5>>), Fixed(<< <<2 ^ bits - 2, 2>> >>) >>
(* As long as the cluster block of 32 bytes: a writer has none that is longer. *)
NothingGained ==
  << Stored([k \in 1..23 |-> k]), Fixed(<< <<9, 23>> >>) >>

(* One per version, with cluster blocks in the first and in the last of     *)
(* their tables; streams that end with a sector, inside one, with the file, *)
(* and one that is as large as the cluster block it holds.                  *)
MCWrittenFiles == {
  File(1, 4, 2, 70, <<0, 18, 69>>,
       <<Cluster(4, 10), Cluster(4, 20), Cluster(4, 30)>>, <<17, 0, 5>>, 3),
  File(2, 5, 4, 1100, <<33, 671, 1099>>,
       <<Cluster(5, 10), NothingGained, InTwo(5, 30)>>, <<21, 3, 9>>, 0),
  File(3, 5, 4, 600, <<31, 512>>,
       <<InTwo(5, 40), NothingGained>>, <<18, 4>>, 40)}

Unsound(f) == [f EXCEPT !.sound = FALSE]
Shorter(f, n) ==
  Unsound([f EXCEPT !.header.size = @ - n,
                    !.contents = SubSeq(@, 1, Len(@) - n)])
Refers(f, r) ==
  Unsound([f EXCEPT !.references = [e \in DOMAIN @ |-> r]])

(* What is left of a file, or was made of it. *)
Damaged(f) ==
  {Shorter(f, n) : n \in {1, 8, 9}}
  \cup {Refers(f, r) : r \in {0, 1, 20, 2 ^ 14 + 21, 2 ^ 14 + 2040, 2 ^ 15 + 20,
                              2 ^ 15 + 2000}}
  \cup {Unsound([f EXCEPT !.header.encryption_method = 1]),
        Unsound([f EXCEPT !.header.number_of_level1_table_references = 2])}

MCFiles ==
  {OnlyHeader(h) : h \in MCHeaders}
  \cup UNION {{w.file} \cup Damaged(w.file) : w \in MCWrittenFiles}

-----------------------------------------------------------------------------
(* All of this is what a writer may write: it is all that the proofs assume *)
(* of calls and of files.                                                   *)
ASSUME CallsAreWritten ==
  \A w \in MCWritten : IsWritten(w.call, w.header, w.blocks)

ASSUME FilesAreWritten ==
  \A w \in MCWrittenFiles : IsWrittenFile(w.file, w.messages, w.places)
=============================================================================
