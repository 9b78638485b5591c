------------------------------ MODULE QcowImage ------------------------------
(***************************************************************************)
(* What the modules about one libqcow file share: the images that can be   *)
(* opened, counted in cluster blocks, and what a call can reply.           *)
(***************************************************************************)
EXTENDS Integers, Sequences

CONSTANTS
  Threads,      \* the application's threads
  Images,       \* the image files there are
  Parents,      \* other libqcow files that can be set as parent
  Keys,         \* the values of the 128-bit key
  ZeroKey,      \* key_data as initialize leaves it
  NoImage, NoParent, NoKey,
  MediaSize,    \* MediaSize[i]: cluster blocks of the media of image i
  Backing,      \* Backing[i]: the header of image i names a backing file
  Encrypted,    \* Encrypted[i]: the header of image i names an encryption method
  Block,        \* Block[i][c]: cluster block c of image i: see BlockKinds
  MaxOffset,    \* bound: the largest offset a thread seeks to
  MaxCount      \* bound: the largest number of cluster blocks of one read

BlockKinds == {"data", "hole", "bad"}

ASSUME ImageConstants ==
  /\ NoImage \notin Images
  /\ NoParent \notin Parents
  /\ ZeroKey \in Keys
  /\ NoKey \notin Keys
  /\ MediaSize \in [Images -> Nat]
  /\ Backing \in [Images -> BOOLEAN]
  /\ Encrypted \in [Images -> BOOLEAN]
  /\ DOMAIN Block = Images
  /\ \A i \in Images : Block[i] \in [0..(MediaSize[i] - 1) -> BlockKinds]
  /\ MaxOffset \in Nat
  /\ MaxCount \in Nat

(* A cell is what one cluster block of media comes from. *)
Cell == [source : Images \cup Parents \cup {NoParent},
         block : Nat, key : Keys \cup {NoKey}]

DataCell(i, c, k) == [source |-> i, block |-> c, key |-> k]
ParentCell(p, c) == [source |-> p, block |-> c, key |-> NoKey]
ZeroCell == [source |-> NoParent, block |-> 0, key |-> NoKey]

(* Cluster block c of the media of image i, opened with key k, parent p. *)
Content(i, k, p, c) ==
  IF Block[i][c] = "data" THEN DataCell(i, c, k)
  ELSE IF p # NoParent THEN ParentCell(p, c) ELSE ZeroCell

(* The key that decrypts image i when it is opened with key_data k. *)
SessionKey(i, k) == IF Encrypted[i] THEN k ELSE NoKey

Replies == [status : {"none", "ok", "error", "crash"},
            cells : Seq(Cell), value : Int]
Reply(status, cells, value) ==
  [status |-> status, cells |-> cells, value |-> value]
NoReply == Reply("none", <<>>, 0)
Ok == Reply("ok", <<>>, 0)
Error == Reply("error", <<>>, 0)
=============================================================================
