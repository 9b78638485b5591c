----------------------------- MODULE MediaHandle -----------------------------
(***************************************************************************)
(* What libqcow_file promises to the threads that share a file: every call *)
(* takes effect in one step, and a read replies with consecutive cluster   *)
(* blocks of the media of one image, decrypted with the key that was set   *)
(* when that image was opened, holes filled from the parent file.          *)
(***************************************************************************)
EXTENDS QcowImage

VARIABLES
  image,     \* the image that is open, or NoImage
  key,       \* the key it was opened with
  next_key,  \* the key for the next open
  parent,
  offset,
  reply      \* reply[t]: what the last call of thread t returned

vars == <<image, key, next_key, parent, offset, reply>>

Init ==
  /\ image = NoImage
  /\ key = NoKey
  /\ next_key = ZeroKey
  /\ parent = NoParent
  /\ offset = 0
  /\ reply = [t \in Threads |-> NoReply]

Answer(t, r) == reply' = [reply EXCEPT ![t] = r]

Begin(t) ==
  Answer(t, NoReply) /\ UNCHANGED <<image, key, next_key, parent, offset>>

Fail(t) ==
  Answer(t, Error) /\ UNCHANGED <<image, key, next_key, parent, offset>>

Done(t) ==
  Answer(t, Ok) /\ UNCHANGED <<image, key, next_key, parent, offset>>

(* An image is opened on a handle that is closed, with the key of the moment. *)
OpenMedia(t, i) ==
  /\ image = NoImage
  /\ image' = i
  /\ key' = SessionKey(i, next_key)
  /\ reply' = reply \/ Answer(t, Ok)
  /\ UNCHANGED <<next_key, parent, offset>>

CloseMedia(t) ==
  /\ image' = NoImage
  /\ key' = NoKey
  /\ offset' = 0
  /\ Answer(t, Ok)
  /\ UNCHANGED <<next_key, parent>>

(* After a free and before an initialize there is nothing. *)
Recreate(t) ==
  /\ image' = NoImage
  /\ key' = NoKey
  /\ next_key' = ZeroKey
  /\ parent' = NoParent
  /\ offset' = 0
  /\ reply' = reply \/ Answer(t, Ok)

(* The key is set on a closed handle only. *)
SetKey(t, k) ==
  /\ image = NoImage
  /\ next_key' = k
  /\ Answer(t, Ok) \/ Answer(t, Error)
  /\ UNCHANGED <<image, key, parent, offset>>

(* The parent of an image that needs one is set once. *)
SetParent(t, p) ==
  /\ image # NoImage
  /\ Backing[image]
  /\ parent = NoParent
  /\ parent' = p
  /\ Answer(t, Ok)
  /\ UNCHANGED <<image, key, next_key, offset>>

Complete == image # NoImage /\ (Backing[image] => parent # NoParent)

SeekMedia(t, o) ==
  /\ Complete
  /\ offset' = o
  /\ Answer(t, Reply("ok", <<>>, o))
  /\ UNCHANGED <<image, key, next_key, parent>>

Extent(o, len) == [j \in 1..len |-> Content(image, key, parent, o + j - 1)]

Least(a, b) == IF a < b THEN a ELSE b

(* A read of n cluster blocks at o ends early at the end of the media only; *)
(* none of what it returns is unreadable.                                   *)
ReadMedia(t, o, n) ==
  LET len == IF o < MediaSize[image] THEN Least(n, MediaSize[image] - o) ELSE 0
  IN /\ Complete
     /\ \A j \in 0..(len - 1) : Block[image][o + j] # "bad"
     /\ offset' = o + len
     /\ Answer(t, Reply("ok", Extent(o, len), 0))
     /\ UNCHANGED <<image, key, next_key, parent>>

(* A read that fails does so at an unreadable cluster block or at one of    *)
(* the parent, and leaves the offset there.                                 *)
ReadFails(t, o, n) ==
  /\ Complete
  /\ \E j \in 0..(n - 1) :
       /\ o + j < MediaSize[image]
       /\ \/ Block[image][o + j] = "bad"
          \/ Block[image][o + j] = "hole" /\ parent # NoParent
       /\ \A l \in 0..(j - 1) : Block[image][o + l] # "bad"
       /\ offset' = o + j
  /\ Answer(t, Error)
  /\ UNCHANGED <<image, key, next_key, parent>>

Tell(t, v) ==
  /\ Answer(t, Reply("ok", <<>>, v))
  /\ UNCHANGED <<image, key, next_key, parent, offset>>

TellOffset(t) == Tell(t, offset)
TellMediaSize(t) == image # NoImage /\ Tell(t, MediaSize[image])
TellBacking(t) ==
  Tell(t, IF image # NoImage /\ Backing[image] THEN 1 ELSE 0)
TellLocked(t) == Tell(t, IF image = NoImage THEN 1 ELSE 0)

Next ==
  \E t \in Threads :
    \/ Begin(t) \/ Fail(t) \/ Done(t) \/ CloseMedia(t) \/ Recreate(t)
    \/ \E i \in Images : OpenMedia(t, i)
    \/ \E k \in Keys : SetKey(t, k)
    \/ \E p \in Parents : SetParent(t, p)
    \/ \E o \in 0..MaxOffset : SeekMedia(t, o)
    \/ \E n \in 0..MaxCount : ReadMedia(t, offset, n) \/ ReadFails(t, offset, n)
    \/ \E o \in 0..MaxOffset, n \in 0..MaxCount :
         ReadMedia(t, o, n) \/ ReadFails(t, o, n)
    \/ TellOffset(t) \/ TellMediaSize(t) \/ TellBacking(t) \/ TellLocked(t)

Spec == Init /\ [][Next]_vars
=============================================================================
