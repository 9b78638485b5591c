--------------------------- MODULE QcowMountProofs ---------------------------
(***************************************************************************)
(* Theorems about QcowMount: for chains of any length, any number of files *)
(* and users, FUSE and Dokan.                                              *)
(*                                                                         *)
(* The invariant has two halves.  MainInv is about what main changes, the  *)
(* files and where they are kept; callbacks leave all of it alone.         *)
(* CallbackInv is about the callbacks; when main changes the files there   *)
(* are none in progress.  OverlayInv, further down, is about what the      *)
(* reads deliver, and ListingInv about the names that a directory lists;   *)
(* both rest on the first two.                                             *)
(***************************************************************************)
EXTENDS QcowMount, SequenceTheorems, FiniteSetTheorems, RecursiveFunctions,
        TLAPS

-----------------------------------------------------------------------------
(* Sequences.                                                              *)

LEMMA AppendFacts ==
  ASSUME NEW S, NEW s \in Seq(S), NEW e \in S
  PROVE  /\ Append(s, e) \in Seq(S)
         /\ Len(Append(s, e)) = Len(s) + 1
         /\ DOMAIN Append(s, e) = 1..(Len(s) + 1)
         /\ \A i \in 1..Len(s) : Append(s, e)[i] = s[i]
         /\ Append(s, e)[Len(s) + 1] = e
         /\ Append(s, e) # <<>>
BY AppendProperties, LenProperties

LEMMA FrontFacts ==
  ASSUME NEW S, NEW s \in Seq(S), s # <<>>
  PROVE  /\ Front(s) \in Seq(S)
         /\ Len(s) \in Nat \ {0}
         /\ Len(Front(s)) = Len(s) - 1
         /\ DOMAIN Front(s) = 1..(Len(s) - 1)
         /\ \A i \in 1..(Len(s) - 1) : Front(s)[i] = s[i]
         /\ Last(s) = s[Len(s)]
         /\ Last(s) \in S
<1>1. Len(s) \in Nat \ {0}
  BY EmptySeq
<1>2. \A i \in 1..Len(s) : s[i] \in S
  BY ElementOfSeq
<1>3. \A i \in 1..(Len(s) - 1) : s[i] \in S
  BY <1>1, <1>2
<1>4. /\ Front(s) \in Seq(S)
      /\ Len(Front(s)) = Len(s) - 1
      /\ \A i \in 1..(Len(s) - 1) : Front(s)[i] = s[i]
  <2>1. /\ SubSeq(s, 1, Len(s) - 1) \in Seq(S)
        /\ Len(SubSeq(s, 1, Len(s) - 1))
             = IF 1 <= Len(s) - 1 THEN (Len(s) - 1) - 1 + 1 ELSE 0
        /\ \A i \in 1..((Len(s) - 1) - 1 + 1) :
             SubSeq(s, 1, Len(s) - 1)[i] = s[1 + i - 1]
    <3>1. /\ 1 \in Int
          /\ Len(s) - 1 \in Int
      BY <1>1
    <3>2. QED
      BY <3>1, <1>3, SubSeqProperties
  <2>2. Len(SubSeq(s, 1, Len(s) - 1)) = Len(s) - 1
    <3>1. \A n \in Nat \ {0} :
            (IF 1 <= n - 1 THEN (n - 1) - 1 + 1 ELSE 0) = n - 1
      OBVIOUS
    <3>2. QED
      BY <3>1, <2>1, <1>1, Zenon
  <2>3. ASSUME NEW i \in 1..(Len(s) - 1)
        PROVE  SubSeq(s, 1, Len(s) - 1)[i] = s[i]
    <3>1. i \in 1..((Len(s) - 1) - 1 + 1) /\ 1 + i - 1 = i
      BY <1>1
    <3>2. SubSeq(s, 1, Len(s) - 1)[i] = s[1 + i - 1]
      BY <2>1, <3>1
    <3>3. QED
      BY <3>1, <3>2, Zenon
  <2>4. QED
    BY <2>1, <2>2, <2>3, Zenon DEF Front
<1>5. DOMAIN Front(s) = 1..(Len(s) - 1)
  BY <1>4, LenProperties
<1>6. Last(s) = s[Len(s)] /\ Last(s) \in S
  BY <1>1, <1>2 DEF Last
<1>7. QED
  BY <1>1, <1>4, <1>5, <1>6

-----------------------------------------------------------------------------
(* What main knows.                                                        *)

TypeMain ==
  /\ subsystem \in Subsystems
  /\ phase \in Phases
  /\ hand \in Seq(Files)
  /\ files_array \in Seq(Files)
  /\ state \in [Files -> {"none", "open", "freed"}]
  /\ image \in [Files -> Names \cup {NoName}]
  /\ parent_file \in [Files -> Files \cup {NoFile}]
  /\ keyed \in [Files -> BOOLEAN]

(* The files in hand are open, different, and not in the array; each is    *)
(* the backing file of the one before.                                     *)
HandOpen ==
  /\ \A i \in 1..Len(hand) :
       state[hand[i]] = "open" /\ image[hand[i]] \in Names
  /\ \A i, j \in 1..Len(hand) : hand[i] = hand[j] => i = j
  /\ \A i \in 1..Len(hand), j \in 1..Len(files_array) :
       hand[i] # files_array[j]
  /\ \A i \in 2..Len(hand) :
       BackingName[image[hand[i - 1]]] = image[hand[i]]

(* What is in hand, and in the array, as opening goes on.                  *)
HandOfPhase ==
  /\ phase \in {"start", "mounted", "close", "ended"} => hand = <<>>
  /\ phase \in {"open_parent", "append"} => hand # <<>>
  /\ phase \in {"start", "open_parent"} => files_array = <<>>
  /\ phase = "mounted" => files_array # <<>>
  /\ phase \in {"open_parent", "append"} =>
       \A i \in 1..(Len(hand) - 1) : parent_file[hand[i]] = NoFile
  /\ phase = "open_parent" => parent_file[hand[Len(hand)]] = NoFile

(* When open_parent returns to the call before, the last file in hand is   *)
(* the base of the chain, or has its parents in the array.                 *)
HandOverArray ==
  phase = "append" =>
    LET f == hand[Len(hand)]
        p == files_array[Len(files_array)]
    IN  \/ /\ files_array = <<>>
           /\ BackingName[image[f]] = NoName
           /\ parent_file[f] = NoFile
        \/ /\ files_array # <<>>
           /\ BackingName[image[f]] = image[p]
           /\ parent_file[f] = p

(* The array is a chain of different files, from its base.                 *)
ArrayChain ==
  /\ \A i \in 1..Len(files_array) : state[files_array[i]] # "none"
  /\ \A i, j \in 1..Len(files_array) :
       files_array[i] = files_array[j] => i = j
  /\ files_array # <<>> =>
       /\ BackingName[image[files_array[1]]] = NoName
       /\ parent_file[files_array[1]] = NoFile
  /\ \A i \in 2..Len(files_array) :
       /\ parent_file[files_array[i]] = files_array[i - 1]
       /\ BackingName[image[files_array[i]]] = image[files_array[i - 1]]

(* It is closed from its end.                                              *)
ArrayOpen ==
  /\ phase \notin {"close", "ended"} =>
       \A i \in 1..Len(files_array) : state[files_array[i]] = "open"
  /\ \A i, j \in 1..Len(files_array) :
       i < j /\ state[files_array[j]] = "open"
         => state[files_array[i]] = "open"

(* A file that was not opened has no parent. *)
FreshFiles == \A f \in Files : state[f] = "none" => parent_file[f] = NoFile

MainInv ==
  /\ TypeMain
  /\ HandOpen
  /\ HandOfPhase
  /\ HandOverArray
  /\ ArrayChain
  /\ ArrayOpen
  /\ FreshFiles
  /\ NoFileLost

LEMMA InitMain == Init => MainInv
<1> SUFFICES ASSUME Init PROVE MainInv
  OBVIOUS
<1> USE MountConstants DEF Init
<1>0. hand = <<>> /\ files_array = <<>> /\ Len(hand) = 0 /\ Len(files_array) = 0
  OBVIOUS
<1>1. TypeMain
  BY DEF TypeMain, Phases
<1>2. HandOpen
  BY <1>0 DEF HandOpen
<1>3. HandOfPhase /\ HandOverArray
  BY <1>0 DEF HandOfPhase, HandOverArray
<1>4. ArrayChain /\ ArrayOpen
  BY <1>0 DEF ArrayChain, ArrayOpen
<1>5. FreshFiles /\ NoFileLost
  BY DEF FreshFiles, NoFileLost
<1>6. QED
  BY <1>1, <1>2, <1>3, <1>4, <1>5 DEF MainInv

-----------------------------------------------------------------------------
(* Each step of main.                                                      *)

(* The two opens: the first, and that of a backing file. *)
LEMMA OpenFileMain ==
  ASSUME MainInv, NEW n \in Names, NEW k \in BOOLEAN,
         CanOpen(n), OpenFile(n, k),
         UNCHANGED <<subsystem, files_array>>,
         phase \in {"start", "open_parent"}, phase' = "open_parent",
         hand # <<>> => BackingName[image[hand[Len(hand)]]] = n
  PROVE  MainInv'
<1> DEFINE f == CHOOSE g \in Unallocated : TRUE
<1> USE DEF MainInv
<1>1. f \in Files /\ state[f] = "none"
  BY DEF CanOpen, Unallocated
<1>2. /\ state' = [state EXCEPT ![f] = "open"]
      /\ image' = [image EXCEPT ![f] = n]
      /\ keyed' = [keyed EXCEPT ![f] = k]
      /\ hand' = Append(hand, f)
      /\ UNCHANGED parent_file
  BY DEF OpenFile
<1> HIDE DEF f
<1>3. /\ hand' \in Seq(Files)
      /\ Len(hand') = Len(hand) + 1
      /\ Len(hand) \in Nat
      /\ \A i \in 1..Len(hand) : hand'[i] = hand[i] /\ hand[i] \in Files
      /\ hand'[Len(hand) + 1] = f
      /\ hand' # <<>>
  BY <1>1, <1>2, AppendFacts, ElementOfSeq, LenProperties DEF TypeMain
<1>4. files_array = <<>> /\ Len(files_array) = 0
  BY DEF HandOfPhase
<1>5. \A i \in 1..Len(hand) : hand[i] # f
  BY <1>1 DEF HandOpen
<1>6. \A i \in 1..Len(hand) : parent_file[hand[i]] = NoFile
  BY <1>3, EmptySeq DEF HandOfPhase
<1>7. parent_file[f] = NoFile
  BY <1>1 DEF FreshFiles
<1>8. TypeMain'
  BY <1>1, <1>2, <1>3 DEF TypeMain, Phases
<1>9. HandOpen'
  <2>1. \A i \in 1..Len(hand') :
          state'[hand'[i]] = "open" /\ image'[hand'[i]] \in Names
    BY <1>1, <1>2, <1>3, <1>5 DEF HandOpen, TypeMain
  <2>2. \A i, j \in 1..Len(hand') : hand'[i] = hand'[j] => i = j
    BY <1>3, <1>5 DEF HandOpen
  <2>3. \A i \in 2..Len(hand') :
          BackingName[image'[hand'[i - 1]]] = image'[hand'[i]]
    <3> SUFFICES ASSUME NEW i \in 2..Len(hand')
                 PROVE  BackingName[image'[hand'[i - 1]]] = image'[hand'[i]]
      OBVIOUS
    <3>1. /\ i - 1 \in 1..Len(hand)
          /\ hand'[i - 1] = hand[i - 1]
          /\ image'[hand[i - 1]] = image[hand[i - 1]]
      BY <1>1, <1>2, <1>3, <1>5 DEF TypeMain
    <3>2. CASE i \in 2..Len(hand)
      BY <1>1, <1>2, <1>3, <1>5, <3>1, <3>2 DEF HandOpen, TypeMain
    <3>3. CASE i = Len(hand) + 1
      <4>1. i - 1 = Len(hand) /\ hand # <<>>
        BY <1>3, <3>3
      <4>2. hand'[i] = f /\ image'[f] = n
        BY <1>1, <1>2, <1>3, <3>3 DEF TypeMain
      <4>3. QED
        BY <3>1, <4>1, <4>2
    <3>4. QED
      BY <1>3, <3>2, <3>3
  <2>4. QED
    BY <1>4, <2>1, <2>2, <2>3 DEF HandOpen
<1>10. HandOfPhase' /\ HandOverArray'
  BY <1>2, <1>3, <1>4, <1>6, <1>7 DEF HandOfPhase, HandOverArray
<1>11. ArrayChain' /\ ArrayOpen'
  BY <1>4 DEF ArrayChain, ArrayOpen
<1>12. FreshFiles'
  BY <1>1, <1>2 DEF FreshFiles, TypeMain
<1>13. NoFileLost'
  <2> SUFFICES ASSUME NEW g \in Files, state'[g] = "open"
               PROVE  g \in ToSet(hand')
    BY DEF NoFileLost
  <2>1. DOMAIN hand' = 1..(Len(hand) + 1)
    BY <1>3, LenProperties
  <2>2. CASE g = f
    BY <1>3, <2>1, <2>2 DEF ToSet
  <2>3. CASE g # f
    <3>1. state[g] = "open"
      BY <1>1, <1>2, <2>3 DEF TypeMain
    <3>2. g \in ToSet(hand)
      BY <1>4, <3>1 DEF NoFileLost, ToSet
    <3>3. PICK i \in 1..Len(hand) : hand[i] = g
      BY <3>2, LenProperties DEF ToSet, TypeMain
    <3>4. QED
      BY <1>3, <2>1, <3>3 DEF ToSet
  <2>4. QED
    BY <2>2, <2>3
<1>14. QED
  BY <1>8, <1>9, <1>10, <1>11, <1>12, <1>13

LEMMA MountHandleOpenMain ==
  ASSUME MainInv, NEW n \in Names, NEW k \in KeyOptions,
         MountHandleOpen(n, k)
  PROVE  MainInv'
<1> USE DEF MainInv
<1>1. phase = "start" /\ hand = <<>> /\ files_array = <<>>
  BY DEF MountHandleOpen, HandOfPhase
<1>2. CASE CanOpen(n)
  <2>1. k \in BOOLEAN
    BY MountConstants
  <2>2. /\ OpenFile(n, k)
        /\ phase' = "open_parent"
        /\ UNCHANGED <<subsystem, files_array>>
    BY <1>2 DEF MountHandleOpen
  <2>3. QED
    BY <1>1, <1>2, <2>1, <2>2, OpenFileMain
<1>3. CASE ~CanOpen(n)
  <2>1. phase' = "unwind" /\ UNCHANGED <<subsystem, hand, files_array, files>>
    BY <1>3 DEF MountHandleOpen
  <2>2. TypeMain'
    BY <2>1 DEF TypeMain, files, Phases
  <2>3. HandOpen'
    BY <2>1 DEF HandOpen, files
  <2>4. HandOfPhase' /\ HandOverArray'
    BY <2>1 DEF HandOfPhase, HandOverArray
  <2>5. ArrayChain' /\ ArrayOpen'
    BY <1>1, <2>1 DEF ArrayChain, ArrayOpen, files
  <2>6. FreshFiles' /\ NoFileLost'
    BY <1>1, <2>1 DEF FreshFiles, NoFileLost, files
  <2>7. QED
    BY <2>2, <2>3, <2>4, <2>5, <2>6
<1>4. QED
  BY <1>2, <1>3

LEMMA OpenParentMain ==
  ASSUME MainInv, OpenParent
  PROVE  MainInv'
<1> DEFINE f == hand[Len(hand)]
           n == BackingName[image[f]]
<1> USE DEF MainInv
<1>1. phase = "open_parent" /\ hand # <<>> /\ files_array = <<>>
  BY DEF OpenParent, HandOfPhase
<1>2. /\ Len(hand) \in Nat \ {0}
      /\ InHand = f
      /\ f \in Files
  BY <1>1, FrontFacts DEF InHand, TypeMain
<1>3. n \in Names \cup {NoName} /\ parent_file[f] = NoFile
  BY <1>1, <1>2, MountConstants DEF HandOpen, HandOfPhase
<1>4. CASE n # NoName /\ CanOpen(n)
  <2>1. /\ OpenFile(n, FALSE)
        /\ phase' = "open_parent"
        /\ UNCHANGED <<subsystem, files_array>>
    BY <1>1, <1>2, <1>4 DEF OpenParent
  <2>2. n \in Names
    BY <1>3, <1>4
  <2>3. QED
    BY <1>1, <1>4, <2>1, <2>2, OpenFileMain
<1>5. CASE ~(n # NoName /\ CanOpen(n))
  <2>1. /\ \/ n = NoName /\ phase' = "append"
           \/ phase' = "unwind"
        /\ UNCHANGED <<subsystem, hand, files_array, files>>
    BY <1>2, <1>5 DEF OpenParent
  <2> HIDE DEF n
  <2>2. TypeMain'
    BY <2>1 DEF TypeMain, files, Phases
  <2>3. HandOpen'
    BY <2>1 DEF HandOpen, files
  <2>4. HandOfPhase'
    BY <1>1, <2>1 DEF HandOfPhase, files
  <2>5. HandOverArray'
    BY <1>1, <1>3, <2>1 DEF HandOverArray, files, n
  <2>6. ArrayChain' /\ ArrayOpen'
    BY <1>1, <2>1 DEF ArrayChain, ArrayOpen, files
  <2>7. FreshFiles' /\ NoFileLost'
    BY <1>1, <2>1 DEF FreshFiles, NoFileLost, files
  <2>8. QED
    BY <2>2, <2>3, <2>4, <2>5, <2>6, <2>7
<1>6. QED
  BY <1>4, <1>5

(* The last file in hand is moved to the array. *)
LEMMA MoveToArray ==
  ASSUME MainInv, phase = "append",
         hand' \in Seq(Files),
         Len(hand') = Len(hand) - 1,
         \A i \in 1..(Len(hand) - 1) : hand'[i] = hand[i],
         files_array' = Append(files_array, hand[Len(hand)]),
         UNCHANGED <<state, image>>,
         \A g \in Files : (\A i \in 1..(Len(hand) - 1) : g # hand[i])
                            => parent_file'[g] = parent_file[g],
         phase' \notin {"close", "ended"}
  PROVE  /\ files_array' \in Seq(Files)
         /\ Len(files_array') = Len(files_array) + 1
         /\ files_array' # <<>>
         /\ files_array'[Len(files_array')] = hand[Len(hand)]
         /\ HandOpen'
         /\ ArrayChain'
         /\ ArrayOpen'
         /\ NoFileLost'
<1> DEFINE f == hand[Len(hand)]
           L == Len(files_array)
<1> USE DEF MainInv
<1>1. /\ Len(hand) \in Nat \ {0}
      /\ \A i \in 1..Len(hand) : hand[i] \in Files
      /\ f \in Files
  BY EmptySeq, ElementOfSeq DEF HandOfPhase, TypeMain
<1>2. /\ L \in Nat
      /\ files_array' \in Seq(Files)
      /\ Len(files_array') = L + 1
      /\ DOMAIN files_array' = 1..(L + 1)
      /\ files_array' # <<>>
      /\ \A i \in 1..L : /\ files_array'[i] = files_array[i]
                         /\ files_array[i] \in Files
      /\ files_array'[L + 1] = f
  BY <1>1, AppendFacts, ElementOfSeq, LenProperties DEF TypeMain
<1>3. /\ state[f] = "open"
      /\ \A i \in 1..L : files_array[i] # f
      /\ \A i \in 1..(Len(hand) - 1) : hand[i] # f
  BY <1>1 DEF HandOpen
<1>4. /\ parent_file'[f] = parent_file[f]
      /\ \A i \in 1..L : parent_file'[files_array[i]] = parent_file[files_array[i]]
  <2>1. parent_file'[f] = parent_file[f]
    BY <1>1, <1>3
  <2>2. ASSUME NEW i \in 1..L
        PROVE  parent_file'[files_array[i]] = parent_file[files_array[i]]
    <3>1. \A j \in 1..(Len(hand) - 1) : files_array[i] # hand[j]
      BY <1>1 DEF HandOpen
    <3>2. QED
      BY <1>2, <3>1
  <2>3. QED
    BY <2>1, <2>2
<1>5. /\ files_array = <<>> => L = 0
      /\ files_array # <<>> => L # 0
  BY <1>2, EmptySeq DEF TypeMain
<1> HIDE DEF L, f
<1>6. HandOpen'
  <2>1. \A i \in 1..Len(hand'), j \in 1..Len(files_array') :
          hand'[i] # files_array'[j]
    <3> SUFFICES ASSUME NEW i \in 1..Len(hand'), NEW j \in 1..Len(files_array')
                 PROVE  hand'[i] # files_array'[j]
      OBVIOUS
    <3>1. hand'[i] = hand[i] /\ i \in 1..(Len(hand) - 1)
      BY <1>1
    <3>2. CASE j = L + 1
      BY <1>2, <1>3, <3>1, <3>2
    <3>3. CASE j \in 1..L
      <4>1. i \in 1..Len(hand) /\ files_array'[j] = files_array[j]
        BY <1>1, <1>2, <3>1, <3>3
      <4>2. hand[i] # files_array[j]
        BY <3>3, <4>1 DEF HandOpen, L
      <4>3. QED
        BY <3>1, <4>1, <4>2
    <3>4. QED
      BY <1>2, <3>2, <3>3
  <2>2. \A i \in 1..Len(hand') :
          state'[hand'[i]] = "open" /\ image'[hand'[i]] \in Names
    BY <1>1 DEF HandOpen
  <2>3. \A i, j \in 1..Len(hand') : hand'[i] = hand'[j] => i = j
    BY <1>1 DEF HandOpen
  <2>4. \A i \in 2..Len(hand') :
          BackingName[image'[hand'[i - 1]]] = image'[hand'[i]]
    <3> SUFFICES ASSUME NEW i \in 2..Len(hand')
                 PROVE  BackingName[image[hand'[i - 1]]] = image[hand'[i]]
      OBVIOUS
    <3>1. /\ i \in 1..(Len(hand) - 1)
          /\ i - 1 \in 1..(Len(hand) - 1)
          /\ i \in 2..Len(hand)
      BY <1>1
    <3>2. hand'[i] = hand[i] /\ hand'[i - 1] = hand[i - 1]
      BY <3>1
    <3>3. QED
      BY <3>1, <3>2 DEF HandOpen
  <2>5. QED
    BY <2>1, <2>2, <2>3, <2>4 DEF HandOpen
<1>7. ArrayChain'
  <2>1. \A i \in 1..(L + 1) : state[files_array'[i]] = "open"
    BY <1>2, <1>3 DEF ArrayOpen, L
  <2>2. \A i, j \in 1..(L + 1) : files_array'[i] = files_array'[j] => i = j
    BY <1>2, <1>3 DEF ArrayChain, L
  <2>3. /\ BackingName[image[files_array'[1]]] = NoName
        /\ parent_file'[files_array'[1]] = NoFile
    <3>1. CASE files_array = <<>>
      <4>1. files_array'[1] = f
        BY <1>2, <1>5, <3>1
      <4>2. QED
        BY <1>4, <3>1, <4>1 DEF HandOverArray, f
    <3>2. CASE files_array # <<>>
      <4>1. 1 \in 1..L
        BY <1>2, <1>5, <3>2
      <4>2. QED
        BY <1>2, <1>4, <3>2, <4>1 DEF ArrayChain
    <3>3. QED
      BY <3>1, <3>2
  <2>4. \A i \in 2..(L + 1) :
          /\ parent_file'[files_array'[i]] = files_array'[i - 1]
          /\ BackingName[image[files_array'[i]]] = image[files_array'[i - 1]]
    <3> SUFFICES ASSUME NEW i \in 2..(L + 1)
                 PROVE  /\ parent_file'[files_array'[i]] = files_array'[i - 1]
                        /\ BackingName[image[files_array'[i]]]
                             = image[files_array'[i - 1]]
      OBVIOUS
    <3>1. i - 1 \in 1..L /\ files_array # <<>>
      BY <1>2, <1>5
    <3>2. files_array'[i - 1] = files_array[i - 1]
      BY <1>2, <3>1
    <3>3. CASE i = L + 1
      <4>1. /\ i - 1 = L
            /\ files_array'[i] = f
        BY <1>2, <3>3
      <4>2. /\ BackingName[image[f]] = image[files_array[L]]
            /\ parent_file[f] = files_array[L]
        BY <3>1 DEF HandOverArray, f, L
      <4>3. QED
        BY <1>4, <3>2, <4>1, <4>2
    <3>4. CASE i \in 2..L
      <4>1. i \in 1..L /\ files_array'[i] = files_array[i]
        BY <1>2, <3>4
      <4>2. QED
        BY <1>4, <3>2, <3>4, <4>1 DEF ArrayChain, L
    <3>5. QED
      BY <1>2, <3>3, <3>4
  <2>5. QED
    BY <1>2, <2>1, <2>2, <2>3, <2>4 DEF ArrayChain
<1>8. ArrayOpen'
  BY <1>2, <1>3 DEF ArrayOpen, L
<1>9. NoFileLost'
  <2> SUFFICES ASSUME NEW g \in Files, state[g] = "open"
               PROVE  g \in ToSet(hand') \cup ToSet(files_array')
    BY DEF NoFileLost
  <2>1. /\ DOMAIN hand = 1..Len(hand)
        /\ DOMAIN files_array = 1..L
        /\ DOMAIN hand' = 1..(Len(hand) - 1)
    BY LenProperties DEF TypeMain, L
  <2>2. \/ \E i \in 1..Len(hand) : hand[i] = g
        \/ \E i \in 1..L : files_array[i] = g
    BY <2>1 DEF NoFileLost, ToSet
  <2>3. CASE \E i \in 1..L : files_array[i] = g
    <3>1. PICK i \in 1..L : files_array[i] = g
      BY <2>3
    <3>2. i \in DOMAIN files_array' /\ files_array'[i] = g
      BY <1>2, <3>1
    <3>3. QED
      BY <3>2 DEF ToSet
  <2>4. CASE g = f
    <3>1. L + 1 \in DOMAIN files_array'
      BY <1>2
    <3>2. QED
      BY <1>2, <2>4, <3>1 DEF ToSet
  <2>5. CASE \E i \in 1..Len(hand) : hand[i] = g /\ g # f
    <3>1. PICK i \in 1..Len(hand) : hand[i] = g /\ i # Len(hand)
      BY <2>5 DEF f
    <3>2. i \in DOMAIN hand' /\ hand'[i] = g
      BY <1>1, <2>1, <3>1
    <3>3. QED
      BY <3>2 DEF ToSet
  <2>6. QED
    BY <2>2, <2>3, <2>4, <2>5
<1>10. QED
  BY <1>2, <1>6, <1>7, <1>8, <1>9 DEF f, L

(* Nothing but the phase changes, and that to the way out. *)
LEMMA ToUnwindMain ==
  ASSUME MainInv, phase = "append", phase' = "unwind",
         UNCHANGED <<subsystem, hand, files_array, state, image, keyed>>,
         parent_file' \in [Files -> Files \cup {NoFile}],
         \A g \in Files : (\A i \in 1..Len(hand) : g # hand[i])
                            => parent_file'[g] = parent_file[g]
  PROVE  MainInv'
<1> USE DEF MainInv
<1>1. \A i \in 1..Len(files_array) :
        parent_file'[files_array[i]] = parent_file[files_array[i]]
  BY ElementOfSeq DEF HandOpen, TypeMain
<1>2. TypeMain'
  BY DEF TypeMain, Phases
<1>3. HandOpen'
  BY DEF HandOpen
<1>4. HandOfPhase' /\ HandOverArray'
  BY DEF HandOfPhase, HandOverArray
<1>5. ArrayChain'
  <2>1. files_array # <<>> => 1 \in 1..Len(files_array)
    BY EmptySeq DEF TypeMain
  <2>2. \A i \in 2..Len(files_array) : i \in 1..Len(files_array)
    BY EmptySeq DEF TypeMain
  <2>3. QED
    BY <1>1, <2>1, <2>2 DEF ArrayChain
<1>6. ArrayOpen'
  BY DEF ArrayOpen
<1>7. FreshFiles'
  BY DEF FreshFiles, HandOpen
<1>8. NoFileLost'
  BY DEF NoFileLost
<1>9. QED
  BY <1>2, <1>3, <1>4, <1>5, <1>6, <1>7, <1>8

LEMMA AppendParentMain ==
  ASSUME MainInv, AppendParent
  PROVE  MainInv'
<1> DEFINE L == Len(hand)
           f == hand[L]
           child == hand[L - 1]
<1> USE DEF MainInv
<1>1. /\ phase = "append"
      /\ L \in Nat \ {0, 1}
      /\ L \in 2..L /\ L - 1 \in 1..L /\ L - 1 \in 1..(L - 1)
      /\ hand # <<>>
      /\ f \in Files /\ child \in Files
      /\ InHand = f
  <2>1. phase = "append" /\ hand # <<>> /\ L > 1
    BY DEF AppendParent, HandOfPhase
  <2>2. L \in Nat
    BY LenProperties DEF TypeMain
  <2>3. /\ L \in 1..L /\ L \in 2..L
        /\ L - 1 \in 1..L /\ L - 1 \in 1..(L - 1)
    BY <2>1, <2>2
  <2>4. f \in Files /\ child \in Files
    BY <2>3, ElementOfSeq DEF TypeMain
  <2>5. QED
    BY <2>1, <2>2, <2>3, <2>4 DEF InHand, Last
<1>2. parent_file' = [parent_file EXCEPT ![child] = f]
  BY <1>1 DEF AppendParent
<1>3. parent_file' \in [Files -> Files \cup {NoFile}]
  BY <1>1, <1>2 DEF TypeMain
<1>4. UNCHANGED <<subsystem, state, image, keyed>>
  BY DEF AppendParent
<1>5. CASE phase' = "unwind" /\ UNCHANGED <<hand, files_array>>
  <2>1. ASSUME NEW g \in Files, \A i \in 1..Len(hand) : g # hand[i]
        PROVE  parent_file'[g] = parent_file[g]
    <3>1. g # child
      BY <1>1, <2>1
    <3>2. QED
      BY <1>2, <3>1 DEF TypeMain
  <2>2. QED
    BY <1>1, <1>3, <1>4, <1>5, <2>1, ToUnwindMain
<1>6. CASE /\ files_array' = Append(files_array, InHand)
           /\ hand' = Front(hand)
           /\ UNCHANGED phase
  <2>1. /\ hand' \in Seq(Files)
        /\ Len(hand') = L - 1
        /\ \A i \in 1..(L - 1) : hand'[i] = hand[i]
    BY <1>1, <1>6, FrontFacts DEF TypeMain
  <2>2. ASSUME NEW g \in Files, \A i \in 1..(L - 1) : g # hand[i]
        PROVE  parent_file'[g] = parent_file[g]
    <3>1. g # child
      BY <1>1, <2>2
    <3>2. QED
      BY <1>2, <3>1 DEF TypeMain
  <2>3. /\ files_array' \in Seq(Files)
        /\ Len(files_array') = Len(files_array) + 1
        /\ files_array' # <<>>
        /\ files_array'[Len(files_array')] = f
        /\ HandOpen'
        /\ ArrayChain'
        /\ ArrayOpen'
        /\ NoFileLost'
    BY <1>1, <1>4, <1>6, <2>1, <2>2, MoveToArray
  <2>4. TypeMain'
    BY <1>1, <1>3, <1>4, <1>6, <2>1, <2>3 DEF TypeMain
  <2>5. HandOfPhase'
    <3>1. hand' # <<>>
      BY <1>1, <2>1
    <3>2. ASSUME NEW i \in 1..(Len(hand') - 1)
          PROVE  parent_file'[hand'[i]] = NoFile
      <4>1. i \in 1..(L - 1) /\ i # L - 1 /\ i \in 1..L /\ L - 1 \in 1..L
        BY <1>1, <2>1
      <4>2. hand'[i] = hand[i] /\ hand[i] # child
        BY <2>1, <4>1 DEF HandOpen
      <4>3. hand[i] \in Files
        BY <4>1, ElementOfSeq DEF TypeMain
      <4>4. parent_file[hand[i]] = NoFile
        BY <1>1, <4>1 DEF HandOfPhase
      <4>5. QED
        BY <1>2, <4>2, <4>3, <4>4 DEF TypeMain
    <3>3. QED
      BY <1>1, <1>6, <3>1, <3>2 DEF HandOfPhase
  <2>6. HandOverArray'
    <3>1. hand'[Len(hand')] = child
      BY <1>1, <2>1
    <3>2. parent_file'[child] = f
      BY <1>1, <1>2 DEF TypeMain
    <3>3. BackingName[image[child]] = image[f]
      BY <1>1 DEF HandOpen
    <3>4. QED
      BY <1>4, <2>3, <3>1, <3>2, <3>3 DEF HandOverArray
  <2>7. FreshFiles'
    <3> SUFFICES ASSUME NEW g \in Files, state[g] = "none"
                 PROVE  parent_file'[g] = NoFile
      BY <1>4 DEF FreshFiles
    <3>1. g # child
      BY <1>1 DEF HandOpen
    <3>2. QED
      BY <1>2, <3>1 DEF FreshFiles, TypeMain
  <2>8. QED
    BY <2>3, <2>4, <2>5, <2>6, <2>7
<1>7. QED
  BY <1>5, <1>6 DEF AppendParent

LEMMA AppendImageMain ==
  ASSUME MainInv, AppendImage
  PROVE  MainInv'
<1> DEFINE f == hand[1]
<1> USE DEF MainInv
<1>1. /\ phase = "append"
      /\ Len(hand) = 1
      /\ InHand = f
      /\ f \in Files
      /\ UNCHANGED <<subsystem, state, image, parent_file, keyed>>
  <2>1. Len(hand) = 1
    BY DEF AppendImage
  <2>2. 1 \in 1..Len(hand)
    BY <2>1
  <2>3. f \in Files
    BY <2>2, ElementOfSeq DEF TypeMain
  <2>4. QED
    BY <2>1, <2>3 DEF AppendImage, InHand, Last, files
<1>2. CASE phase' = "unwind" /\ UNCHANGED <<hand, files_array>>
  BY <1>1, <1>2, ToUnwindMain DEF TypeMain
<1>3. CASE /\ files_array' = Append(files_array, InHand)
           /\ hand' = <<>>
           /\ phase' = "mounted"
  <2>1. hand' \in Seq(Files) /\ Len(hand') = 0
    BY <1>3
  <2>2. /\ files_array' \in Seq(Files)
        /\ files_array' # <<>>
        /\ HandOpen'
        /\ ArrayChain'
        /\ ArrayOpen'
        /\ NoFileLost'
    BY <1>1, <1>3, <2>1, MoveToArray
  <2>3. TypeMain'
    BY <1>1, <1>3, <2>1, <2>2 DEF TypeMain, Phases
  <2>4. HandOfPhase' /\ HandOverArray' /\ FreshFiles'
    BY <1>1, <1>3, <2>2 DEF HandOfPhase, HandOverArray, FreshFiles
  <2>5. QED
    BY <2>2, <2>3, <2>4
<1>4. QED
  BY <1>2, <1>3 DEF AppendImage

LEMMA UnwindMain ==
  ASSUME MainInv, Unwind
  PROVE  MainInv'
<1> DEFINE L == Len(hand)
           f == hand[L]
<1> USE DEF MainInv
<1>1. /\ phase = "unwind" /\ phase' = "unwind"
      /\ hand # <<>>
      /\ L \in Nat \ {0}
      /\ f \in Files
      /\ state' = [state EXCEPT ![f] = "freed"]
      /\ hand' = Front(hand)
      /\ UNCHANGED <<subsystem, files_array, image, parent_file, keyed>>
  BY FrontFacts DEF Unwind, FreeFile, InHand, TypeMain
<1>2. /\ hand' \in Seq(Files)
      /\ Len(hand') = L - 1
      /\ DOMAIN hand' = 1..(L - 1)
      /\ \A i \in 1..(L - 1) : hand'[i] = hand[i]
  BY <1>1, FrontFacts DEF TypeMain
<1>3. TypeMain'
  BY <1>1, <1>2 DEF TypeMain
<1>4. \A i \in 1..(L - 1) : hand[i] \in Files /\ hand[i] # f
  BY <1>1, ElementOfSeq DEF HandOpen, TypeMain
<1>5. HandOpen'
  <2>1. \A i \in 1..(L - 1) :
          state'[hand[i]] = "open" /\ image[hand[i]] \in Names
    BY <1>1, <1>4 DEF HandOpen, TypeMain
  <2>2. \A i \in 2..(L - 1) :
          BackingName[image[hand'[i - 1]]] = image[hand'[i]]
    <3> SUFFICES ASSUME NEW i \in 2..(L - 1)
                 PROVE  BackingName[image[hand'[i - 1]]] = image[hand'[i]]
      OBVIOUS
    <3>1. i \in 1..(L - 1) /\ i - 1 \in 1..(L - 1) /\ i \in 2..L
      BY <1>1
    <3>2. QED
      BY <1>2, <3>1 DEF HandOpen
  <2>3. QED
    BY <1>1, <1>2, <2>1, <2>2 DEF HandOpen
<1>6. HandOfPhase' /\ HandOverArray'
  BY <1>1 DEF HandOfPhase, HandOverArray
<1>7. \A i \in 1..Len(files_array) :
        files_array[i] \in Files /\ files_array[i] # f
  BY <1>1, ElementOfSeq DEF HandOpen, TypeMain
<1>8. ArrayChain'
  BY <1>1, <1>7 DEF ArrayChain, TypeMain
<1>9. ArrayOpen'
  BY <1>1, <1>7 DEF ArrayOpen, TypeMain
<1>10. FreshFiles'
  BY <1>1 DEF FreshFiles, TypeMain
<1>11. NoFileLost'
  <2> SUFFICES ASSUME NEW g \in Files, state'[g] = "open"
               PROVE  g \in ToSet(hand') \cup ToSet(files_array)
    BY <1>1 DEF NoFileLost
  <2>1. g # f /\ state[g] = "open"
    BY <1>1 DEF TypeMain
  <2>2. CASE g \in ToSet(files_array)
    BY <2>2
  <2>3. CASE g \in ToSet(hand)
    <3>1. PICK i \in 1..L : hand[i] = g
      BY <2>3, LenProperties DEF ToSet, TypeMain
    <3>2. i \in DOMAIN hand' /\ hand'[i] = g
      BY <1>1, <1>2, <2>1, <3>1
    <3>3. QED
      BY <3>2 DEF ToSet
  <2>4. QED
    BY <1>1, <2>1, <2>2, <2>3 DEF NoFileLost
<1>12. QED
  BY <1>3, <1>5, <1>6, <1>8, <1>9, <1>10, <1>11

(* The mount handle is freed, by the destroy callback or by main. *)
LEMMA MountHandleFreed ==
  ASSUME MainInv, hand = <<>>, phase' = "ended", files_array' = <<>>,
         UNCHANGED <<subsystem, hand, files>>
  PROVE  MainInv'
<1> USE DEF MainInv, files
<1>1. Len(hand) = 0 /\ Len(files_array') = 0 /\ files_array' \in Seq(Files)
  OBVIOUS
<1>2. TypeMain'
  BY <1>1 DEF TypeMain, Phases
<1>3. HandOpen' /\ HandOfPhase' /\ HandOverArray'
  BY <1>1 DEF HandOpen, HandOfPhase, HandOverArray
<1>4. ArrayChain' /\ ArrayOpen'
  BY <1>1 DEF ArrayChain, ArrayOpen
<1>5. FreshFiles' /\ NoFileLost'
  BY DEF FreshFiles, NoFileLost
<1>6. QED
  BY <1>2, <1>3, <1>4, <1>5

LEMMA UnmountMain ==
  ASSUME MainInv, Unmount
  PROVE  MainInv'
<1> USE DEF MainInv
<1>1. /\ phase = "mounted"
      /\ phase' \in {"close", "ended"}
      /\ UNCHANGED <<subsystem, hand, files_array, files>>
  BY DEF Unmount
<1>2. TypeMain' /\ HandOpen' /\ FreshFiles'
  BY <1>1 DEF TypeMain, HandOpen, FreshFiles, Phases, files
<1>3. HandOfPhase' /\ HandOverArray'
  BY <1>1 DEF HandOfPhase, HandOverArray
<1>4. ArrayChain' /\ ArrayOpen'
  BY <1>1 DEF ArrayChain, ArrayOpen, files
<1>5. NoFileLost'
  BY <1>1 DEF NoFileLost, files
<1>6. QED
  BY <1>2, <1>3, <1>4, <1>5

LEMMA CloseLastMain ==
  ASSUME MainInv, CloseLast
  PROVE  MainInv'
<1> USE DEF MainInv
<1>1. /\ phase = "close"
      /\ phase' \in {"close", "ended"}
      /\ UNCHANGED <<subsystem, hand, files_array, image, parent_file, keyed>>
  BY DEF CloseLast
<1>2. PICK last \in OpenFiles :
        /\ \A j \in OpenFiles : j <= last
        /\ FreeFile(files_array[last])
  BY DEF CloseLast
<1> DEFINE f == files_array[last]
<1>3. DOMAIN files_array = 1..Len(files_array) /\ Len(files_array) \in Nat
  BY LenProperties DEF TypeMain
<1>4. /\ last \in 1..Len(files_array)
      /\ f \in Files
      /\ state' = [state EXCEPT ![f] = "freed"]
      /\ \A j \in 1..Len(files_array) : j > last => state[files_array[j]] # "open"
  <2>1. last \in 1..Len(files_array)
    BY <1>3 DEF OpenFiles
  <2>2. ASSUME NEW j \in 1..Len(files_array), j > last
        PROVE  state[files_array[j]] # "open"
    <3>1. j \notin OpenFiles
      BY <1>2, <1>3, <2>1, <2>2
    <3>2. QED
      BY <1>3, <3>1 DEF OpenFiles
  <2>3. QED
    BY <1>2, <2>1, <2>2, ElementOfSeq DEF FreeFile, TypeMain
<1> HIDE DEF f
<1>5. hand = <<>> /\ Len(hand) = 0
  BY <1>1 DEF HandOfPhase
<1>6. TypeMain'
  BY <1>1, <1>4 DEF TypeMain, Phases
<1>7. HandOpen' /\ HandOfPhase' /\ HandOverArray'
  BY <1>1, <1>5 DEF HandOpen, HandOfPhase, HandOverArray
<1>8. \A i \in 1..Len(files_array) : files_array[i] \in Files
  BY ElementOfSeq DEF TypeMain
<1>9. ArrayChain'
  BY <1>1, <1>4, <1>8 DEF ArrayChain, TypeMain
<1>10. ArrayOpen'
  <2> SUFFICES ASSUME NEW i \in 1..Len(files_array),
                      NEW j \in 1..Len(files_array),
                      i < j, state'[files_array[j]] = "open"
               PROVE  state'[files_array[i]] = "open"
    BY <1>1 DEF ArrayOpen
  <2>1. state[files_array[j]] = "open" /\ files_array[j] # f
    BY <1>4, <1>8 DEF TypeMain
  <2>2. state[files_array[i]] = "open"
    BY <2>1 DEF ArrayOpen
  <2>3. i # last
    BY <1>4, <2>1
  <2>4. files_array[i] # f
    BY <1>4, <2>3 DEF ArrayChain, f
  <2>5. QED
    BY <1>4, <1>8, <2>2, <2>4 DEF TypeMain
<1>11. FreshFiles'
  BY <1>1, <1>4 DEF FreshFiles, TypeMain
<1>12. NoFileLost'
  BY <1>1, <1>4 DEF NoFileLost, TypeMain
<1>13. QED
  BY <1>6, <1>7, <1>9, <1>10, <1>11, <1>12

MainAction ==
  MainStep \/ Unmount \/ CloseLast \/ Destroy

LEMMA MainActionMain ==
  ASSUME MainInv, MainAction
  PROVE  MainInv'
<1>1. CASE \E n \in Names, k \in KeyOptions : MountHandleOpen(n, k)
  BY <1>1, MountHandleOpenMain
<1>2. CASE OpenParent
  BY <1>2, OpenParentMain
<1>3. CASE AppendParent
  BY <1>3, AppendParentMain
<1>4. CASE AppendImage
  BY <1>4, AppendImageMain
<1>5. CASE Unwind
  BY <1>5, UnwindMain
<1>6. CASE GiveUp
  BY <1>6, MountHandleFreed DEF GiveUp
<1>7. CASE Unmount
  BY <1>7, UnmountMain
<1>8. CASE CloseLast
  BY <1>8, CloseLastMain
<1>9. CASE Destroy
  BY <1>9, MountHandleFreed DEF Destroy, MainInv, HandOfPhase
<1>10. QED
  BY <1>1, <1>2, <1>3, <1>4, <1>5, <1>6, <1>7, <1>8, <1>9
     DEF MainAction, MainStep

-----------------------------------------------------------------------------
(* What callbacks know.                                                    *)

Frames == [file : Files, offset : Nat, rest : Nat]

TypeCallbacks ==
  /\ current_offset \in [Files -> Nat]
  /\ writer \in [Files -> Users \cup {NoUser}]
  /\ entry \in [Users -> [open : BOOLEAN, file : Files \cup {NoFile}]]
  /\ call \in [Users -> Calls]
  /\ stack \in [Users -> Seq(Frames)]
  /\ buffer \in [Users -> Seq(Cells)]
  /\ asked \in [Users -> [offset : Nat, count : Nat]]
  /\ total \in [Users -> 0..MaxListed]
  /\ listed \in [Users -> Seq(ListedPaths)]
  /\ status \in [Users -> {"none", "ok", "error"}]

InArray(f) == \E i \in 1..Len(files_array) : files_array[i] = f

(* Callbacks are in progress only while the files are served. *)
BusyWhenMounted == \A u \in Users : call[u] # "idle" => phase = "mounted"

(* The file of an entry is one of those that are served. *)
EntriesServed ==
  phase \notin {"close", "ended"} =>
    \A u \in Users : entry[u].file # NoFile => InArray(entry[u].file)

(* A read is in files of the array, further towards its base with each     *)
(* frame, so in none of them twice; the read of a child has something      *)
(* left to do.                                                             *)
DescendsOf(u) ==
  /\ \A i \in 1..Len(stack[u]) : InArray(stack[u][i].file)
  /\ \A i \in 1..(Len(stack[u]) - 1) : stack[u][i].rest > 0
  /\ \A i, j \in 1..Len(stack[u]), p, q \in 1..Len(files_array) :
       /\ i < j
       /\ files_array[p] = stack[u][i].file
       /\ files_array[q] = stack[u][j].file
       => q < p

(* LocksFollowParents, for one user. *)
LocksOf(u) ==
  LET s == stack[u]
      held == IF call[u] = "grab" THEN Len(s) - 1 ELSE Len(s)
  IN  /\ call[u] \in {"grab", "round"} <=> s # <<>>
      /\ \A i \in 1..(Len(s) - 1) :
           parent_file[s[i].file] = s[i + 1].file
      /\ {f \in Files : writer[f] = u} = {s[i].file : i \in 1..held}

CallbackInv ==
  /\ TypeCallbacks
  /\ BusyWhenMounted
  /\ EntriesServed
  /\ \A u \in Users : DescendsOf(u) /\ LocksOf(u)

IInv == MainInv /\ CallbackInv

LEMMA InitCallbacks == Init => CallbackInv
<1> SUFFICES ASSUME Init PROVE CallbackInv
  OBVIOUS
<1> USE MountConstants DEF Init
<1>1. TypeCallbacks
  BY DEF TypeCallbacks, Calls, NoEntry, NothingAsked
<1>2. BusyWhenMounted /\ EntriesServed
  BY DEF BusyWhenMounted, EntriesServed, NoEntry
<1>3. \A u \in Users : stack[u] = <<>> /\ Len(stack[u]) = 0
  OBVIOUS
<1>4. \A u \in Users : DescendsOf(u)
  BY <1>3 DEF DescendsOf
<1>5. \A u \in Users : LocksOf(u)
  BY <1>3 DEF LocksOf
<1>6. QED
  BY <1>1, <1>2, <1>4, <1>5 DEF CallbackInv

(* What main does: no callback is in progress, then or after.              *)
LEMMA MainActionCallbacks ==
  ASSUME MainInv, CallbackInv, MainAction
  PROVE  CallbackInv'
<1> USE DEF CallbackInv
<1>1. UNCHANGED <<current_offset, writer, callbacks>>
  BY DEF MainAction, MainStep, MountHandleOpen, OpenParent, AppendParent,
         AppendImage, Unwind, GiveUp, Unmount, CloseLast, Destroy
<1>2. \A u \in Users : call[u] = "idle"
  <2>1. CASE phase = "mounted"
    <3>1. Unmount
      BY <2>1 DEF MainAction, MainStep, MountHandleOpen, OpenParent,
                  AppendParent, AppendImage, Unwind, GiveUp, CloseLast, Destroy
    <3>2. QED
      BY <3>1 DEF Unmount, Quiet
  <2>2. QED
    BY <2>1 DEF BusyWhenMounted
<1>3. \A u \in Users : /\ stack[u] = <<>> /\ Len(stack[u]) = 0
                       /\ \A f \in Files : writer[f] # u
  <2> SUFFICES ASSUME NEW u \in Users
               PROVE  /\ stack[u] = <<>> /\ Len(stack[u]) = 0
                      /\ \A f \in Files : writer[f] # u
    OBVIOUS
  <2>1. stack[u] = <<>>
    BY <1>2 DEF LocksOf
  <2>2. QED
    BY <1>2, <2>1 DEF LocksOf
<1>4. TypeCallbacks'
  BY <1>1 DEF TypeCallbacks, callbacks, listing
<1>5. BusyWhenMounted'
  BY <1>1, <1>2 DEF BusyWhenMounted, callbacks
<1>6. EntriesServed'
  <2>1. \/ phase' \in {"close", "ended"}
        \/ /\ phase \notin {"close", "ended"}
           /\ \/ UNCHANGED files_array
              \/ files_array' = Append(files_array, InHand) /\ hand # <<>>
    BY DEF MainAction, MainStep, MountHandleOpen, OpenParent, AppendParent,
           AppendImage, Unwind, GiveUp, Unmount, CloseLast, Destroy,
           MainInv, HandOfPhase
  <2>2. CASE phase' \in {"close", "ended"}
    BY <2>2 DEF EntriesServed
  <2>3. CASE phase \notin {"close", "ended"} /\ UNCHANGED files_array
    BY <1>1, <2>3 DEF EntriesServed, InArray, callbacks
  <2>4. CASE /\ phase \notin {"close", "ended"}
             /\ files_array' = Append(files_array, InHand)
             /\ hand # <<>>
    <3>1. /\ Len(files_array) \in Nat
          /\ Len(files_array') = Len(files_array) + 1
          /\ \A i \in 1..Len(files_array) : files_array'[i] = files_array[i]
      BY <2>4, AppendFacts, FrontFacts, LenProperties
         DEF InHand, MainInv, TypeMain
    <3>2. ASSUME NEW u \in Users, entry[u].file # NoFile
          PROVE  InArray(entry[u].file)'
      <4>1. InArray(entry[u].file)
        BY <2>4, <3>2 DEF EntriesServed
      <4>2. PICK i \in 1..Len(files_array) : files_array[i] = entry[u].file
        BY <4>1 DEF InArray
      <4>3. /\ i \in 1..Len(files_array')
            /\ files_array'[i] = entry'[u].file
        BY <1>1, <3>1, <4>2 DEF callbacks
      <4>4. QED
        BY <4>3 DEF InArray
    <3>3. QED
      BY <1>1, <3>2 DEF EntriesServed, callbacks
  <2>5. QED
    BY <2>1, <2>2, <2>3, <2>4
<1>7. ASSUME NEW u \in Users PROVE DescendsOf(u)'
  BY <1>1, <1>3 DEF DescendsOf, callbacks
<1>8. ASSUME NEW u \in Users PROVE LocksOf(u)'
  BY <1>1, <1>2, <1>3 DEF LocksOf, callbacks
<1>9. QED
  BY <1>4, <1>5, <1>6, <1>7, <1>8

LEMMA MainUnchanged ==
  ASSUME MainInv, UNCHANGED <<main, files>>
  PROVE  MainInv'
<1> USE DEF MainInv, main, files
<1>1. TypeMain'
  BY DEF TypeMain
<1>2. HandOpen'
  BY DEF HandOpen
<1>3. HandOfPhase'
  BY DEF HandOfPhase
<1>4. HandOverArray'
  BY DEF HandOverArray
<1>5. ArrayChain'
  BY DEF ArrayChain
<1>6. ArrayOpen'
  BY DEF ArrayOpen
<1>7. FreshFiles' /\ NoFileLost'
  BY DEF FreshFiles, NoFileLost
<1>8. QED
  BY <1>1, <1>2, <1>3, <1>4, <1>5, <1>6, <1>7

LEMMA DescendsUnchanged ==
  ASSUME NEW v, DescendsOf(v), UNCHANGED files_array, stack'[v] = stack[v]
  PROVE  DescendsOf(v)'
BY DEF DescendsOf, InArray

LEMMA LocksUnchanged ==
  ASSUME NEW v, LocksOf(v), UNCHANGED parent_file, stack'[v] = stack[v],
         call'[v] = call[v],
         {f \in Files : writer'[f] = v} = {f \in Files : writer[f] = v}
  PROVE  LocksOf(v)'
BY DEF LocksOf

(* A step of one user leaves the others alone. *)
LEMMA StepOfUser ==
  ASSUME MainInv, CallbackInv, NEW u \in Users, phase = "mounted",
         UNCHANGED <<main, files>>,
         TypeCallbacks',
         \A v \in Users \ {u} : /\ entry'[v] = entry[v]
                                /\ call'[v] = call[v]
                                /\ stack'[v] = stack[v],
         \A v \in Users \ {u}, f \in Files : writer'[f] = v <=> writer[f] = v,
         entry'[u].file # NoFile => InArray(entry'[u].file),
         DescendsOf(u)',
         LocksOf(u)'
  PROVE  IInv'
<1> USE DEF CallbackInv
<1>1. MainInv'
  BY MainUnchanged
<1>2. phase' = "mounted" /\ UNCHANGED <<files_array, parent_file>>
  BY DEF main, files
<1>3. BusyWhenMounted'
  BY <1>2 DEF BusyWhenMounted
<1>4. EntriesServed'
  BY <1>2 DEF EntriesServed, InArray
<1>5. \A v \in Users : DescendsOf(v)'
  <2> SUFFICES ASSUME NEW v \in Users PROVE DescendsOf(v)'
    OBVIOUS
  <2>1. CASE v # u
    <3>1. stack'[v] = stack[v] /\ DescendsOf(v)
      BY <2>1
    <3>2. QED
      BY <1>2, <3>1, DescendsUnchanged
  <2>2. CASE v = u
    BY <2>2
  <2>3. QED
    BY <2>1, <2>2
<1>6. \A v \in Users \ {u} :
        {f \in Files : writer'[f] = v} = {f \in Files : writer[f] = v}
  OBVIOUS
<1>7. \A v \in Users : LocksOf(v)'
  <2> SUFFICES ASSUME NEW v \in Users PROVE LocksOf(v)'
    OBVIOUS
  <2>1. CASE v # u
    <3>1. /\ stack'[v] = stack[v]
          /\ call'[v] = call[v]
          /\ {f \in Files : writer'[f] = v} = {f \in Files : writer[f] = v}
          /\ LocksOf(v)
      BY <1>6, <2>1
    <3>2. QED
      BY <1>2, <3>1, LocksUnchanged
  <2>2. CASE v = u
    BY <2>2
  <2>3. QED
    BY <2>1, <2>2
<1>8. QED
  BY <1>1, <1>3, <1>4, <1>5, <1>7 DEF IInv

(* A step of a user that is in no read, to another place that is in none. *)
LEMMA StepOutsideReads ==
  ASSUME MainInv, CallbackInv, NEW u \in Users, phase = "mounted",
         UNCHANGED <<main, files, writer, stack>>,
         TypeCallbacks',
         \A v \in Users \ {u} : entry'[v] = entry[v] /\ call'[v] = call[v],
         call[u] \notin {"grab", "round"},
         call'[u] \notin {"grab", "round"},
         entry'[u].file # NoFile => InArray(entry'[u].file)
  PROVE  IInv'
<1> USE DEF CallbackInv
<1>1. stack[u] = <<>> /\ Len(stack[u]) = 0
  BY DEF LocksOf
<1>2. DescendsOf(u)'
  BY <1>1 DEF DescendsOf
<1>3. LocksOf(u)'
  BY <1>1 DEF LocksOf
<1>4. QED
  BY <1>2, <1>3, StepOfUser

LEMMA FileByPathServed ==
  ASSUME MainInv, NEW path, NEW f \in FileByPath(path)
  PROVE  f = NoFile \/ (f \in Files /\ InArray(f))
<1>1. CASE f = NoFile
  BY <1>1
<1>2. CASE f # NoFile
  <2>1. NumberOf(path) \in DOMAIN files_array /\ f = files_array[NumberOf(path)]
    BY <1>2 DEF FileByPath
  <2>2. NumberOf(path) \in 1..Len(files_array)
    BY <2>1, LenProperties DEF MainInv, TypeMain
  <2>3. QED
    BY <2>1, <2>2, ElementOfSeq DEF InArray, MainInv, TypeMain
<1>3. QED
  BY <1>1, <1>2

LEMMA OpenStep ==
  ASSUME IInv, NEW u \in Users, NEW path, Open(u, path)
  PROVE  IInv'
<1> USE DEF IInv, CallbackInv
<1>1. /\ phase = "mounted"
      /\ call[u] = "idle"
      /\ UNCHANGED <<main, files, current_offset, writer, call, stack, buffer,
                     asked, total, listed, status>>
  BY DEF Open, Starts, listing
<1>2. CASE UNCHANGED entry
  <2>1. TypeCallbacks'
    BY <1>1, <1>2 DEF TypeCallbacks
  <2>2. entry[u].file # NoFile => InArray(entry[u].file)
    BY <1>1 DEF EntriesServed
  <2>3. QED
    BY <1>1, <1>2, <2>1, <2>2, StepOutsideReads
<1>3. CASE \E f \in FileByPath(path) : entry' = [entry EXCEPT ![u] = EntryOf(f)]
  <2>1. PICK f \in FileByPath(path) : entry' = [entry EXCEPT ![u] = EntryOf(f)]
    BY <1>3
  <2>2. f = NoFile \/ (f \in Files /\ InArray(f))
    BY FileByPathServed
  <2>3. TypeCallbacks'
    BY <1>1, <2>1, <2>2 DEF TypeCallbacks, EntryOf
  <2>4. entry'[u].file = f /\ \A v \in Users \ {u} : entry'[v] = entry[v]
    BY <2>1 DEF TypeCallbacks, EntryOf
  <2>5. QED
    BY <1>1, <2>2, <2>3, <2>4, StepOutsideReads
<1>4. QED
  BY <1>2, <1>3 DEF Open

LEMMA ReleaseStep ==
  ASSUME IInv, NEW u \in Users, Release(u)
  PROVE  IInv'
<1> USE DEF IInv, CallbackInv
<1>1. /\ phase = "mounted"
      /\ call[u] = "idle"
      /\ entry' = [entry EXCEPT ![u] = NoEntry]
      /\ UNCHANGED <<main, files, current_offset, writer, call, stack, buffer,
                     asked, total, listed, status>>
  BY DEF Release, Starts, listing
<1>2. TypeCallbacks'
  BY <1>1 DEF TypeCallbacks, NoEntry
<1>3. entry'[u].file = NoFile /\ \A v \in Users \ {u} : entry'[v] = entry[v]
  BY <1>1 DEF TypeCallbacks, NoEntry
<1>4. QED
  BY <1>1, <1>2, <1>3, StepOutsideReads

(* The steps that change what is listed and answered. *)
LEMMA AnswerStep ==
  ASSUME IInv, NEW u \in Users, phase = "mounted",
         call[u] \notin {"grab", "round"},
         NEW label \in {"idle", "readdir", "answer"},
         call' = [call EXCEPT ![u] = label],
         buffer' \in [Users -> Seq(Cells)],
         asked' \in [Users -> [offset : Nat, count : Nat]],
         total' \in [Users -> 0..MaxListed],
         listed' \in [Users -> Seq(ListedPaths)],
         status' \in [Users -> {"none", "ok", "error"}],
         UNCHANGED <<main, files, current_offset, writer, entry, stack>>
  PROVE  IInv'
<1> USE DEF IInv, CallbackInv
<1>1. TypeCallbacks'
  BY DEF TypeCallbacks, Calls
<1>2. call'[u] = label /\ \A v \in Users \ {u} : call'[v] = call[v]
  BY DEF TypeCallbacks
<1>3. entry[u].file # NoFile => InArray(entry[u].file)
  BY DEF EntriesServed
<1>4. QED
  BY <1>1, <1>2, <1>3, StepOutsideReads

LEMMA GetAttrStep ==
  ASSUME IInv, NEW u \in Users, NEW path, GetAttr(u, path)
  PROVE  IInv'
<1>1. /\ phase = "mounted"
      /\ call[u] = "idle"
      /\ call' = [call EXCEPT ![u] = "answer"]
      /\ UNCHANGED <<main, files, current_offset, writer, entry, stack, buffer,
                     asked, total, listed>>
      /\ \E x \in {"ok", "error"} : status' = [status EXCEPT ![u] = x]
  BY DEF GetAttr, Starts, Answer, Goto, listing
<1>2. status' \in [Users -> {"none", "ok", "error"}]
  BY <1>1 DEF IInv, CallbackInv, TypeCallbacks
<1>3. QED
  BY <1>1, <1>2, AnswerStep DEF IInv, CallbackInv, TypeCallbacks

LEMMA ListStep ==
  ASSUME IInv, NEW u \in Users, phase = "mounted", call[u] = "idle",
         NEW f, List(u, f),
         UNCHANGED <<main, files, current_offset, writer, entry, stack, buffer,
                     asked, listed>>
  PROVE  IInv'
<1> USE DEF IInv, CallbackInv, TypeCallbacks
<1> DEFINE n == NumberOfSubFileEntries(f)
<1>1. n \in Nat /\ MaxListed \in Nat
  BY MountConstants, LenProperties DEF NumberOfSubFileEntries, MainInv, TypeMain
<1>2. CASE n > MaxListed
  BY <1>2, AnswerStep DEF List, Answer, Goto
<1>3. CASE ~(n > MaxListed)
  <2>1. /\ call' = [call EXCEPT ![u] = "readdir"]
        /\ total' = [total EXCEPT ![u] = n]
        /\ UNCHANGED status
    BY <1>3 DEF List, Goto
  <2>2. n \in 0..MaxListed
    BY <1>1, <1>3
  <2>3. total' \in [Users -> 0..MaxListed]
    BY <2>1, <2>2
  <2>4. QED
    BY <2>1, <2>3, AnswerStep
<1>4. QED
  BY <1>2, <1>3

LEMMA ReadDirStep ==
  ASSUME IInv, NEW u \in Users, ReadDir(u)
  PROVE  IInv'
BY ListStep DEF ReadDir, Starts

LEMMA FindFilesStep ==
  ASSUME IInv, NEW u \in Users, NEW path, FindFiles(u, path)
  PROVE  IInv'
<1>1. /\ phase = "mounted"
      /\ call[u] = "idle"
      /\ UNCHANGED <<main, files, current_offset, writer, entry, stack, buffer,
                     asked, listed>>
  BY DEF FindFiles, Starts
<1>2. CASE \E f \in FileByPath(path) : List(u, f)
  BY <1>1, <1>2, ListStep
<1>3. CASE Answer(u, "error") /\ UNCHANGED total
  BY <1>1, <1>3, AnswerStep
     DEF Answer, Goto, IInv, CallbackInv, TypeCallbacks
<1>4. QED
  BY <1>2, <1>3 DEF FindFiles

LEMMA ReadDirEntryStep ==
  ASSUME IInv, NEW u \in Users, ReadDirEntry(u)
  PROVE  IInv'
<1> USE DEF IInv, CallbackInv, TypeCallbacks
<1> DEFINE i == Len(listed[u]) + 1
<1>1. /\ phase = "mounted"
      /\ call[u] = "readdir"
      /\ UNCHANGED <<main, files, current_offset, writer, entry, stack, buffer,
                     asked, total>>
  BY DEF ReadDirEntry, BusyWhenMounted
<1>2. CASE /\ i <= total[u]
           /\ listed' = [listed EXCEPT ![u] = Append(@, PathFromFileIndex(i - 1))]
           /\ UNCHANGED <<call, status>>
  <2>1. i \in 1..MaxListed
    BY <1>2, LenProperties, MountConstants
  <2>2. PathFromFileIndex(i - 1) \in ListedPaths
    BY <2>1 DEF ListedPaths
  <2>3. listed' \in [Users -> Seq(ListedPaths)]
    BY <1>2, <2>2, AppendFacts
  <2>4. call' = [call EXCEPT ![u] = "readdir"]
    BY <1>1, <1>2
  <2>5. QED
    BY <1>1, <1>2, <2>3, <2>4, AnswerStep
<1>3. CASE Answer(u, "ok") /\ UNCHANGED listed
  BY <1>1, <1>3, AnswerStep DEF Answer, Goto
<1>4. QED
  BY <1>2, <1>3 DEF ReadDirEntry

LEMMA ReturnStep ==
  ASSUME IInv, NEW u \in Users, Return(u)
  PROVE  IInv'
<1> USE DEF IInv, CallbackInv, TypeCallbacks
<1>1. phase = "mounted" /\ call[u] = "answer"
  BY DEF Return, BusyWhenMounted
<1>2. 0 \in 0..MaxListed
  BY MountConstants
<1>3. /\ buffer' \in [Users -> Seq(Cells)]
      /\ listed' \in [Users -> Seq(ListedPaths)]
  BY EmptySeq DEF Return
<1>4. /\ asked' \in [Users -> [offset : Nat, count : Nat]]
      /\ total' \in [Users -> 0..MaxListed]
      /\ status' \in [Users -> {"none", "ok", "error"}]
  BY <1>2 DEF Return, NothingAsked
<1>5. QED
  BY <1>1, <1>3, <1>4, AnswerStep DEF Return, Goto

-----------------------------------------------------------------------------
(* The steps of a read.                                                    *)

LEMMA StackFacts ==
  ASSUME IInv, NEW u \in Users, call[u] \in {"grab", "round"}
  PROVE  /\ phase = "mounted"
         /\ stack[u] \in Seq(Frames)
         /\ stack[u] # <<>>
         /\ Len(stack[u]) \in Nat \ {0}
         /\ \A i \in 1..Len(stack[u]) : stack[u][i] \in Frames
         /\ Top(u) = stack[u][Len(stack[u])]
         /\ Top(u) \in Frames
         /\ entry[u].file # NoFile => InArray(entry[u].file)
         /\ \A i \in 1..(Len(stack[u]) - 1) :
              stack[u][i].file # stack[u][Len(stack[u])].file
<1> USE DEF IInv, CallbackInv, TypeCallbacks
<1>1. phase = "mounted" /\ stack[u] # <<>> /\ stack[u] \in Seq(Frames)
  BY DEF BusyWhenMounted, LocksOf
<1>2. /\ Len(stack[u]) \in Nat \ {0}
      /\ \A i \in 1..Len(stack[u]) : stack[u][i] \in Frames
  BY <1>1, EmptySeq, ElementOfSeq
<1>3. Top(u) = stack[u][Len(stack[u])] /\ Top(u) \in Frames
  BY <1>2 DEF Top, Last
<1>4. entry[u].file # NoFile => InArray(entry[u].file)
  BY <1>1 DEF EntriesServed
<1>5. ASSUME NEW i \in 1..(Len(stack[u]) - 1)
      PROVE  stack[u][i].file # stack[u][Len(stack[u])].file
  <2>1. i \in 1..Len(stack[u]) /\ i < Len(stack[u])
    BY <1>2
  <2>2. Len(stack[u]) \in 1..Len(stack[u])
    BY <1>2
  <2>3. DescendsOf(u)
    OBVIOUS
  <2>4. PICK p \in 1..Len(files_array) : files_array[p] = stack[u][i].file
    BY <2>1, <2>3 DEF DescendsOf, InArray
  <2>5. stack[u][i].file = stack[u][Len(stack[u])].file => p < p
    BY <2>1, <2>2, <2>3, <2>4 DEF DescendsOf
  <2>6. p \in Nat
    OBVIOUS
  <2>7. QED
    BY <2>5, <2>6
<1>6. QED
  BY <1>1, <1>2, <1>3, <1>4, <1>5

LEMMA CellTypes ==
  ASSUME IInv, NEW f \in Files
  PROVE  /\ ZeroCell \in Cells
         /\ DataCell(image[f], current_offset[f]) \in Cells
BY DEF Cells, ZeroCell, DataCell, IInv, MainInv, CallbackInv, TypeMain,
       TypeCallbacks

(* A stack that is a part of the one before, or all of it. *)
LEMMA DescendsKept ==
  ASSUME IInv, NEW u \in Users, UNCHANGED files_array,
         Len(stack[u]) \in Nat, Len(stack'[u]) \in 0..Len(stack[u]),
         \A i \in 1..Len(stack'[u]) : stack'[u][i].file = stack[u][i].file,
         \A i \in 1..(Len(stack'[u]) - 1) : stack'[u][i].rest = stack[u][i].rest
  PROVE  DescendsOf(u)'
<1>1. DescendsOf(u)
  BY DEF IInv, CallbackInv
<1> DEFINE L == Len(stack'[u])
<1>2. L \in Nat /\ L <= Len(stack[u])
  OBVIOUS
<1>3. \A i \in 1..L : i \in 1..Len(stack[u])
  BY <1>2
<1>4. \A i \in 1..(L - 1) : i \in 1..(Len(stack[u]) - 1)
  BY <1>2
<1>5. ASSUME NEW i \in 1..L
      PROVE  \E p \in 1..Len(files_array) : files_array[p] = stack'[u][i].file
  BY <1>1, <1>3 DEF DescendsOf, InArray
<1>6. \A i \in 1..(L - 1) : stack'[u][i].rest > 0
  BY <1>1, <1>4 DEF DescendsOf
<1>7. ASSUME NEW i \in 1..L, NEW j \in 1..L,
             NEW p \in 1..Len(files_array), NEW q \in 1..Len(files_array),
             i < j, files_array[p] = stack'[u][i].file,
             files_array[q] = stack'[u][j].file
      PROVE  q < p
  BY <1>1, <1>3, <1>7 DEF DescendsOf
<1>8. QED
  BY <1>5, <1>6, <1>7 DEF DescendsOf, InArray

LEMMA ReadStep ==
  ASSUME IInv, NEW u \in Users, NEW offset \in Nat, NEW count \in Nat,
         Read(u, offset, count)
  PROVE  IInv'
<1> USE DEF IInv, CallbackInv
<1>1. /\ phase = "mounted"
      /\ call[u] = "idle"
      /\ asked' = [asked EXCEPT ![u] = [offset |-> offset, count |-> count]]
      /\ UNCHANGED <<main, files, current_offset, writer, entry, buffer, total,
                     listed>>
  BY DEF Read, Starts, listing
<1>2. asked' \in [Users -> [offset : Nat, count : Nat]]
  BY <1>1 DEF TypeCallbacks
<1>3. CASE entry[u].file = NoFile
  <2>1. /\ call' = [call EXCEPT ![u] = "answer"]
        /\ status' = [status EXCEPT ![u] = "error"]
        /\ UNCHANGED stack
    BY <1>3 DEF Read, Answer, Goto
  <2>2. /\ status' \in [Users -> {"none", "ok", "error"}]
        /\ buffer' \in [Users -> Seq(Cells)]
        /\ total' \in [Users -> 0..MaxListed]
        /\ listed' \in [Users -> Seq(ListedPaths)]
    BY <1>1, <2>1 DEF TypeCallbacks
  <2>3. QED
    BY <1>1, <1>2, <2>1, <2>2, AnswerStep
<1>4. CASE entry[u].file # NoFile
  <2> DEFINE f == entry[u].file
             frame == Frame(f, offset, count)
  <2>1. f \in Files /\ InArray(f)
    BY <1>1, <1>4 DEF EntriesServed, TypeCallbacks
  <2>2. frame \in Frames /\ frame.file = f
    BY <2>1 DEF Frame, Frames
  <2>3. /\ call' = [call EXCEPT ![u] = "grab"]
        /\ stack' = [stack EXCEPT ![u] = <<frame>>]
        /\ UNCHANGED status
    BY <1>4 DEF Read, Goto
  <2> HIDE DEF f, frame
  <2>4. /\ call'[u] = "grab"
        /\ stack'[u] = <<frame>>
        /\ Len(stack'[u]) = 1
        /\ stack'[u][1] = frame
        /\ \A v \in Users \ {u} : call'[v] = call[v] /\ stack'[v] = stack[v]
    BY <2>3 DEF TypeCallbacks
  <2>5. TypeCallbacks'
    BY <1>1, <1>2, <2>2, <2>3 DEF TypeCallbacks, Calls
  <2>6. \E p \in 1..Len(files_array') : files_array'[p] = frame.file
    BY <1>1, <2>1, <2>2 DEF InArray, main
  <2>7. DescendsOf(u)'
    <3>1. \A i \in 1..Len(stack'[u]) : i = 1
      BY <2>4
    <3>2. \A i \in 1..(Len(stack'[u]) - 1) : FALSE
      BY <2>4
    <3>3. \A i, j \in 1..Len(stack'[u]) : ~(i < j)
      BY <2>4
    <3>4. \A i \in 1..Len(stack'[u]) : stack'[u][i] = frame
      BY <2>4, <3>1
    <3>5. QED
      BY <2>6, <3>2, <3>3, <3>4 DEF DescendsOf, InArray
  <2>8. LocksOf(u)'
    <3>1. stack[u] = <<>> /\ Len(stack[u]) = 0
      BY <1>1 DEF LocksOf
    <3>2. {g \in Files : writer[g] = u} = {}
      BY <1>1, <3>1 DEF LocksOf
    <3>3. QED
      BY <1>1, <2>4, <3>2 DEF LocksOf
  <2>9. QED
    BY <1>1, <2>1, <2>4, <2>5, <2>7, <2>8, StepOfUser DEF f
<1>5. QED
  BY <1>3, <1>4

LEMMA GrabStep ==
  ASSUME IInv, NEW u \in Users, Grab(u)
  PROVE  IInv'
<1> DEFINE L == Len(stack[u])
           f == stack[u][L].file
<1> USE DEF IInv, CallbackInv
<1>1. call[u] = "grab"
  BY DEF Grab
<1>2. /\ phase = "mounted"
      /\ L \in Nat \ {0}
      /\ stack[u] # <<>>
      /\ Top(u) = stack[u][L]
      /\ Top(u) \in Frames
      /\ f \in Files
      /\ entry[u].file # NoFile => InArray(entry[u].file)
  BY <1>1, StackFacts DEF Frames
<1>3. /\ writer[f] = NoUser
      /\ writer' = [writer EXCEPT ![f] = u]
      /\ current_offset' = [current_offset EXCEPT ![f] = Top(u).offset]
      /\ call' = [call EXCEPT ![u] = "round"]
      /\ UNCHANGED <<main, files, entry, stack, buffer, asked, total, listed,
                     status>>
  BY <1>2 DEF Grab, Goto, listing
<1>4. TypeCallbacks'
  BY <1>2, <1>3 DEF TypeCallbacks, Calls, Frames
<1>5. DescendsOf(u)'
  BY <1>2, <1>3, DescendsKept DEF main
<1>6. call'[u] = "round" /\ \A v \in Users \ {u} : call'[v] = call[v]
  BY <1>3 DEF TypeCallbacks
<1>7. \A v \in Users \ {u}, g \in Files : writer'[g] = v <=> writer[g] = v
  BY <1>2, <1>3, MountConstants DEF TypeCallbacks
<1>8. LocksOf(u)'
  <2>1. {g \in Files : writer[g] = u} = {stack[u][i].file : i \in 1..(L - 1)}
    BY <1>1 DEF LocksOf
  <2>2. {g \in Files : writer'[g] = u} = {g \in Files : writer[g] = u} \cup {f}
    BY <1>2, <1>3 DEF TypeCallbacks
  <2>3. 1..L = (1..(L - 1)) \cup {L}
    BY <1>2
  <2>4. {stack[u][i].file : i \in 1..L}
          = {stack[u][i].file : i \in 1..(L - 1)} \cup {f}
    BY <2>3
  <2>5. {g \in Files : writer'[g] = u} = {stack'[u][i].file : i \in 1..Len(stack'[u])}
    BY <1>3, <2>1, <2>2, <2>4
  <2>6. \A i \in 1..(L - 1) : parent_file[stack[u][i].file] = stack[u][i + 1].file
    BY DEF LocksOf
  <2>7. QED
    BY <1>2, <1>3, <1>6, <2>5, <2>6 DEF LocksOf, files
<1>9. QED
  BY <1>2, <1>3, <1>4, <1>5, <1>6, <1>7, <1>8, StepOfUser

LEMMA RoundOwnStep ==
  ASSUME IInv, NEW u \in Users, RoundOwn(u)
  PROVE  IInv'
<1> DEFINE s == stack[u]
           L == Len(s)
           f == s[L].file
           top == [s[L] EXCEPT !.rest = @ - 1]
           t == Append(Front(s), top)
<1> USE DEF IInv, CallbackInv
<1>1. call[u] = "round"
  BY DEF RoundOwn
<1>2. /\ phase = "mounted"
      /\ s \in Seq(Frames)
      /\ L \in Nat \ {0}
      /\ s # <<>>
      /\ Top(u) = s[L]
      /\ s[L] \in Frames
      /\ f \in Files
      /\ entry[u].file # NoFile => InArray(entry[u].file)
  BY <1>1, StackFacts DEF Frames
<1>3. s[L].rest # 0
  BY <1>2 DEF RoundOwn, LoopEnds
<1>4. top \in Frames /\ top.file = f
  BY <1>2, <1>3 DEF Frames
<1>5. /\ t \in Seq(Frames)
      /\ Len(t) = L
      /\ t # <<>>
      /\ \A i \in 1..(L - 1) : t[i] = s[i]
      /\ t[L] = top
  <2>1. /\ Front(s) \in Seq(Frames)
        /\ Len(Front(s)) = L - 1
        /\ \A i \in 1..(L - 1) : Front(s)[i] = s[i]
    BY <1>2, FrontFacts
  <2>2. L - 1 + 1 = L
    BY <1>2
  <2>3. QED
    BY <1>4, <2>1, <2>2, AppendFacts
<1>6. \E cell \in Cells : buffer' = [buffer EXCEPT ![u] = Append(@, cell)]
  BY <1>2, CellTypes DEF RoundOwn
<1>7. /\ current_offset' = [current_offset EXCEPT ![f] = @ + 1]
      /\ stack' = [stack EXCEPT ![u] = t]
      /\ UNCHANGED <<main, files, writer, entry, call, asked, total, listed,
                     status>>
  BY <1>2 DEF RoundOwn, Replace, listing
<1> HIDE DEF t, top
<1>8. TypeCallbacks'
  <2>1. buffer' \in [Users -> Seq(Cells)]
    BY <1>6, AppendFacts DEF TypeCallbacks
  <2>2. current_offset' \in [Files -> Nat]
    BY <1>2, <1>7 DEF TypeCallbacks
  <2>3. stack' \in [Users -> Seq(Frames)]
    BY <1>5, <1>7 DEF TypeCallbacks
  <2>4. QED
    BY <1>7, <2>1, <2>2, <2>3 DEF TypeCallbacks
<1>9. stack'[u] = t /\ \A v \in Users \ {u} : stack'[v] = stack[v]
  BY <1>7 DEF TypeCallbacks
<1>10. \A i \in 1..L : t[i].file = s[i].file
  BY <1>2, <1>4, <1>5
<1>11. DescendsOf(u)'
  BY <1>2, <1>5, <1>7, <1>9, <1>10, DescendsKept DEF main
<1>12. LocksOf(u)'
  <2>1. \A i \in 1..(L - 1) : parent_file[s[i].file] = s[i + 1].file
    BY DEF LocksOf
  <2>2. \A i \in 1..(L - 1) : i \in 1..L /\ i + 1 \in 1..L
    BY <1>2
  <2>3. \A i \in 1..(L - 1) : parent_file[t[i].file] = t[i + 1].file
    BY <1>10, <2>1, <2>2
  <2>4. {g \in Files : writer[g] = u} = {s[i].file : i \in 1..L}
    BY <1>1 DEF LocksOf
  <2>5. {g \in Files : writer[g] = u} = {t[i].file : i \in 1..L}
    BY <1>10, <2>4
  <2>6. QED
    BY <1>1, <1>5, <1>7, <1>9, <2>3, <2>5 DEF LocksOf, files
<1>13. QED
  BY <1>2, <1>7, <1>8, <1>9, <1>11, <1>12, StepOfUser

LEMMA RoundParentStep ==
  ASSUME IInv, NEW u \in Users, RoundParent(u)
  PROVE  IInv'
<1> DEFINE s == stack[u]
           L == Len(s)
           f == s[L].file
           frame == Frame(parent_file[f], current_offset[f], 1)
           t == Append(s, frame)
<1> USE DEF IInv, CallbackInv
<1>1. call[u] = "round"
  BY DEF RoundParent
<1>2. /\ phase = "mounted"
      /\ s \in Seq(Frames)
      /\ L \in Nat \ {0}
      /\ s # <<>>
      /\ Top(u) = s[L]
      /\ \A i \in 1..L : s[i] \in Frames
      /\ f \in Files
      /\ entry[u].file # NoFile => InArray(entry[u].file)
  BY <1>1, StackFacts DEF Frames
<1>3. /\ s[L].rest # 0
      /\ parent_file[f] # NoFile
      /\ stack' = [stack EXCEPT ![u] = t]
      /\ call' = [call EXCEPT ![u] = "grab"]
      /\ UNCHANGED <<main, files, current_offset, writer, entry, buffer, asked,
                     total, listed, status>>
  BY <1>2 DEF RoundParent, LoopEnds, Goto, listing
<1>4. /\ parent_file[f] \in Files
      /\ frame \in Frames
      /\ frame.file = parent_file[f]
  BY <1>2, <1>3 DEF MainInv, TypeMain, TypeCallbacks, Frame, Frames
<1>5. /\ t \in Seq(Frames)
      /\ Len(t) = L + 1
      /\ t # <<>>
      /\ \A i \in 1..L : t[i] = s[i]
      /\ t[L + 1] = frame
  BY <1>2, <1>4, AppendFacts
<1> HIDE DEF t, frame
<1>6. /\ stack'[u] = t
      /\ call'[u] = "grab"
      /\ \A v \in Users \ {u} : stack'[v] = stack[v] /\ call'[v] = call[v]
  BY <1>3 DEF TypeCallbacks
<1>7. TypeCallbacks'
  <2>1. stack' \in [Users -> Seq(Frames)]
    BY <1>3, <1>5 DEF TypeCallbacks
  <2>2. call' \in [Users -> Calls]
    BY <1>3 DEF TypeCallbacks, Calls
  <2>3. QED
    BY <1>3, <2>1, <2>2 DEF TypeCallbacks
<1>8. DescendsOf(u)
  OBVIOUS
<1>9. PICK k \in 1..Len(files_array) : files_array[k] = f
  <2>1. L \in 1..L
    BY <1>2
  <2>2. QED
    BY <1>8, <2>1 DEF DescendsOf, InArray
<1>10. /\ k - 1 \in 1..Len(files_array)
       /\ files_array[k - 1] = parent_file[f]
  <2>1. Len(files_array) \in Nat
    BY LenProperties DEF MainInv, TypeMain
  <2>2. k # 1
    <3>1. files_array # <<>>
      BY <1>2 DEF MainInv, HandOfPhase
    <3>2. parent_file[files_array[1]] = NoFile
      BY <3>1 DEF MainInv, ArrayChain
    <3>3. QED
      BY <1>3, <1>9, <3>2
  <2>3. k \in 2..Len(files_array) /\ k - 1 \in 1..Len(files_array)
    BY <2>1, <2>2
  <2>4. parent_file[files_array[k]] = files_array[k - 1]
    BY <2>3 DEF MainInv, ArrayChain
  <2>5. QED
    BY <1>9, <2>3, <2>4
<1>11. DescendsOf(u)'
  <2>1. ASSUME NEW i \in 1..(L + 1)
        PROVE  \E p \in 1..Len(files_array) : files_array[p] = t[i].file
    <3>1. CASE i = L + 1
      BY <1>4, <1>5, <1>10, <3>1
    <3>2. CASE i \in 1..L
      BY <1>5, <1>8, <3>2 DEF DescendsOf, InArray
    <3>3. QED
      BY <1>2, <3>1, <3>2
  <2>2. ASSUME NEW i \in 1..L
        PROVE  t[i].rest > 0
    <3>1. CASE i = L
      <4>1. s[L].rest \in Nat \ {0} /\ t[L] = s[L]
        BY <1>2, <1>3, <1>5, <3>1 DEF Frames
      <4>2. QED
        BY <3>1, <4>1
    <3>2. CASE i # L
      <4>1. i \in 1..(L - 1)
        BY <1>2, <3>2
      <4>2. QED
        BY <1>5, <1>8, <4>1 DEF DescendsOf
    <3>3. QED
      BY <3>1, <3>2
  <2>3. ASSUME NEW i \in 1..(L + 1), NEW j \in 1..(L + 1),
               NEW p \in 1..Len(files_array), NEW q \in 1..Len(files_array),
               i < j, files_array[p] = t[i].file, files_array[q] = t[j].file
        PROVE  q < p
    <3>1. i \in 1..L /\ t[i] = s[i]
      BY <1>2, <1>5, <2>3
    <3>2. CASE j \in 1..L
      BY <1>5, <1>8, <2>3, <3>1, <3>2 DEF DescendsOf
    <3>3. CASE j = L + 1
      <4>1. files_array[q] = files_array[k - 1]
        BY <1>4, <1>5, <1>10, <2>3, <3>3
      <4>2. q = k - 1
        BY <1>10, <4>1 DEF MainInv, ArrayChain
      <4>3. CASE i = L
        <5>1. files_array[p] = files_array[k]
          BY <1>9, <2>3, <3>1, <4>3
        <5>2. p = k
          BY <1>9, <5>1 DEF MainInv, ArrayChain
        <5>3. QED
          BY <4>2, <5>2
      <4>4. CASE i # L
        <5>1. i < L /\ L \in 1..L
          BY <1>2, <3>1, <4>4
        <5>2. k < p
          BY <1>8, <1>9, <2>3, <3>1, <5>1 DEF DescendsOf
        <5>3. QED
          BY <4>2, <5>2
      <4>5. QED
        BY <4>3, <4>4
    <3>4. QED
      BY <1>2, <3>2, <3>3
  <2>4. Len(t) - 1 = L
    BY <1>2, <1>5
  <2>5. files_array' = files_array
    BY <1>3 DEF main
  <2>6. QED
    BY <1>5, <1>6, <2>1, <2>2, <2>3, <2>4, <2>5 DEF DescendsOf, InArray
<1>12. LocksOf(u)'
  <2>1. Len(t) - 1 = L
    BY <1>2, <1>5
  <2>2. {g \in Files : writer[g] = u} = {s[i].file : i \in 1..L}
    BY <1>1 DEF LocksOf
  <2>3. {g \in Files : writer[g] = u} = {t[i].file : i \in 1..L}
    BY <1>5, <2>2
  <2>4. ASSUME NEW i \in 1..L
        PROVE  parent_file[t[i].file] = t[i + 1].file
    <3>1. CASE i = L
      <4>1. t[i].file = f
        BY <1>5, <3>1
      <4>2. t[i + 1].file = parent_file[f]
        BY <1>4, <1>5, <3>1
      <4>3. QED
        BY <4>1, <4>2
    <3>2. CASE i # L
      <4>1. i \in 1..(L - 1) /\ i + 1 \in 1..L
        BY <1>2, <3>2
      <4>2. parent_file[s[i].file] = s[i + 1].file
        BY <4>1 DEF LocksOf
      <4>3. QED
        BY <1>5, <4>1, <4>2
    <3>3. QED
      BY <3>1, <3>2
  <2>5. QED
    BY <1>3, <1>5, <1>6, <2>1, <2>3, <2>4 DEF LocksOf, files
<1>13. QED
  BY <1>2, <1>3, <1>6, <1>7, <1>11, <1>12, StepOfUser

(* A read is given up in the middle, with all the locks it has. *)
LEMMA AbandonStep ==
  ASSUME IInv, NEW u \in Users, call[u] = "round", Abandon(u)
  PROVE  IInv'
<1> USE DEF IInv, CallbackInv
<1>1. phase = "mounted" /\ (entry[u].file # NoFile => InArray(entry[u].file))
  BY StackFacts
<1>2. /\ writer' = [f \in Files |-> IF writer[f] = u THEN NoUser ELSE writer[f]]
      /\ stack' = [stack EXCEPT ![u] = <<>>]
      /\ call' = [call EXCEPT ![u] = "answer"]
      /\ status' = [status EXCEPT ![u] = "error"]
      /\ UNCHANGED <<main, files, current_offset, entry, buffer, asked, total,
                     listed>>
  BY DEF Abandon, Answer, Goto, listing
<1>3. /\ stack'[u] = <<>> /\ Len(stack'[u]) = 0
      /\ call'[u] = "answer"
      /\ \A v \in Users \ {u} : stack'[v] = stack[v] /\ call'[v] = call[v]
  BY <1>2 DEF TypeCallbacks
<1>4. TypeCallbacks'
  BY <1>2 DEF TypeCallbacks, Calls
<1>5. \A v \in Users \ {u}, f \in Files : writer'[f] = v <=> writer[f] = v
  BY <1>2, MountConstants
<1>6. \A f \in Files : writer'[f] # u
  BY <1>2, MountConstants
<1>7. DescendsOf(u)'
  BY <1>3 DEF DescendsOf
<1>8. LocksOf(u)'
  BY <1>3, <1>6 DEF LocksOf
<1>9. QED
  BY <1>1, <1>2, <1>3, <1>4, <1>5, <1>7, <1>8, StepOfUser

LEMMA ParentReturnsStep ==
  ASSUME IInv, NEW u \in Users, ParentReturns(u)
  PROVE  IInv'
<1> DEFINE s == stack[u]
           L == Len(s)
           f == s[L].file
           child == s[L - 1]
           top == [child EXCEPT !.rest = @ - 1]
           t == Append(Front(Front(s)), top)
<1> USE DEF IInv, CallbackInv
<1>1. call[u] = "round" /\ L > 1
  BY DEF ParentReturns
<1>2. /\ phase = "mounted"
      /\ s \in Seq(Frames)
      /\ L \in Nat \ {0}
      /\ s # <<>>
      /\ Top(u) = s[L]
      /\ \A i \in 1..L : s[i] \in Frames
      /\ f \in Files
      /\ entry[u].file # NoFile => InArray(entry[u].file)
      /\ \A i \in 1..(L - 1) : s[i].file # f
  BY <1>1, StackFacts DEF Frames
<1>3. L - 1 \in 1..L /\ L - 1 \in 1..(L - 1) /\ L - 1 \in Nat \ {0}
  BY <1>1, <1>2
<1>4. /\ writer' = [writer EXCEPT ![f] = NoUser]
      /\ current_offset' = [current_offset EXCEPT ![child.file] = @ + 1]
      /\ stack' = [stack EXCEPT ![u] = t]
      /\ UNCHANGED <<main, files, entry, call, buffer, asked, total, listed,
                     status>>
  BY <1>2 DEF ParentReturns, listing
<1>5. DescendsOf(u) /\ LocksOf(u)
  OBVIOUS
<1>6. child \in Frames /\ top \in Frames /\ top.file = child.file
  <2>1. child \in Frames
    BY <1>2, <1>3
  <2>2. child.rest > 0
    BY <1>3, <1>5 DEF DescendsOf
  <2>3. QED
    BY <2>1, <2>2 DEF Frames
<1>7. /\ t \in Seq(Frames)
      /\ Len(t) = L - 1
      /\ t # <<>>
      /\ \A i \in 1..(L - 2) : t[i] = s[i]
      /\ t[L - 1] = top
  <2>1. /\ Front(s) \in Seq(Frames)
        /\ Len(Front(s)) = L - 1
        /\ \A i \in 1..(L - 1) : Front(s)[i] = s[i]
    BY <1>2, FrontFacts
  <2>2. Front(s) # <<>>
    BY <1>3, <2>1
  <2>3. /\ Front(Front(s)) \in Seq(Frames)
        /\ Len(Front(Front(s))) = (L - 1) - 1
        /\ \A i \in 1..((L - 1) - 1) : Front(Front(s))[i] = Front(s)[i]
    BY <2>1, <2>2, FrontFacts
  <2>4. (L - 1) - 1 = L - 2 /\ (L - 2) + 1 = L - 1
    BY <1>2
  <2>5. \A i \in 1..(L - 2) : i \in 1..(L - 1)
    BY <1>2
  <2>6. \A i \in 1..(L - 2) : Front(Front(s))[i] = s[i]
    BY <2>1, <2>3, <2>4, <2>5
  <2>7. /\ Len(Front(Front(s))) = L - 2
        /\ Front(Front(s)) \in Seq(Frames)
    BY <2>3, <2>4
  <2>8. QED
    BY <1>6, <2>4, <2>6, <2>7, AppendFacts
<1> HIDE DEF t, top
<1>8. stack'[u] = t /\ \A v \in Users \ {u} : stack'[v] = stack[v]
  BY <1>4 DEF TypeCallbacks
<1>9. TypeCallbacks'
  <2>1. stack' \in [Users -> Seq(Frames)]
    BY <1>4, <1>7 DEF TypeCallbacks
  <2>2. child.file \in Files
    BY <1>6 DEF Frames
  <2>3. current_offset' \in [Files -> Nat]
    BY <1>4, <2>2 DEF TypeCallbacks
  <2>4. writer' \in [Files -> Users \cup {NoUser}]
    BY <1>4 DEF TypeCallbacks
  <2>5. QED
    BY <1>4, <2>1, <2>3, <2>4 DEF TypeCallbacks
<1>10. \A i \in 1..(L - 1) : t[i].file = s[i].file
  <2> SUFFICES ASSUME NEW i \in 1..(L - 1) PROVE t[i].file = s[i].file
    OBVIOUS
  <2>1. CASE i = L - 1
    BY <1>6, <1>7, <2>1
  <2>2. CASE i # L - 1
    <3>1. i \in 1..(L - 2)
      BY <1>2, <2>2
    <3>2. QED
      BY <1>7, <3>1
  <2>3. QED
    BY <2>1, <2>2
<1>11. DescendsOf(u)'
  <2>1. Len(stack'[u]) - 1 = L - 2 /\ Len(stack'[u]) \in 0..L
    BY <1>2, <1>3, <1>7, <1>8
  <2>2. \A i \in 1..(Len(stack'[u]) - 1) : stack'[u][i].rest = stack[u][i].rest
    BY <1>7, <1>8, <2>1
  <2>3. \A i \in 1..Len(stack'[u]) : stack'[u][i].file = stack[u][i].file
    BY <1>7, <1>8, <1>10
  <2>4. files_array' = files_array /\ L \in Nat
    BY <1>2, <1>4 DEF main
  <2>5. QED
    BY <2>1, <2>2, <2>3, <2>4, DescendsKept
<1>12. \A v \in Users \ {u}, g \in Files : writer'[g] = v <=> writer[g] = v
  <2>1. writer[f] = u
    <3>1. {g \in Files : writer[g] = u} = {s[i].file : i \in 1..L}
      BY <1>1, <1>5 DEF LocksOf
    <3>2. f \in {s[i].file : i \in 1..L}
      BY <1>2
    <3>3. QED
      BY <3>1, <3>2
  <2>2. QED
    BY <1>2, <1>4, <2>1, MountConstants DEF TypeCallbacks
<1>13. LocksOf(u)'
  <2>1. {g \in Files : writer[g] = u} = {s[i].file : i \in 1..L}
    BY <1>1, <1>5 DEF LocksOf
  <2>2. {g \in Files : writer'[g] = u} = {g \in Files : writer[g] = u} \ {f}
    BY <1>2, <1>4, MountConstants DEF TypeCallbacks
  <2>3. 1..L = (1..(L - 1)) \cup {L}
    BY <1>2
  <2>4. {s[i].file : i \in 1..L} \ {f} = {s[i].file : i \in 1..(L - 1)}
    BY <1>2, <2>3
  <2>5. {s[i].file : i \in 1..(L - 1)} = {t[i].file : i \in 1..(L - 1)}
    BY <1>10
  <2>6. {g \in Files : writer'[g] = u} = {t[i].file : i \in 1..(L - 1)}
    BY <2>1, <2>2, <2>4, <2>5
  <2>7. ASSUME NEW i \in 1..((L - 1) - 1)
        PROVE  parent_file[t[i].file] = t[i + 1].file
    <3>1. i \in 1..(L - 1) /\ i + 1 \in 1..(L - 1)
      BY <1>2
    <3>2. parent_file[s[i].file] = s[i + 1].file
      BY <1>5, <3>1 DEF LocksOf
    <3>3. QED
      BY <1>10, <3>1, <3>2
  <2>8. QED
    BY <1>1, <1>4, <1>7, <1>8, <2>6, <2>7 DEF LocksOf, files
<1>14. QED
  BY <1>2, <1>4, <1>8, <1>9, <1>11, <1>12, <1>13, StepOfUser

LEMMA ReadReturnsStep ==
  ASSUME IInv, NEW u \in Users, ReadReturns(u)
  PROVE  IInv'
<1> DEFINE f == stack[u][1].file
<1> USE DEF IInv, CallbackInv
<1>1. call[u] = "round" /\ Len(stack[u]) = 1
  BY DEF ReadReturns
<1>2. /\ phase = "mounted"
      /\ Top(u) = stack[u][1]
      /\ f \in Files
      /\ entry[u].file # NoFile => InArray(entry[u].file)
  BY <1>1, StackFacts DEF Frames
<1>3. /\ writer' = [writer EXCEPT ![f] = NoUser]
      /\ stack' = [stack EXCEPT ![u] = <<>>]
      /\ call' = [call EXCEPT ![u] = "answer"]
      /\ status' = [status EXCEPT ![u] = "ok"]
      /\ UNCHANGED <<main, files, current_offset, entry, buffer, asked, total,
                     listed>>
  BY <1>2 DEF ReadReturns, Answer, Goto, listing
<1>4. /\ stack'[u] = <<>> /\ Len(stack'[u]) = 0
      /\ call'[u] = "answer"
      /\ \A v \in Users \ {u} : stack'[v] = stack[v] /\ call'[v] = call[v]
  BY <1>3 DEF TypeCallbacks
<1>5. TypeCallbacks'
  <2>1. /\ writer' \in [Files -> Users \cup {NoUser}]
        /\ stack' \in [Users -> Seq(Frames)]
        /\ call' \in [Users -> Calls]
        /\ status' \in [Users -> {"none", "ok", "error"}]
    BY <1>2, <1>3 DEF TypeCallbacks, Calls
  <2>2. QED
    BY <1>3, <2>1 DEF TypeCallbacks
<1>6. {g \in Files : writer[g] = u} = {f}
  <2>1. {g \in Files : writer[g] = u} = {stack[u][i].file : i \in 1..1}
    BY <1>1 DEF LocksOf
  <2>2. {stack[u][i].file : i \in 1..1} = {f}
    OBVIOUS
  <2>3. QED
    BY <2>1, <2>2
<1>7. /\ \A v \in Users \ {u}, g \in Files : writer'[g] = v <=> writer[g] = v
      /\ \A g \in Files : writer'[g] # u
  BY <1>2, <1>3, <1>6, MountConstants DEF TypeCallbacks
<1>8. DescendsOf(u)'
  BY <1>4 DEF DescendsOf
<1>9. LocksOf(u)'
  BY <1>4, <1>7 DEF LocksOf
<1>10. QED
  BY <1>2, <1>3, <1>4, <1>5, <1>7, <1>8, <1>9, StepOfUser

-----------------------------------------------------------------------------
(* The theorems.                                                           *)

LEMMA CallbackStepInv ==
  ASSUME IInv, NEW u \in Users, CallbackStep(u)
  PROVE  IInv'
<1>1. CASE ReadDirEntry(u)
  BY <1>1, ReadDirEntryStep
<1>2. CASE Grab(u)
  BY <1>2, GrabStep
<1>3. CASE RoundOwn(u)
  BY <1>3, RoundOwnStep
<1>4. CASE RoundParent(u)
  BY <1>4, RoundParentStep
<1>5. CASE RoundFails(u)
  BY <1>5, AbandonStep DEF RoundFails
<1>6. CASE ParentFallsShort(u)
  BY <1>6, AbandonStep DEF ParentFallsShort
<1>7. CASE ParentReturns(u)
  BY <1>7, ParentReturnsStep
<1>8. CASE ReadReturns(u)
  BY <1>8, ReadReturnsStep
<1>9. CASE Return(u)
  BY <1>9, ReturnStep
<1>10. QED
  BY <1>1, <1>2, <1>3, <1>4, <1>5, <1>6, <1>7, <1>8, <1>9 DEF CallbackStep

LEMMA NextIInv == IInv /\ [Next]_vars => IInv'
<1> SUFFICES ASSUME IInv, [Next]_vars PROVE IInv'
  OBVIOUS
<1>1. CASE MainAction
  BY <1>1, MainActionMain, MainActionCallbacks DEF IInv
<1>2. CASE \E u \in Users : \E path \in Paths :
             Open(u, path) \/ GetAttr(u, path) \/ FindFiles(u, path)
  BY <1>2, OpenStep, GetAttrStep, FindFilesStep
<1>3. CASE \E u \in Users : Release(u) \/ ReadDir(u)
  BY <1>3, ReleaseStep, ReadDirStep
<1>4. CASE \E u \in Users : \E offset \in 0..MaxOffset, count \in 1..MaxCount :
             Read(u, offset, count)
  <2>1. PICK u \in Users, offset \in 0..MaxOffset, count \in 1..MaxCount :
          Read(u, offset, count)
    BY <1>4
  <2>2. offset \in Nat /\ count \in Nat
    BY MountConstants
  <2>3. QED
    BY <2>1, <2>2, ReadStep
<1>5. CASE \E u \in Users : CallbackStep(u)
  BY <1>5, CallbackStepInv
<1>6. CASE UNCHANGED vars
  <2>1. MainInv'
    BY <1>6, MainUnchanged DEF IInv, vars
  <2>2. TypeCallbacks' /\ BusyWhenMounted' /\ EntriesServed'
    BY <1>6 DEF IInv, CallbackInv, TypeCallbacks, BusyWhenMounted,
         EntriesServed, InArray, vars, main, callbacks, listing
  <2>3. \A u \in Users : DescendsOf(u)' /\ LocksOf(u)'
    BY <1>6 DEF IInv, CallbackInv, DescendsOf, LocksOf, InArray, vars, main,
         files, callbacks
  <2>4. QED
    BY <2>1, <2>2, <2>3 DEF IInv, CallbackInv
<1>7. QED
  BY <1>1, <1>2, <1>3, <1>4, <1>5, <1>6 DEF Next, MainAction

LEMMA Invariance == Spec => []IInv
<1>1. Init => IInv
  BY InitMain, InitCallbacks DEF IInv
<1>2. QED
  BY <1>1, NextIInv, PTL DEF Spec

(* Every variable of main and of the callbacks keeps its type. *)
THEOREM TypeCorrect == Spec => []TypeOK
<1>1. IInv => TypeOK
  BY DEF IInv, MainInv, CallbackInv, TypeMain, TypeCallbacks, TypeOK, Frames
<1>2. QED
  BY <1>1, Invariance, PTL

(* What is mounted is the whole chain of the image, however long it is and *)
(* whatever the order in which open_parent returns and files are appended. *)
THEOREM ChainCorrect == Spec => []ChainMounted
<1>1. IInv => ChainMounted
  <2> SUFFICES ASSUME IInv, phase = "mounted" PROVE ChainMounted
    BY DEF ChainMounted
  <2>1. DOMAIN files_array = 1..Len(files_array)
    BY LenProperties DEF IInv, MainInv, TypeMain
  <2>2. files_array # <<>>
    BY DEF IInv, MainInv, HandOfPhase
  <2>3. \A i \in DOMAIN files_array : state[files_array[i]] = "open"
    BY <2>1 DEF IInv, MainInv, ArrayOpen
  <2>4. QED
    BY <2>1, <2>2, <2>3 DEF IInv, MainInv, ArrayChain, ChainMounted, IsInjective
<1>2. QED
  BY <1>1, Invariance, PTL

(* Wherever an open of a chain fails, no file stays open and unreachable.  *)
THEOREM FilesCorrect == Spec => []NoFileLost
BY Invariance, PTL DEF IInv, MainInv

(* No file is freed before its children, nor while a callback uses it.     *)
THEOREM ParentsCorrect == Spec => []ParentOutlivesChild
<1>1. IInv => ParentOutlivesChild
  <2> SUFFICES ASSUME IInv PROVE ParentOutlivesChild
    OBVIOUS
  <2> USE DEF IInv
  <2>1. /\ DOMAIN files_array = 1..Len(files_array)
        /\ Len(files_array) \in Nat
    BY LenProperties DEF MainInv, TypeMain
  <2>2. ASSUME NEW f \in ToSet(files_array), state[f] = "open",
               parent_file[f] # NoFile
        PROVE  state[parent_file[f]] = "open"
    <3>1. PICK i \in 1..Len(files_array) : files_array[i] = f
      BY <2>1 DEF ToSet
    <3>2. i # 1
      <4>1. files_array # <<>>
        BY <2>1, <3>1
      <4>2. QED
        BY <2>2, <3>1, <4>1 DEF MainInv, ArrayChain
    <3>3. i \in 2..Len(files_array) /\ i - 1 \in 1..Len(files_array)
      BY <2>1, <3>2
    <3>4. parent_file[f] = files_array[i - 1]
      BY <3>1, <3>3 DEF MainInv, ArrayChain
    <3>5. i - 1 < i
      BY <2>1
    <3>6. QED
      BY <2>2, <3>1, <3>3, <3>4, <3>5 DEF MainInv, ArrayOpen
  <2>3. ASSUME NEW u \in Users, call[u] # "idle"
        PROVE  /\ entry[u].file # NoFile => state[entry[u].file] = "open"
               /\ \A i \in DOMAIN stack[u] : state[stack[u][i].file] = "open"
    <3>1. phase = "mounted"
      BY <2>3 DEF CallbackInv, BusyWhenMounted
    <3>2. \A f : InArray(f) => state[f] = "open"
      BY <3>1 DEF MainInv, ArrayOpen, InArray
    <3>3. DOMAIN stack[u] = 1..Len(stack[u])
      BY LenProperties DEF CallbackInv, TypeCallbacks
    <3>4. \A i \in 1..Len(stack[u]) : InArray(stack[u][i].file)
      BY DEF CallbackInv, DescendsOf
    <3>5. entry[u].file # NoFile => InArray(entry[u].file)
      BY <3>1 DEF CallbackInv, EntriesServed
    <3>6. QED
      BY <3>2, <3>3, <3>4, <3>5
  <2>4. QED
    BY <2>2, <2>3 DEF ParentOutlivesChild
<1>2. QED
  BY <1>1, Invariance, PTL

(* A read holds the locks of the files it is in, and releases each of them *)
(* on every way out.                                                       *)
THEOREM LocksCorrect == Spec => []LocksFollowParents
<1>1. IInv => LocksFollowParents
  BY DEF IInv, CallbackInv, LocksOf, LocksFollowParents
<1>2. QED
  BY <1>1, Invariance, PTL

-----------------------------------------------------------------------------
(* Deadlock: among the users who wait for the lock of a file, take the one *)
(* whose file is nearest to the base.  Who has that lock is further down,  *)
(* so waits for a file still nearer, or does not wait.                     *)

LEMMA HolderIsFurther ==
  ASSUME IInv, NEW f \in Files, writer[f] # NoUser
  PROVE  \E v \in Users :
           /\ call[v] \in {"grab", "round"}
           /\ call[v] = "grab" =>
                \A p, q \in 1..Len(files_array) :
                  files_array[p] = f /\ files_array[q] = Top(v).file => q < p
<1> USE DEF IInv, CallbackInv
<1> DEFINE v == writer[f]
           L == Len(stack[v])
<1>1. v \in Users
  BY DEF TypeCallbacks
<1>2. LocksOf(v) /\ DescendsOf(v) /\ stack[v] \in Seq(Frames)
  BY <1>1 DEF TypeCallbacks
<1>3. L \in Nat
  BY <1>2, LenProperties
<1>4. PICK i \in 1..(IF call[v] = "grab" THEN L - 1 ELSE L) :
        f = stack[v][i].file
  <2>1. f \in {g \in Files : writer[g] = v}
    OBVIOUS
  <2>2. QED
    BY <1>2, <2>1 DEF LocksOf
<1>5. stack[v] # <<>>
  BY <1>3, <1>4
<1>6. call[v] \in {"grab", "round"}
  BY <1>2, <1>5 DEF LocksOf
<1>7. CASE call[v] = "grab"
  <2>1. i \in 1..L /\ L \in 1..L /\ i < L
    BY <1>3, <1>4, <1>7
  <2>2. Top(v) = stack[v][L]
    BY <1>1, <1>6, StackFacts
  <2>3. \A p, q \in 1..Len(files_array) :
          files_array[p] = f /\ files_array[q] = Top(v).file => q < p
    BY <1>2, <1>4, <2>1, <2>2 DEF DescendsOf
  <2>4. QED
    BY <1>1, <1>6, <2>3
<1>8. QED
  BY <1>1, <1>6, <1>7

(* Callbacks never all wait for each other, however many there are and     *)
(* however long the chain: the locks of a chain cannot deadlock.           *)
THEOREM ProgressCorrect == Spec => []CallbacksProgress
<1>1. IInv => CallbacksProgress
  <2> SUFFICES ASSUME IInv, NEW b \in Users, call[b] # "idle",
                      \A u \in Users : call[u] # "idle" =>
                        \E f \in Files : WaitsFor(u, f) /\ writer[f] # NoUser
               PROVE  FALSE
    BY DEF CallbacksProgress
  <2> DEFINE T == {p \in 1..Len(files_array) :
                     \E u \in Users : /\ call[u] = "grab"
                                      /\ Top(u).file = files_array[p]}
  <2>1. ASSUME NEW u \in Users, call[u] \in {"grab", "round"}
        PROVE  /\ call[u] = "grab"
               /\ \E p \in T : files_array[p] = Top(u).file
               /\ writer[Top(u).file] # NoUser
               /\ Top(u).file \in Files
    <3>1. PICK f \in Files : WaitsFor(u, f) /\ writer[f] # NoUser
      BY <2>1
    <3>2. call[u] = "grab" /\ f = Top(u).file
      BY <2>1, <3>1 DEF WaitsFor
    <3>3. /\ Len(stack[u]) \in Nat \ {0}
          /\ Top(u) = stack[u][Len(stack[u])]
      BY <2>1, StackFacts
    <3>4. InArray(Top(u).file)
      BY <3>3 DEF IInv, CallbackInv, DescendsOf
    <3>5. QED
      BY <3>1, <3>2, <3>4 DEF InArray
  <2>2. T # {}
    <3>1. PICK f \in Files : writer[f] # NoUser
      OBVIOUS
    <3>2. PICK v \in Users : call[v] \in {"grab", "round"}
      BY <3>1, HolderIsFurther
    <3>3. QED
      BY <2>1, <3>2
  <2>3. T \in SUBSET Nat
    OBVIOUS
  <2>4. PICK m \in T : \A n \in T : m <= n
    <3> HIDE DEF T
    <3> QED
      BY <2>2, <2>3, LeastNatural
  <2>5. PICK u \in Users : call[u] = "grab" /\ Top(u).file = files_array[m]
    OBVIOUS
  <2>6. writer[Top(u).file] # NoUser /\ Top(u).file \in Files
    BY <2>1, <2>5
  <2>7. PICK v \in Users :
          /\ call[v] \in {"grab", "round"}
          /\ call[v] = "grab" =>
               \A p, q \in 1..Len(files_array) :
                 /\ files_array[p] = Top(u).file
                 /\ files_array[q] = Top(v).file
                 => q < p
    BY <2>6, HolderIsFurther
  <2>8. call[v] = "grab" /\ \E q \in T : files_array[q] = Top(v).file
    BY <2>1, <2>7
  <2>9. PICK q \in T : files_array[q] = Top(v).file
    BY <2>8
  <2>10. q < m
    BY <2>5, <2>7, <2>8, <2>9
  <2>11. m <= q /\ m \in Nat /\ q \in Nat
    BY <2>3, <2>4
  <2>12. QED
    BY <2>10, <2>11
<1>2. QED
  BY <1>1, Invariance, PTL


-----------------------------------------------------------------------------
(* What a read delivers.                                                   *)

(* A file that was opened has an image. *)
ImagesKnown == \A f \in Files : state[f] # "none" => image[f] \in Names

(* What the read of a frame was asked for: that of a parent is asked for   *)
(* the one cluster block its child lacks.                                  *)
CountOf(u, i) == IF i = 1 THEN asked[u].count ELSE 1

(* The cluster block of the media the callback is at. *)
ReadsAt(u) == asked[u].offset + (asked[u].count - stack[u][1].rest)

(* The buffer has blocks of the media of the k-th file, which has them. *)
Delivers(u, k) ==
  /\ files_array[k] = entry[u].file
  /\ \A j \in 1..Len(buffer[u]) :
       /\ Has(k, asked[u].offset + j - 1)
       /\ buffer[u][j] = OverlayCell(k, asked[u].offset + j - 1)

(* The frames of a read of the k-th file are in the files from there       *)
(* towards the base.  All but the last found a hole in their files at the  *)
(* place where the callback is, which all the frames of parents are asked  *)
(* for; and as long as a frame has the lock of its file, the current       *)
(* offset is as far as the frame has come, whoever else reads.             *)
FramesAt(u, k) ==
  LET s == stack[u] IN
  /\ Len(s) <= k
  /\ s[1].offset = asked[u].offset
  /\ \A i \in 1..Len(s) :
       /\ s[i].file = files_array[k - i + 1]
       /\ s[i].rest <= CountOf(u, i)
       /\ i > 1 => s[i].offset = ReadsAt(u)
       /\ i < Len(s) =>
            /\ Has(k - i + 1, ReadsAt(u))
            /\ Block[Layer(k - i + 1)][ReadsAt(u)] = "hole"
            /\ i > 1 => s[i].rest = 1
       /\ i < Len(s) \/ call[u] = "round" =>
            current_offset[s[i].file] = s[i].offset + (CountOf(u, i) - s[i].rest)
  /\ call[u] = "grab" => s[Len(s)].rest = CountOf(u, Len(s))

(* How much of it is in the buffer: a parent that has read its block has   *)
(* put it there, before its child counts it.                               *)
BufferedOf(u) ==
  LET s == stack[u]
      last == s[Len(s)]
  IN  Len(buffer[u]) = (asked[u].count - s[1].rest)
                         + (IF Len(s) = 1 THEN 0 ELSE 1 - last.rest)

ReadOf(u, k) == Delivers(u, k) /\ FramesAt(u, k) /\ BufferedOf(u)

(* What the callback was asked for, as far as the media goes. *)
Wanted(u, k) ==
  {c \in asked[u].offset..(asked[u].offset + asked[u].count - 1) : Has(k, c)}

AnswerOf(u, k) ==
  /\ Delivers(u, k)
  /\ status[u] = "ok" => Len(buffer[u]) = Cardinality(Wanted(u, k))
  /\ status[u] = "error" => \E c \in Wanted(u, k) : Damaged(k, c)

OverlayOf(u) ==
  /\ call[u] # "answer" => status[u] = "none"
  /\ call[u] \in {"idle", "readdir"} => asked[u] = NothingAsked /\ buffer[u] = <<>>
  /\ call[u] \in {"grab", "round"} =>
       \E k \in 1..Len(files_array) : ReadOf(u, k)
  /\ call[u] = "answer" /\ asked[u] # NothingAsked /\ entry[u].file # NoFile =>
       \E k \in 1..Len(files_array) : AnswerOf(u, k)

OverlayInv == ImagesKnown /\ \A u \in Users : OverlayOf(u)


LEMMA InitOverlay == Init => OverlayInv
<1> SUFFICES ASSUME Init PROVE OverlayInv
  OBVIOUS
<1>1. ImagesKnown
  BY DEF Init, ImagesKnown
<1>2. \A u \in Users : OverlayOf(u)
  BY DEF Init, OverlayOf
<1> QED
  BY <1>1, <1>2 DEF OverlayInv

(* main does nothing while a callback is in progress. *)
LEMMA MainOverlay ==
  ASSUME IInv, OverlayInv, MainAction
  PROVE  OverlayInv'
<1> USE DEF IInv
<1>1. UNCHANGED callbacks
  BY DEF MainAction, MainStep, MountHandleOpen, OpenParent, AppendParent,
         AppendImage, Unwind, GiveUp, Unmount, CloseLast, Destroy
<1>2. \A u \in Users : call[u] = "idle"
  <2>1. CASE phase = "mounted"
    <3>1. Unmount
      BY <2>1 DEF MainAction, MainStep, MountHandleOpen, OpenParent,
                  AppendParent, AppendImage, Unwind, GiveUp, CloseLast, Destroy
    <3> QED
      BY <3>1 DEF Unmount, Quiet
  <2> QED
    BY <2>1 DEF CallbackInv, BusyWhenMounted
<1>3. \A u \in Users : OverlayOf(u)'
  <2> SUFFICES ASSUME NEW u \in Users PROVE OverlayOf(u)'
    OBVIOUS
  <2>1. /\ call'[u] = "idle" /\ status'[u] = status[u]
        /\ asked'[u] = asked[u] /\ buffer'[u] = buffer[u]
    BY <1>1, <1>2 DEF callbacks
  <2>2. status[u] = "none" /\ asked[u] = NothingAsked /\ buffer[u] = <<>>
    BY <1>2 DEF OverlayInv, OverlayOf
  <2> QED
    BY <2>1, <2>2 DEF OverlayOf
<1>4. ImagesKnown'
  <2>1. ASSUME UNCHANGED <<state, image>> PROVE ImagesKnown'
    BY <2>1 DEF OverlayInv, ImagesKnown
  <2>2. ASSUME NEW n \in Names, NEW k, CanOpen(n), OpenFile(n, k)
        PROVE  ImagesKnown'
    <3> DEFINE f == CHOOSE g \in Unallocated : TRUE
    <3>1. /\ state' = [state EXCEPT ![f] = "open"]
          /\ image' = [image EXCEPT ![f] = n]
      BY <2>2 DEF OpenFile
    <3>2. image \in [Files -> Names \cup {NoName}]
          /\ state \in [Files -> {"none", "open", "freed"}]
      BY DEF MainInv, TypeMain
    <3> HIDE DEF f
    <3> QED
      BY <3>1, <3>2 DEF OverlayInv, ImagesKnown
  <2>3. ASSUME NEW f, state[f] = "open", FreeFile(f), UNCHANGED image
        PROVE  ImagesKnown'
    <3>1. state \in [Files -> {"none", "open", "freed"}]
      BY DEF MainInv, TypeMain
    <3> QED
      BY <2>3, <3>1 DEF FreeFile, OverlayInv, ImagesKnown
  <2>4. CASE \E n \in Names, k \in KeyOptions : MountHandleOpen(n, k)
    BY <2>1, <2>2, <2>4 DEF MountHandleOpen, files
  <2>5. CASE OpenParent
    <3> DEFINE n == BackingName[image[InHand]]
    <3>1. CASE n # NoName /\ CanOpen(n) /\ OpenFile(n, FALSE)
      <4>1. n \in Names
        BY <3>1, MountConstants DEF CanOpen
      <4> QED
        BY <2>2, <3>1, <4>1
    <3>2. CASE UNCHANGED files
      BY <2>1, <3>2 DEF files
    <3> QED
      BY <2>5, <3>1, <3>2 DEF OpenParent
  <2>6. CASE AppendParent \/ AppendImage \/ GiveUp \/ Unmount \/ Destroy
    BY <2>1, <2>6 DEF AppendParent, AppendImage, GiveUp, Unmount, Destroy, files
  <2>7. CASE Unwind
    <3>1. hand # <<>> /\ FreeFile(InHand) /\ UNCHANGED image
      BY <2>7 DEF Unwind
    <3>2. Len(hand) \in Nat \ {0} /\ InHand = hand[Len(hand)]
      BY <3>1, FrontFacts DEF InHand, MainInv, TypeMain
    <3>3. state[InHand] = "open"
      BY <3>2 DEF MainInv, HandOpen
    <3> QED
      BY <2>3, <3>1, <3>3
  <2>8. CASE CloseLast
    BY <2>3, <2>8 DEF CloseLast, OpenFiles
  <2> QED
    BY <2>4, <2>5, <2>6, <2>7, <2>8 DEF MainAction, MainStep
<1> QED
  BY <1>3, <1>4 DEF OverlayInv

(* The layers are those of the mount, whatever callbacks do. *)
LEMMA LayersKept ==
  ASSUME UNCHANGED <<files_array, image>>
  PROVE  /\ \A k : Layer(k)' = Layer(k)
         /\ \A k, c : Has(k, c)' <=> Has(k, c)
         /\ \A k, c : OverlayCell(k, c)' = OverlayCell(k, c)
         /\ \A k, c : Damaged(k, c)' <=> Damaged(k, c)
BY DEF Layer, Has, OverlayCell, Damaged

(* A user of whom nothing changes, nor the offsets of the files it reads. *)
LEMMA OtherOverlay ==
  ASSUME IInv, NEW v \in Users, OverlayOf(v), UNCHANGED <<files_array, image>>,
         entry'[v] = entry[v], call'[v] = call[v], stack'[v] = stack[v],
         buffer'[v] = buffer[v], asked'[v] = asked[v], status'[v] = status[v],
         \A f \in Files : writer[f] = v => current_offset'[f] = current_offset[f]
  PROVE  OverlayOf(v)'
<1>1. \A k : Delivers(v, k) => Delivers(v, k)'
  BY LayersKept DEF Delivers
<1>2. \A k : AnswerOf(v, k) => AnswerOf(v, k)'
  <2> SUFFICES ASSUME NEW k, AnswerOf(v, k) PROVE AnswerOf(v, k)'
    OBVIOUS
  <2>1. Wanted(v, k)' = Wanted(v, k)
    BY LayersKept DEF Wanted
  <2> QED
    BY <1>1, <2>1, LayersKept DEF AnswerOf
<1>3. ASSUME call[v] \in {"grab", "round"}, NEW k \in 1..Len(files_array), ReadOf(v, k)
      PROVE  ReadOf(v, k)'
  <2>1. Delivers(v, k)' /\ BufferedOf(v)'
    BY <1>1, <1>3 DEF ReadOf, BufferedOf
  <2>2. ReadsAt(v)' = ReadsAt(v) /\ \A i : CountOf(v, i)' = CountOf(v, i)
    BY DEF ReadsAt, CountOf
  <2>3. ASSUME NEW i \in 1..Len(stack[v]), i < Len(stack[v]) \/ call[v] = "round"
        PROVE  current_offset'[stack[v][i].file] = current_offset[stack[v][i].file]
    <3>1. /\ Len(stack[v]) \in Nat \ {0}
          /\ stack[v][i] \in Frames
      BY <1>3, StackFacts
    <3>2. {f \in Files : writer[f] = v} =
            {stack[v][j].file :
               j \in 1..(IF call[v] = "grab" THEN Len(stack[v]) - 1 ELSE Len(stack[v]))}
      BY DEF IInv, CallbackInv, LocksOf
    <3>3. i \in 1..(IF call[v] = "grab" THEN Len(stack[v]) - 1 ELSE Len(stack[v]))
      BY <1>3, <2>3, <3>1
    <3>4. stack[v][i].file \in {f \in Files : writer[f] = v}
      BY <3>2, <3>3
    <3> QED
      BY <3>4
  <2>4. FramesAt(v, k)'
    <3>1. FramesAt(v, k)
      BY <1>3 DEF ReadOf
    <3> QED
      BY <2>2, <2>3, <3>1, LayersKept DEF FramesAt
  <2> QED
    BY <2>1, <2>4 DEF ReadOf
<1> QED
  BY <1>2, <1>3 DEF OverlayOf

(* A step of one user leaves the reads of the others alone. *)
LEMMA OverlayOfUser ==
  ASSUME IInv, OverlayInv, NEW u \in Users, UNCHANGED <<main, files>>,
         \A v \in Users \ {u} :
           /\ entry'[v] = entry[v] /\ call'[v] = call[v]
           /\ stack'[v] = stack[v] /\ buffer'[v] = buffer[v]
           /\ asked'[v] = asked[v] /\ status'[v] = status[v]
           /\ \A f \in Files : writer[f] = v => current_offset'[f] = current_offset[f],
         OverlayOf(u)'
  PROVE  OverlayInv'
<1>1. UNCHANGED <<files_array, image, state>>
  BY DEF main, files
<1>2. ImagesKnown'
  BY <1>1 DEF OverlayInv, ImagesKnown
<1>3. ASSUME NEW v \in Users \ {u} PROVE OverlayOf(v)'
  BY <1>1, OtherOverlay DEF OverlayInv
<1> QED
  BY <1>2, <1>3 DEF OverlayInv


-----------------------------------------------------------------------------
(* The layers.                                                             *)

LEMMA LayerKnown ==
  ASSUME IInv, OverlayInv, NEW j \in 1..Len(files_array)
  PROVE  /\ files_array[j] \in Files
         /\ Layer(j) \in Names
         /\ MediaSize[Layer(j)] \in Nat
<1>1. files_array[j] \in Files
  BY ElementOfSeq DEF IInv, MainInv, TypeMain
<1>2. state[files_array[j]] # "none"
  BY DEF IInv, MainInv, ArrayChain
<1>3. Layer(j) \in Names
  BY <1>1, <1>2 DEF OverlayInv, ImagesKnown, Layer
<1> QED
  BY <1>1, <1>3, MountConstants

(* Where the layers above the j-th have a hole, the j-th says what the     *)
(* cluster block is: its own,                                              *)
LEMMA StoredCell ==
  ASSUME NEW k \in Nat, NEW j \in 1..k, NEW c,
         \A i \in (j + 1)..k : Block[Layer(i)][c] = "hole",
         Has(j, c), Block[Layer(j)][c] = "data"
  PROVE  OverlayCell(k, c) = DataCell(Layer(j), c)
<1> DEFINE stored == {i \in 1..k : Has(i, c) /\ Block[Layer(i)][c] = "data"}
<1>1. j \in stored
  OBVIOUS
<1>2. ASSUME NEW i \in stored PROVE i \in Nat /\ i <= j
  <2>1. i \in 1..k /\ Block[Layer(i)][c] = "data"
    OBVIOUS
  <2>2. i \notin (j + 1)..k
    BY <2>1
  <2> QED
    BY <2>1, <2>2
<1> HIDE DEF stored
<1>3. Max(stored) = j
  <2> DEFINE largest(m) == m \in stored /\ \A i \in stored : m >= i
  <2>1. \E m : largest(m)
    BY <1>1, <1>2
  <2>2. Max(stored) = CHOOSE m \in stored : \A i \in stored : m >= i
    BY DEF Max
  <2>3. \A m : largest(m) => m = j
    BY <1>1, <1>2
  <2> QED
    BY <2>1, <2>2, <2>3
<1>4. OverlayCell(k, c) =
        IF stored = {} THEN ZeroCell ELSE DataCell(Layer(Max(stored)), c)
  BY DEF OverlayCell, stored
<1> QED
  BY <1>1, <1>3, <1>4

(* or a zero one, when it is a hole at the base.                           *)
LEMMA NothingStored ==
  ASSUME NEW k \in Nat, NEW c, \A i \in 1..k : Block[Layer(i)][c] = "hole"
  PROVE  OverlayCell(k, c) = ZeroCell
<1>1. {i \in 1..k : Has(i, c) /\ Block[Layer(i)][c] = "data"} = {}
  OBVIOUS
<1> QED
  BY <1>1 DEF OverlayCell

(* The types of what a read in progress is about. *)
LEMMA ReadTypes ==
  ASSUME IInv, OverlayInv, NEW u \in Users, call[u] \in {"grab", "round"},
         NEW k \in 1..Len(files_array), ReadOf(u, k)
  PROVE  /\ phase = "mounted"
         /\ k \in Nat \ {0}
         /\ Len(stack[u]) \in 1..k
         /\ \A i \in 1..Len(stack[u]) :
              /\ stack[u][i] \in Frames
              /\ stack[u][i].rest <= CountOf(u, i)
              /\ k - i + 1 \in 1..k
              /\ k - i + 1 \in 1..Len(files_array)
              /\ stack[u][i].file = files_array[k - i + 1]
              /\ image[stack[u][i].file] = Layer(k - i + 1)
         /\ Top(u) = stack[u][Len(stack[u])]
         /\ asked[u].offset \in Nat /\ asked[u].count \in Nat
         /\ ReadsAt(u) \in Nat
         /\ buffer[u] \in Seq(Cells) /\ Len(buffer[u]) \in Nat
         /\ entry[u].file # NoFile
<1>1. /\ phase = "mounted"
      /\ Len(stack[u]) \in Nat \ {0}
      /\ \A i \in 1..Len(stack[u]) : stack[u][i] \in Frames
      /\ Top(u) = stack[u][Len(stack[u])]
  BY StackFacts
<1>2. k \in Nat \ {0} /\ Len(files_array) \in Nat
  BY LenProperties DEF IInv, MainInv, TypeMain
<1>3. /\ Len(stack[u]) <= k
      /\ \A i \in 1..Len(stack[u]) :
           /\ stack[u][i].file = files_array[k - i + 1]
           /\ stack[u][i].rest <= CountOf(u, i)
  BY DEF ReadOf, FramesAt
<1>4. Len(stack[u]) \in 1..k
  BY <1>1, <1>2, <1>3
<1>5. \A i \in 1..Len(stack[u]) :
        k - i + 1 \in 1..k /\ k - i + 1 \in 1..Len(files_array)
  BY <1>2, <1>4
<1>6. asked[u].offset \in Nat /\ asked[u].count \in Nat
  BY DEF IInv, CallbackInv, TypeCallbacks
<1>7. ReadsAt(u) \in Nat
  <2>1. stack[u][1].rest \in Nat /\ stack[u][1].rest <= CountOf(u, 1)
    BY <1>1, <1>3 DEF Frames
  <2>2. CountOf(u, 1) = asked[u].count
    BY DEF CountOf
  <2> QED
    BY <1>6, <2>1, <2>2 DEF ReadsAt
<1>8. buffer[u] \in Seq(Cells) /\ Len(buffer[u]) \in Nat
  BY LenProperties DEF IInv, CallbackInv, TypeCallbacks
<1>9. entry[u].file # NoFile
  <2>1. entry[u].file = files_array[k]
    BY DEF ReadOf, Delivers
  <2> QED
    BY <2>1, LayerKnown, MountConstants
<1> QED
  BY <1>1, <1>2, <1>3, <1>4, <1>5, <1>6, <1>7, <1>8, <1>9 DEF Layer

(* A round of a frame with something left to read: it is at the cluster    *)
(* block where the callback is, which comes next in the buffer and which   *)
(* the layers above it lack.                                               *)
LEMMA TopReads ==
  ASSUME IInv, OverlayInv, NEW u \in Users, call[u] = "round",
         NEW k \in 1..Len(files_array), ReadOf(u, k), Top(u).rest # 0
  PROVE  /\ current_offset[Top(u).file] = ReadsAt(u)
         /\ Top(u).rest \in Nat \ {0}
         /\ Len(stack[u]) > 1 => Top(u).rest = 1
         /\ stack[u][1].rest \in Nat \ {0}
         /\ Len(buffer[u]) = asked[u].count - stack[u][1].rest
         /\ ReadsAt(u) = asked[u].offset + Len(buffer[u])
         /\ \A i \in (k - Len(stack[u]) + 2)..k :
              Has(i, ReadsAt(u)) /\ Block[Layer(i)][ReadsAt(u)] = "hole"
         /\ MediaEnds(u) <=> ~Has(k - Len(stack[u]) + 1, ReadsAt(u))
         /\ KindAt(u) = Block[Layer(k - Len(stack[u]) + 1)][ReadsAt(u)]
<1> DEFINE s == stack[u]
           L == Len(s)
           c == ReadsAt(u)
<1>1. /\ k \in Nat \ {0} /\ L \in 1..k /\ L \in Nat \ {0}
      /\ Top(u) = s[L] /\ s[L] \in Frames
      /\ \A i \in 1..L :
           /\ s[i] \in Frames
           /\ s[i].rest <= CountOf(u, i)
           /\ k - i + 1 \in 1..Len(files_array)
           /\ image[s[i].file] = Layer(k - i + 1)
      /\ asked[u].offset \in Nat /\ asked[u].count \in Nat
      /\ c \in Nat /\ Len(buffer[u]) \in Nat
  <2>1. /\ k \in Nat \ {0} /\ L \in 1..k /\ L \in Nat \ {0}
        /\ Top(u) = s[L]
        /\ \A i \in 1..L :
             /\ s[i] \in Frames
             /\ s[i].rest <= CountOf(u, i)
             /\ k - i + 1 \in 1..Len(files_array)
             /\ image[s[i].file] = Layer(k - i + 1)
        /\ asked[u].offset \in Nat /\ asked[u].count \in Nat
        /\ c \in Nat /\ Len(buffer[u]) \in Nat
    BY ReadTypes
  <2> HIDE DEF s, L, c
  <2>2. L \in 1..L
    BY <2>1
  <2> QED
    BY <2>1, <2>2
<1>2. FramesAt(u, k) /\ BufferedOf(u)
  BY DEF ReadOf
<1>0. L > 1 \/ L = 1
  <2>1. L \in Nat \ {0}
    BY <1>1
  <2> HIDE DEF L
  <2> QED
    BY <2>1
<1>3. /\ s[1].offset = asked[u].offset
      /\ L > 1 => s[L].offset = c
      /\ current_offset[s[L].file] = s[L].offset + (CountOf(u, L) - s[L].rest)
  BY <1>1, <1>2 DEF FramesAt
<1>4. s[L].rest \in Nat \ {0} /\ s[L].rest <= CountOf(u, L)
  BY <1>1 DEF Frames
<1>5. CountOf(u, 1) = asked[u].count /\ (L > 1 => CountOf(u, L) = 1)
  <2>1. L > 1 => L # 1
    BY <1>1
  <2> QED
    BY <2>1 DEF CountOf
<1>6. L > 1 => s[L].rest = 1
  BY <1>4, <1>5
<1>7. s[1].rest \in Nat \ {0}
  <2>1. CASE L = 1
    BY <1>4, <2>1
  <2>2. CASE L > 1
    <3>1. 1 \in 1..(L - 1) /\ DescendsOf(u)
      BY <1>1, <2>2 DEF IInv, CallbackInv
    <3>2. s[1].rest > 0 /\ s[1] \in Frames
      BY <1>1, <3>1 DEF DescendsOf
    <3> QED
      BY <3>2 DEF Frames
  <2> QED
    BY <1>0, <2>1, <2>2
<1>8. c = asked[u].offset + (asked[u].count - s[1].rest)
  BY DEF ReadsAt
<1>9. s[1].rest <= asked[u].count
  <2>1. 1 \in 1..L
    <3>1. L \in Nat \ {0}
      BY <1>1
    <3> HIDE DEF L
    <3> QED
      BY <3>1
  <2>2. s[1].rest <= CountOf(u, 1)
    BY <1>1, <2>1
  <2> QED
    BY <1>5, <2>2
<1>10. current_offset[s[L].file] = c
  <2>1. CASE L = 1
    BY <1>3, <1>5, <1>8, <2>1
  <2>2. CASE L > 1
    BY <1>1, <1>3, <1>5, <1>6, <2>2
  <2> QED
    BY <1>0, <2>1, <2>2
<1>11. Len(buffer[u]) = asked[u].count - s[1].rest
  <2>1. Len(buffer[u]) = (asked[u].count - s[1].rest)
                           + (IF L = 1 THEN 0 ELSE 1 - s[L].rest)
    BY <1>2 DEF BufferedOf
  <2>2. (IF L = 1 THEN 0 ELSE 1 - s[L].rest) = 0
    BY <1>0, <1>6
  <2>3. asked[u].count - s[1].rest \in Nat
    <3>1. asked[u].count \in Nat
      BY <1>1
    <3> QED
      BY <1>7, <1>9, <3>1
  <2> QED
    BY <2>1, <2>2, <2>3
<1>12. c = asked[u].offset + Len(buffer[u])
  BY <1>8, <1>11
<1> HIDE DEF c
<1>13. ASSUME NEW i \in (k - L + 2)..k
       PROVE  Has(i, c) /\ Block[Layer(i)][c] = "hole"
  <2> DEFINE m == k - i + 1
  <2>1. m \in 1..L /\ m < L /\ k - m + 1 = i
    BY <1>1
  <2> HIDE DEF m
  <2> QED
    BY <1>2, <2>1 DEF FramesAt, c
<1>14. /\ MediaSize[Layer(k - L + 1)] \in Nat
       /\ image[s[L].file] = Layer(k - L + 1)
  <2>0. L \in 1..L
    BY <1>1
  <2>1. k - L + 1 \in 1..Len(files_array) /\ image[s[L].file] = Layer(k - L + 1)
    BY <1>1, <2>0
  <2> QED
    BY <2>1, LayerKnown
<1>15. MediaEnds(u) <=> ~Has(k - L + 1, c)
  <2>0. c \in Nat
    BY <1>1 DEF c
  <2>1. MediaEnds(u) <=> c >= MediaSize[Layer(k - L + 1)]
    BY <1>1, <1>10, <1>14 DEF MediaEnds
  <2> QED
    BY <1>14, <2>0, <2>1 DEF Has
<1>16. KindAt(u) = Block[Layer(k - L + 1)][c]
  BY <1>1, <1>10, <1>14 DEF KindAt
<1> QED
  BY <1>1, <1>4, <1>6, <1>7, <1>10, <1>11, <1>12, <1>13, <1>15, <1>16 DEF c


-----------------------------------------------------------------------------
(* The steps.                                                              *)

(* A step of a user that reads nothing, before or after. *)
LEMMA OutsideOverlay ==
  ASSUME IInv, OverlayInv, NEW u \in Users,
         UNCHANGED <<main, files, current_offset, stack, buffer, asked>>,
         \A v \in Users \ {u} : /\ entry'[v] = entry[v] /\ call'[v] = call[v]
                                /\ status'[v] = status[v],
         call[u] \in {"idle", "readdir"},
         call'[u] \in {"idle", "readdir", "answer"},
         call'[u] # "answer" => status'[u] = status[u]
  PROVE  OverlayInv'
<1>1. status[u] = "none" /\ asked[u] = NothingAsked /\ buffer[u] = <<>>
  BY DEF OverlayInv, OverlayOf
<1>2. OverlayOf(u)'
  BY <1>1 DEF OverlayOf
<1> QED
  BY <1>2, OverlayOfUser

LEMMA LookingOverlay ==
  ASSUME IInv, OverlayInv, NEW u \in Users,
         \/ Release(u) \/ ReadDir(u) \/ ReadDirEntry(u)
         \/ \E path \in Paths : Open(u, path) \/ GetAttr(u, path) \/ FindFiles(u, path)
  PROVE  OverlayInv'
<1>1. UNCHANGED <<main, files, current_offset, stack, buffer, asked>>
  BY DEF Release, ReadDir, ReadDirEntry, Open, GetAttr, FindFiles
<1>2. call[u] \in {"idle", "readdir"}
  BY DEF Release, ReadDir, ReadDirEntry, Open, GetAttr, FindFiles, Starts
<1>3. \A v \in Users \ {u} : entry'[v] = entry[v]
  BY DEF Release, ReadDir, ReadDirEntry, Open, GetAttr, FindFiles, IInv,
         CallbackInv, TypeCallbacks
<1>4. \/ UNCHANGED <<call, status>>
      \/ Goto(u, "readdir") /\ UNCHANGED status
      \/ \E s \in {"ok", "error"} : Answer(u, s)
  BY DEF Release, ReadDir, ReadDirEntry, Open, GetAttr, FindFiles, List
<1>5. /\ \A v \in Users \ {u} : call'[v] = call[v] /\ status'[v] = status[v]
      /\ call'[u] \in {"idle", "readdir", "answer"}
      /\ call'[u] # "answer" => status'[u] = status[u]
  <2>1. call \in [Users -> Calls] /\ status \in [Users -> {"none", "ok", "error"}]
    BY DEF IInv, CallbackInv, TypeCallbacks
  <2> QED
    BY <1>2, <1>4, <2>1 DEF Goto, Answer
<1> QED
  BY <1>1, <1>2, <1>3, <1>5, OutsideOverlay

LEMMA ReturnOverlay ==
  ASSUME IInv, OverlayInv, NEW u \in Users, Return(u)
  PROVE  OverlayInv'
<1> USE DEF IInv, CallbackInv, TypeCallbacks
<1>1. /\ call' = [call EXCEPT ![u] = "idle"]
      /\ buffer' = [buffer EXCEPT ![u] = <<>>]
      /\ asked' = [asked EXCEPT ![u] = NothingAsked]
      /\ status' = [status EXCEPT ![u] = "none"]
      /\ UNCHANGED <<main, files, current_offset, entry, stack>>
  BY DEF Return, Goto
<1>2. OverlayOf(u)'
  BY <1>1 DEF OverlayOf
<1> QED
  BY <1>1, <1>2, OverlayOfUser

LEMMA ReadOverlay ==
  ASSUME IInv, OverlayInv, NEW u \in Users, NEW offset \in Nat,
         NEW count \in Nat, Read(u, offset, count)
  PROVE  OverlayInv'
<1> USE DEF IInv, CallbackInv
<1>1. /\ phase = "mounted" /\ call[u] = "idle"
      /\ asked' = [asked EXCEPT ![u] = [offset |-> offset, count |-> count]]
      /\ UNCHANGED <<main, files, current_offset, entry, buffer>>
  BY DEF Read, Starts
<1>2. status[u] = "none" /\ buffer[u] = <<>>
  BY <1>1 DEF OverlayInv, OverlayOf
<1>3. /\ asked'[u].offset = offset /\ asked'[u].count = count
      /\ \A v \in Users \ {u} : asked'[v] = asked[v]
  BY <1>1 DEF TypeCallbacks
<1>4. CASE entry[u].file = NoFile
  <2>1. /\ call' = [call EXCEPT ![u] = "answer"]
        /\ status' = [status EXCEPT ![u] = "error"]
        /\ UNCHANGED stack
    BY <1>4 DEF Read, Answer, Goto
  <2>2. OverlayOf(u)'
    BY <1>1, <1>4, <2>1 DEF OverlayOf, TypeCallbacks
  <2> QED
    BY <1>1, <1>3, <2>1, <2>2, OverlayOfUser DEF TypeCallbacks
<1>5. CASE entry[u].file # NoFile
  <2> DEFINE frame == Frame(entry[u].file, offset, count)
  <2>1. /\ call' = [call EXCEPT ![u] = "grab"]
        /\ stack' = [stack EXCEPT ![u] = <<frame>>]
        /\ UNCHANGED status
    BY <1>5 DEF Read, Goto
  <2>2. frame.file = entry[u].file /\ frame.offset = offset /\ frame.rest = count
    BY DEF Frame
  <2> HIDE DEF frame
  <2>3. /\ call'[u] = "grab" /\ stack'[u] = <<frame>>
        /\ \A v \in Users \ {u} : call'[v] = call[v] /\ stack'[v] = stack[v]
    BY <2>1 DEF TypeCallbacks
  <2>4. Len(stack'[u]) = 1 /\ stack'[u][1] = frame /\ Len(buffer'[u]) = 0
    BY <1>1, <1>2, <2>3
  <2>5. PICK k \in 1..Len(files_array) : files_array[k] = entry[u].file
    BY <1>1, <1>5 DEF EntriesServed, InArray
  <2>6. UNCHANGED <<files_array, entry>>
    BY <1>1 DEF main
  <2>7. Delivers(u, k)'
    BY <2>4, <2>5, <2>6 DEF Delivers
  <2>8. BufferedOf(u)'
    BY <1>3, <2>2, <2>4 DEF BufferedOf
  <2>9. k \in Nat /\ k >= 1 /\ k - 1 + 1 = k
    OBVIOUS
  <2>10. FramesAt(u, k)'
    <3>1. \A i \in 1..Len(stack'[u]) : i = 1
      BY <2>4
    <3>2. CountOf(u, 1)' = count
      BY <1>3 DEF CountOf
    <3>3. /\ Len(stack'[u]) <= k
          /\ stack'[u][1].offset = asked'[u].offset
          /\ stack'[u][1].file = files_array'[k - 1 + 1]
          /\ stack'[u][1].rest <= CountOf(u, 1)'
          /\ stack'[u][Len(stack'[u])].rest = CountOf(u, Len(stack[u]))'
      BY <1>3, <2>2, <2>4, <2>5, <2>6, <2>9, <3>2
    <3> QED
      BY <2>3, <2>4, <3>1, <3>3 DEF FramesAt
  <2>11. ReadOf(u, k)'
    BY <2>7, <2>8, <2>10 DEF ReadOf
  <2>12. OverlayOf(u)'
    BY <1>2, <2>1, <2>3, <2>6, <2>11 DEF OverlayOf
  <2> QED
    BY <1>1, <1>3, <2>1, <2>3, <2>12, OverlayOfUser
<1> QED
  BY <1>4, <1>5


LEMMA GrabOverlay ==
  ASSUME IInv, OverlayInv, NEW u \in Users, Grab(u)
  PROVE  OverlayInv'
<1> DEFINE s == stack[u]
           L == Len(s)
           f == s[L].file
<1>1. call[u] = "grab"
  BY DEF Grab
<1>2. PICK k \in 1..Len(files_array) : ReadOf(u, k)
  BY <1>1 DEF OverlayInv, OverlayOf
<1>3. /\ L \in 1..k /\ L \in Nat \ {0} /\ k \in Nat
      /\ s[L] \in Frames /\ f \in Files /\ Top(u) = s[L]
      /\ \A i \in 1..L : s[i] \in Frames
      /\ \A i \in 1..(L - 1) : s[i].file # f
  <2>1. call[u] \in {"grab", "round"}
    BY <1>1
  <2>2. /\ k \in Nat \ {0} /\ L \in 1..k /\ Top(u) = s[L]
        /\ \A i \in 1..L : s[i] \in Frames
    BY <1>2, <2>1, ReadTypes
  <2>3. /\ \A i \in 1..(L - 1) : s[i].file # f
    BY <2>1, StackFacts
  <2>4. L \in Nat \ {0} /\ L \in 1..L
    <3>1. \A l \in 1..k : l \in Nat \ {0} /\ l \in 1..l
      BY <2>2
    <3> QED
      BY <2>2, <3>1
  <2>5. s[L] \in Frames
    BY <2>2, <2>4
  <2>6. f \in Files
    BY <2>5 DEF Frames
  <2> QED
    BY <2>2, <2>3, <2>4, <2>5, <2>6
<1>4. /\ writer[f] = NoUser
      /\ current_offset' = [current_offset EXCEPT ![f] = s[L].offset]
      /\ call' = [call EXCEPT ![u] = "round"]
      /\ UNCHANGED <<main, files, entry, stack, buffer, asked, status>>
  BY <1>3 DEF Grab, Goto
<1>5. /\ call'[u] = "round"
      /\ \A v \in Users \ {u} : call'[v] = call[v]
      /\ current_offset'[f] = s[L].offset
      /\ \A g \in Files \ {f} : current_offset'[g] = current_offset[g]
  BY <1>3, <1>4 DEF IInv, CallbackInv, TypeCallbacks
<1>6. UNCHANGED <<files_array, image>>
  BY <1>4 DEF main, files
<1>7. Delivers(u, k)' /\ BufferedOf(u)'
  BY <1>2, <1>4, <1>6, LayersKept DEF ReadOf, Delivers, BufferedOf
<1>8. FramesAt(u, k) /\ s[L].rest = CountOf(u, L)
  BY <1>1, <1>2 DEF ReadOf, FramesAt
<1>9. ReadsAt(u)' = ReadsAt(u) /\ \A i : CountOf(u, i)' = CountOf(u, i)
  BY <1>4 DEF ReadsAt, CountOf
<1>10. ASSUME NEW i \in 1..L
       PROVE  current_offset'[s[i].file] = s[i].offset + (CountOf(u, i) - s[i].rest)
  <2>1. CASE i = L
    <3>1. s[L].offset \in Nat /\ s[L].rest \in Nat
      BY <1>3 DEF Frames
    <3>2. s[L].offset = s[L].offset + (CountOf(u, L) - s[L].rest)
      BY <1>8, <3>1
    <3> QED
      BY <1>5, <2>1, <3>2
  <2>2. CASE i # L
    <3>1. i < L /\ i \in 1..(L - 1)
      BY <1>3, <2>2
    <3>2. current_offset[s[i].file] = s[i].offset + (CountOf(u, i) - s[i].rest)
      BY <1>8, <3>1 DEF FramesAt
    <3>3. s[i].file \in Files \ {f}
      BY <1>3, <3>1 DEF Frames
    <3> QED
      BY <1>5, <3>2, <3>3
  <2> QED
    BY <2>1, <2>2
<1>11. FramesAt(u, k)'
  BY <1>4, <1>5, <1>6, <1>8, <1>9, <1>10, LayersKept DEF FramesAt
<1>12. OverlayOf(u)'
  <2>1. status[u] = "none"
    BY <1>1 DEF OverlayInv, OverlayOf
  <2> QED
    BY <1>2, <1>4, <1>5, <1>6, <1>7, <1>11, <2>1 DEF OverlayOf, ReadOf
<1>13. \A v \in Users \ {u}, g \in Files :
         writer[g] = v => current_offset'[g] = current_offset[g]
  BY <1>4, <1>5, MountConstants
<1> QED
  BY <1>4, <1>5, <1>12, <1>13, OverlayOfUser

(* The next cluster block is put in the buffer. *)
LEMMA DeliversMore ==
  ASSUME NEW u \in Users, NEW k, Delivers(u, k), NEW cell \in Cells,
         buffer \in [Users -> Seq(Cells)],
         asked[u].offset \in Nat,
         UNCHANGED <<files_array, image, entry, asked>>,
         buffer' = [buffer EXCEPT ![u] = Append(@, cell)],
         Has(k, asked[u].offset + Len(buffer[u])),
         cell = OverlayCell(k, asked[u].offset + Len(buffer[u]))
  PROVE  Delivers(u, k)' /\ Len(buffer'[u]) = Len(buffer[u]) + 1
<1> DEFINE b == buffer[u]
<1>1. b \in Seq(Cells) /\ buffer'[u] = Append(b, cell) /\ Len(b) \in Nat
  BY LenProperties
<1>2. /\ Len(buffer'[u]) = Len(b) + 1
      /\ \A i \in 1..Len(b) : buffer'[u][i] = b[i]
      /\ buffer'[u][Len(b) + 1] = cell
  BY <1>1, AppendFacts
<1>3. ASSUME NEW j \in 1..(Len(b) + 1)
      PROVE  /\ Has(k, asked[u].offset + j - 1)
             /\ buffer'[u][j] = OverlayCell(k, asked[u].offset + j - 1)
  <2>1. CASE j \in 1..Len(b)
    BY <1>2, <2>1 DEF Delivers
  <2>2. CASE j = Len(b) + 1
    <3>1. asked[u].offset + j - 1 = asked[u].offset + Len(b)
      BY <1>1, <2>2
    <3> QED
      BY <1>2, <2>2, <3>1
  <2> QED
    BY <1>1, <2>1, <2>2
<1>4. Delivers(u, k)'
  BY <1>2, <1>3, LayersKept DEF Delivers
<1> QED
  BY <1>2, <1>4

LEMMA RoundOwnOverlay ==
  ASSUME IInv, OverlayInv, NEW u \in Users, RoundOwn(u)
  PROVE  OverlayInv'
<1> DEFINE s == stack[u]
           L == Len(s)
           f == s[L].file
           top == [s[L] EXCEPT !.rest = @ - 1]
           t == Append(Front(s), top)
           c == ReadsAt(u)
<1>1. call[u] = "round"
  BY DEF RoundOwn
<1>2. PICK k \in 1..Len(files_array) : ReadOf(u, k)
  BY <1>1 DEF OverlayInv, OverlayOf
<1>3. /\ L \in 1..k /\ L \in Nat \ {0} /\ k \in Nat \ {0}
      /\ s \in Seq(Frames) /\ s # <<>>
      /\ s[L] \in Frames /\ f \in Files /\ Top(u) = s[L]
      /\ \A i \in 1..L : s[i] \in Frames
      /\ \A i \in 1..(L - 1) : s[i].file # f
      /\ asked[u].offset \in Nat /\ asked[u].count \in Nat
      /\ c \in Nat /\ Len(buffer[u]) \in Nat
  <2>1. call[u] \in {"grab", "round"}
    BY <1>1
  <2>2. /\ k \in Nat \ {0} /\ L \in 1..k /\ Top(u) = s[L]
        /\ \A i \in 1..L : s[i] \in Frames
        /\ asked[u].offset \in Nat /\ asked[u].count \in Nat
        /\ c \in Nat /\ Len(buffer[u]) \in Nat
    BY <1>2, <2>1, ReadTypes
  <2>3. s \in Seq(Frames) /\ s # <<>> /\ \A i \in 1..(L - 1) : s[i].file # f
    BY <2>1, StackFacts
  <2>4. L \in Nat \ {0} /\ L \in 1..L
    <3>1. \A l \in 1..k : l \in Nat \ {0} /\ l \in 1..l
      BY <2>2
    <3> QED
      BY <2>2, <3>1
  <2>5. s[L] \in Frames
    BY <2>2, <2>4
  <2>6. f \in Files
    BY <2>5 DEF Frames
  <2> QED
    BY <2>2, <2>3, <2>4, <2>5, <2>6
<1>30. /\ L \in Nat \ {0} /\ k \in Nat \ {0} /\ L <= k
       /\ L \in 1..L /\ (L = 1 \/ 1 \in 1..(L - 1)) /\ (L = 1 \/ L > 1)
       /\ Len(files_array) \in Nat
  <2>1. L \in Nat \ {0} /\ k \in Nat \ {0} /\ L \in 1..k
    BY <1>3
  <2>2. Len(files_array) \in Nat
    BY LenProperties DEF IInv, MainInv, TypeMain
  <2> HIDE DEF L
  <2> QED
    BY <2>1, <2>2
<1>4. Top(u).rest # 0 /\ ~MediaEnds(u)
  BY DEF RoundOwn, LoopEnds
<1>5. /\ current_offset[f] = c
      /\ s[L].rest \in Nat \ {0}
      /\ L > 1 => s[L].rest = 1
      /\ s[1].rest \in Nat \ {0}
      /\ Len(buffer[u]) = asked[u].count - s[1].rest
      /\ c = asked[u].offset + Len(buffer[u])
      /\ \A i \in (k - L + 2)..k : Has(i, c) /\ Block[Layer(i)][c] = "hole"
      /\ Has(k - L + 1, c)
      /\ KindAt(u) = Block[Layer(k - L + 1)][c]
  BY <1>1, <1>2, <1>3, <1>4, TopReads
<1> DEFINE cell == IF KindAt(u) = "data" THEN DataCell(image[f], c) ELSE ZeroCell
<1>6. /\ buffer' = [buffer EXCEPT ![u] = Append(@, cell)]
      /\ current_offset' = [current_offset EXCEPT ![f] = @ + 1]
      /\ stack' = [stack EXCEPT ![u] = t]
      /\ UNCHANGED <<main, files, entry, call, asked, status>>
  BY <1>3, <1>5 DEF RoundOwn, Replace
<1>7. \/ KindAt(u) = "data"
      \/ KindAt(u) = "hole" /\ parent_file[f] = NoFile
  BY <1>3 DEF RoundOwn
<1>8. /\ k - L + 1 \in 1..k
      /\ k - L + 1 \in 1..Len(files_array)
      /\ f = files_array[k - L + 1]
      /\ image[f] = Layer(k - L + 1)
  <2>1. L \in 1..L
    BY <1>3
  <2> QED
    BY <1>1, <1>2, <2>1, ReadTypes
<1>9. UNCHANGED <<files_array, image>>
  BY <1>6 DEF main, files
<1>10. cell \in Cells
  BY <1>3, <1>5, CellTypes
<1>11. cell = OverlayCell(k, c)
  <2>1. \A i \in (k - L + 1 + 1)..k : Block[Layer(i)][c] = "hole"
    <3>1. k - L + 1 + 1 = k - L + 2
      BY <1>3
    <3> QED
      BY <1>5, <3>1
  <2>2. CASE KindAt(u) = "data"
    <3> DEFINE m == k - L + 1
    <3>1. m \in 1..k /\ Has(m, c) /\ Block[Layer(m)][c] = "data"
      BY <1>5, <1>8, <2>2
    <3>2. cell = DataCell(Layer(m), c)
      BY <1>8, <2>2
    <3>3. k \in Nat /\ \A i \in (m + 1)..k : Block[Layer(i)][c] = "hole"
      BY <1>30, <2>1
    <3> HIDE DEF m, cell, c
    <3> QED
      BY <3>1, <3>2, <3>3, StoredCell
  <2>3. CASE KindAt(u) = "hole" /\ parent_file[f] = NoFile
    <3>1. k - L + 1 = 1
      <4>1. CASE k - L + 1 \in 2..Len(files_array)
        <5> DEFINE m == k - L + 1
        <5>1. parent_file[files_array[m]] = files_array[m - 1]
          BY <4>1 DEF IInv, MainInv, ArrayChain
        <5>2. m - 1 \in 1..Len(files_array)
          <6>1. m \in 2..Len(files_array) /\ Len(files_array) \in Nat
            BY <1>30, <4>1
          <6> HIDE DEF m
          <6> QED
            BY <6>1
        <5>3. files_array[m - 1] \in Files
          BY <5>2, LayerKnown
        <5> QED
          BY <1>8, <2>3, <5>1, <5>3, MountConstants
      <4> QED
        BY <1>8, <4>1
    <3>2. \A i \in 1..k : i = k - L + 1 \/ i \in (k - L + 1 + 1)..k
      BY <1>3, <3>1
    <3>3. \A i \in 1..k : Block[Layer(i)][c] = "hole"
      BY <1>5, <2>1, <2>3, <3>2
    <3>4. cell = ZeroCell
      BY <2>3
    <3> HIDE DEF cell, c
    <3> QED
      BY <1>3, <3>3, <3>4, NothingStored
  <2> QED
    BY <1>7, <2>2, <2>3
<1>12. /\ top \in Frames /\ top.file = f /\ top.offset = s[L].offset
       /\ top.rest = s[L].rest - 1
  <2>1. s[L] \in Frames /\ s[L].rest \in Nat \ {0}
    BY <1>3, <1>5
  <2> QED
    BY <2>1 DEF Frames
<1>13. /\ Len(t) = L
       /\ \A i \in 1..(L - 1) : t[i] = s[i]
       /\ t[L] = top
  <2>1. /\ Front(s) \in Seq(Frames)
        /\ Len(Front(s)) = L - 1
        /\ \A i \in 1..(L - 1) : Front(s)[i] = s[i]
    BY <1>3, FrontFacts
  <2>2. L - 1 + 1 = L
    BY <1>3
  <2> QED
    BY <1>12, <2>1, <2>2, AppendFacts
<1> HIDE DEF t, top, cell
<1>14. /\ stack'[u] = t
       /\ \A v \in Users \ {u} : stack'[v] = stack[v] /\ buffer'[v] = buffer[v]
       /\ current_offset'[f] = c + 1
       /\ \A g \in Files \ {f} : current_offset'[g] = current_offset[g]
  BY <1>3, <1>5, <1>6 DEF IInv, CallbackInv, TypeCallbacks
<1>15. Has(k, c)
  <2>1. k \in (k - L + 2)..k \/ k = k - L + 1
    BY <1>3
  <2> QED
    BY <1>5, <2>1
<1>16. Delivers(u, k)' /\ Len(buffer'[u]) = Len(buffer[u]) + 1
  <2>1. Delivers(u, k) /\ buffer \in [Users -> Seq(Cells)]
    BY <1>2 DEF ReadOf, IInv, CallbackInv, TypeCallbacks
  <2> HIDE DEF c
  <2> QED
    BY <1>3, <1>5, <1>6, <1>9, <1>10, <1>11, <1>15, <2>1, DeliversMore
<1> HIDE DEF c
<1>17. \A i : CountOf(u, i)' = CountOf(u, i)
  BY <1>6 DEF CountOf
<1>18. FramesAt(u, k)
  BY <1>2 DEF ReadOf
<1>19. /\ L = 1 => t[1].rest = s[1].rest - 1
       /\ L > 1 => t[1] = s[1] /\ t[L].rest = 0
  <2>1. L > 1 => 1 \in 1..(L - 1)
    BY <1>30
  <2>2. L > 1 => t[1] = s[1]
    BY <1>13, <2>1
  <2>3. L > 1 => t[L].rest = 0
    BY <1>5, <1>12, <1>13
  <2> QED
    BY <1>12, <1>13, <2>2, <2>3
<1>20. BufferedOf(u)'
  <2>1. Len(buffer'[u]) = (asked[u].count - s[1].rest) + 1
    BY <1>5, <1>16
  <2>2. CASE L = 1
    <3>1. (asked[u].count - s[1].rest) + 1 = (asked[u].count - t[1].rest) + 0
      <4>1. asked[u].count \in Nat /\ s[1].rest \in Nat
        BY <1>3, <1>5
      <4>2. t[1].rest = s[1].rest - 1
        BY <1>19, <2>2
      <4> QED
        BY <4>1, <4>2
    <3> QED
      BY <1>6, <1>13, <1>14, <2>1, <2>2, <3>1 DEF BufferedOf
  <2>3. CASE L > 1
    <3>1. 1 - t[L].rest = 1 /\ L # 1
      BY <1>3, <1>19, <2>3
    <3> QED
      BY <1>6, <1>13, <1>14, <1>19, <2>1, <2>3, <3>1 DEF BufferedOf
  <2>4. L = 1 \/ L > 1
    BY <1>30
  <2> QED
    BY <2>2, <2>3, <2>4
<1>21. L > 1 => ReadsAt(u)' = c
  BY <1>6, <1>14, <1>19 DEF ReadsAt, c
<1>22. FramesAt(u, k)'
  <2>1. ASSUME NEW i \in 1..L
        PROVE  /\ t[i].file = files_array[k - i + 1]
               /\ t[i].rest <= CountOf(u, i)
               /\ i > 1 => t[i].offset = c
               /\ i < L =>
                    /\ Has(k - i + 1, c)
                    /\ Block[Layer(k - i + 1)][c] = "hole"
                    /\ i > 1 => t[i].rest = 1
               /\ current_offset'[t[i].file] = t[i].offset + (CountOf(u, i) - t[i].rest)
    <3>1. CASE i = L
      <4>1. /\ s[L].file = files_array[k - L + 1]
            /\ s[L].rest <= CountOf(u, L)
            /\ L > 1 => s[L].offset = c
            /\ current_offset[f] = s[L].offset + (CountOf(u, L) - s[L].rest)
        <5>1. \A m \in 1..L :
                /\ s[m].file = files_array[k - m + 1]
                /\ s[m].rest <= CountOf(u, m)
                /\ m > 1 => s[m].offset = c
                /\ current_offset[s[m].file] = s[m].offset + (CountOf(u, m) - s[m].rest)
          BY <1>1, <1>18 DEF FramesAt, c
        <5> QED
          BY <1>30, <5>1
      <4>2. s[L].offset \in Nat /\ CountOf(u, L) \in Nat
        BY <1>3 DEF Frames, CountOf
      <4>3. /\ s[L].rest - 1 <= CountOf(u, L)
            /\ c + 1 = s[L].offset + (CountOf(u, L) - (s[L].rest - 1))
        <5>1. s[L].rest \in Nat
          BY <1>5
        <5>2. c = s[L].offset + (CountOf(u, L) - s[L].rest)
          BY <1>5, <4>1
        <5>3. \A o, n, r \in Nat :
                r <= n => r - 1 <= n /\ (o + (n - r)) + 1 = o + (n - (r - 1))
          OBVIOUS
        <5>4. s[L].rest <= CountOf(u, L)
          BY <4>1
        <5> HIDE DEF L
        <5> QED
          BY <4>2, <5>1, <5>2, <5>3, <5>4
      <4> QED
        <5>1. t[L].file = f /\ t[L].offset = s[L].offset /\ t[L].rest = s[L].rest - 1
          BY <1>12, <1>13
        <5>2. current_offset'[t[L].file] = c + 1 /\ ~(L < L)
          BY <1>14, <1>30, <5>1
        <5> QED
          BY <3>1, <4>1, <4>3, <5>1, <5>2
    <3>2. CASE i # L
      <4>1. i < L /\ i \in 1..(L - 1) /\ t[i] = s[i]
        <5> HIDE DEF L, s, t
        <5>1. i < L /\ i \in 1..(L - 1)
          BY <1>3, <3>2
        <5> QED
          BY <1>13, <5>1
      <4>2. /\ s[i].file = files_array[k - i + 1]
            /\ s[i].rest <= CountOf(u, i)
            /\ i > 1 => s[i].offset = c
            /\ Has(k - i + 1, c)
            /\ Block[Layer(k - i + 1)][c] = "hole"
            /\ i > 1 => s[i].rest = 1
            /\ current_offset[s[i].file] = s[i].offset + (CountOf(u, i) - s[i].rest)
        BY <1>18, <4>1 DEF FramesAt, c
      <4>3. s[i].file \in Files \ {f}
        BY <1>3, <4>1 DEF Frames
      <4> QED
        BY <1>14, <4>1, <4>2, <4>3
    <3> QED
      BY <3>1, <3>2
  <2>2. t[1].offset = asked[u].offset
    <3>1. s[1].offset = asked[u].offset
      BY <1>18 DEF FramesAt
    <3>2. L = 1 \/ 1 \in 1..(L - 1)
      BY <1>30
    <3> QED
      BY <1>12, <1>13, <3>1, <3>2
  <2>3. \A i \in 1..L : i > 1 \/ i < L => ReadsAt(u)' = c
    BY <1>3, <1>21
  <2>4. L <= k /\ call'[u] # "grab"
    BY <1>1, <1>3, <1>6
  <2>5. ASSUME NEW i \in 1..L
        PROVE  /\ t[i].file = files_array'[k - i + 1]
               /\ t[i].rest <= CountOf(u, i)'
               /\ i > 1 => t[i].offset = ReadsAt(u)'
               /\ i < L =>
                    /\ Has(k - i + 1, ReadsAt(u))'
                    /\ (Block[Layer(k - i + 1)][ReadsAt(u)])' = "hole"
                    /\ i > 1 => t[i].rest = 1
               /\ current_offset'[t[i].file] = t[i].offset + (CountOf(u, i)' - t[i].rest)
    <3>1. i < L => /\ Has(k - i + 1, ReadsAt(u))'
                   /\ (Block[Layer(k - i + 1)][ReadsAt(u)])' = "hole"
      BY <1>9, <2>1, <2>3, LayersKept DEF Has, Layer
    <3> QED
      BY <1>9, <1>17, <2>1, <2>3, <3>1
  <2>6. stack'[u] = t /\ Len(t) = L /\ t[1].offset = asked'[u].offset
    BY <1>6, <1>13, <1>14, <2>2
  <2> QED
    BY <2>4, <2>5, <2>6 DEF FramesAt
<1>23. OverlayOf(u)'
  <2>1. status[u] = "none"
    BY <1>1 DEF OverlayInv, OverlayOf
  <2> QED
    BY <1>1, <1>2, <1>6, <1>9, <1>16, <1>20, <1>22, <2>1 DEF OverlayOf, ReadOf
<1>24. \A v \in Users \ {u}, g \in Files :
         writer[g] = v => current_offset'[g] = current_offset[g]
  <2>1. writer[f] = u
    <3>1. {g \in Files : writer[g] = u} = {s[i].file : i \in 1..L}
      BY <1>1 DEF IInv, CallbackInv, LocksOf
    <3>2. f \in {s[i].file : i \in 1..L}
      BY <1>3
    <3> QED
      BY <3>1, <3>2
  <2> QED
    BY <1>14, <2>1
<1> QED
  BY <1>6, <1>14, <1>23, <1>24, OverlayOfUser


LEMMA RoundParentOverlay ==
  ASSUME IInv, OverlayInv, NEW u \in Users, RoundParent(u)
  PROVE  OverlayInv'
<1> DEFINE s == stack[u]
           L == Len(s)
           f == s[L].file
           c == ReadsAt(u)
           frame == Frame(parent_file[f], c, 1)
           t == Append(s, frame)
<1>1. call[u] = "round"
  BY DEF RoundParent
<1>2. PICK k \in 1..Len(files_array) : ReadOf(u, k)
  BY <1>1 DEF OverlayInv, OverlayOf
<1>3. /\ L \in 1..k /\ L \in Nat \ {0} /\ k \in Nat \ {0}
      /\ s \in Seq(Frames)
      /\ s[L] \in Frames /\ f \in Files /\ Top(u) = s[L]
      /\ asked[u].count \in Nat /\ c \in Nat
  <2>1. s \in Seq(Frames) /\ L \in Nat \ {0} /\ Top(u) = s[L] /\ Top(u) \in Frames
    BY <1>1, StackFacts
  <2>2. s[L].file \in Files
    BY <2>1 DEF Frames
  <2>3. L \in 1..k /\ k \in Nat \ {0} /\ asked[u].count \in Nat /\ c \in Nat
    BY <1>1, <1>2, ReadTypes
  <2> QED
    BY <2>1, <2>2, <2>3
<1>4. Top(u).rest # 0 /\ ~MediaEnds(u) /\ KindAt(u) = "hole" /\ parent_file[f] # NoFile
  BY <1>3 DEF RoundParent, LoopEnds
<1>5. /\ current_offset[f] = c
      /\ s[L].rest \in Nat \ {0}
      /\ L > 1 => s[L].rest = 1
      /\ Len(buffer[u]) = asked[u].count - s[1].rest
      /\ Has(k - L + 1, c)
      /\ Block[Layer(k - L + 1)][c] = "hole"
  BY <1>1, <1>2, <1>3, <1>4, TopReads
<1>6. /\ L \in 1..L /\ L # 0 /\ 1 \in 1..L /\ L + 1 # 1 /\ L + 1 > 1
      /\ k - (L + 1) + 1 = (k - L + 1) - 1
  <2>1. L \in Nat \ {0} /\ k \in Nat
    BY <1>3
  <2> HIDE DEF L
  <2> QED
    BY <2>1
<1>7. /\ stack' = [stack EXCEPT ![u] = t]
      /\ call' = [call EXCEPT ![u] = "grab"]
      /\ UNCHANGED <<main, files, current_offset, entry, buffer, asked, status>>
  BY <1>3, <1>5 DEF RoundParent, Goto
<1>8. UNCHANGED <<files_array, image>>
  BY <1>7 DEF main, files
<1>9. /\ f = files_array[k - L + 1] /\ k - L + 1 \in 1..Len(files_array)
      /\ k - L + 1 \in 1..k
  BY <1>1, <1>2, <1>6, ReadTypes
<1>10. k - L + 1 # 1
  <2>1. files_array # <<>> => parent_file[files_array[1]] = NoFile
    BY DEF IInv, MainInv, ArrayChain
  <2>2. files_array # <<>>
    BY <1>1, StackFacts DEF IInv, MainInv, HandOfPhase
  <2> QED
    BY <1>4, <1>9, <2>1, <2>2
<1>11. parent_file[f] = files_array[k - (L + 1) + 1] /\ L + 1 <= k
  <2> DEFINE m == k - L + 1
  <2>1. m \in 1..k /\ m # 1 /\ m \in 1..Len(files_array)
    BY <1>9, <1>10
  <2>2. m \in 2..Len(files_array)
    BY <2>1
  <2>3. parent_file[files_array[m]] = files_array[m - 1]
    BY <2>2 DEF IInv, MainInv, ArrayChain
  <2>4. L + 1 <= k
    <3>1. L \in Nat /\ k \in Nat /\ L <= k /\ k - L + 1 # 1
      BY <1>3, <1>10
    <3> HIDE DEF L
    <3> QED
      BY <3>1
  <2> QED
    BY <1>6, <1>9, <2>3, <2>4
<1>12. parent_file[f] \in Files
  BY <1>3, <1>4 DEF IInv, MainInv, TypeMain
<1>13. /\ frame \in Frames /\ frame.file = parent_file[f]
       /\ frame.offset = c /\ frame.rest = 1
  BY <1>3, <1>12 DEF Frame, Frames
<1> HIDE DEF frame
<1>14. /\ Len(t) = L + 1
       /\ \A i \in 1..L : t[i] = s[i]
       /\ t[L + 1] = frame
  BY <1>3, <1>13, AppendFacts
<1> HIDE DEF t
<1>15. /\ stack'[u] = t /\ call'[u] = "grab"
       /\ \A v \in Users \ {u} : stack'[v] = stack[v] /\ call'[v] = call[v]
  BY <1>7 DEF IInv, CallbackInv, TypeCallbacks
<1>16. t[1] = s[1]
  BY <1>6, <1>14
<1>17. ReadsAt(u)' = c /\ \A i : CountOf(u, i)' = CountOf(u, i)
  BY <1>7, <1>15, <1>16 DEF ReadsAt, CountOf
<1> HIDE DEF c
<1>18. Delivers(u, k)'
  BY <1>2, <1>7, <1>8, LayersKept DEF ReadOf, Delivers
<1>19. BufferedOf(u)'
  <2>1. 1 - t[L + 1].rest = 0
    BY <1>13, <1>14
  <2>2. Len(buffer[u]) = (asked[u].count - s[1].rest) + 0
    <3>1. asked[u].count \in Nat /\ s[1].rest \in Nat
      BY <1>1, <1>3, <1>6, StackFacts DEF Frames
    <3> QED
      BY <1>5, <3>1
  <2> QED
    BY <1>6, <1>7, <1>14, <1>15, <1>16, <2>1, <2>2 DEF BufferedOf
<1>20. FramesAt(u, k)
  BY <1>2 DEF ReadOf
<1>21. ASSUME NEW i \in 1..(L + 1)
       PROVE  /\ t[i].file = files_array[k - i + 1]
              /\ t[i].rest <= CountOf(u, i)
              /\ i > 1 => t[i].offset = c
              /\ i < L + 1 =>
                   /\ Has(k - i + 1, c)
                   /\ Block[Layer(k - i + 1)][c] = "hole"
                   /\ i > 1 => t[i].rest = 1
                   /\ current_offset[t[i].file] = t[i].offset + (CountOf(u, i) - t[i].rest)
  <2>1. CASE i = L + 1
    <3>1. ~(i < L + 1) /\ CountOf(u, i) = 1 /\ 1 <= 1
      BY <1>6, <2>1 DEF CountOf
    <3> QED
      BY <1>11, <1>13, <1>14, <2>1, <3>1
  <2>2. CASE i \in 1..L
    <3>1. /\ s[i].file = files_array[k - i + 1]
          /\ s[i].rest <= CountOf(u, i)
          /\ i > 1 => s[i].offset = c
          /\ i < L =>
               /\ Has(k - i + 1, c)
               /\ Block[Layer(k - i + 1)][c] = "hole"
               /\ i > 1 => s[i].rest = 1
          /\ current_offset[s[i].file] = s[i].offset + (CountOf(u, i) - s[i].rest)
      BY <1>1, <1>20, <2>2 DEF FramesAt, c
    <3>2. i = L \/ i < L
      BY <1>3, <2>2
    <3>3. /\ Has(k - i + 1, c)
          /\ Block[Layer(k - i + 1)][c] = "hole"
          /\ i > 1 => s[i].rest = 1
      BY <1>5, <3>1, <3>2
    <3> QED
      BY <1>14, <2>2, <3>1, <3>3
  <2> QED
    BY <1>3, <2>1, <2>2
<1>22. FramesAt(u, k)'
  <2>1. ASSUME NEW i \in 1..(L + 1)
        PROVE  /\ t[i].file = files_array'[k - i + 1]
               /\ t[i].rest <= CountOf(u, i)'
               /\ i > 1 => t[i].offset = ReadsAt(u)'
               /\ i < L + 1 =>
                    /\ Has(k - i + 1, ReadsAt(u))'
                    /\ (Block[Layer(k - i + 1)][ReadsAt(u)])' = "hole"
                    /\ i > 1 => t[i].rest = 1
                    /\ current_offset'[t[i].file]
                         = t[i].offset + (CountOf(u, i)' - t[i].rest)
    <3>1. i < L + 1 => /\ Has(k - i + 1, ReadsAt(u))'
                       /\ (Block[Layer(k - i + 1)][ReadsAt(u)])' = "hole"
      BY <1>8, <1>17, <1>21, LayersKept DEF Has, Layer
    <3> QED
      BY <1>7, <1>8, <1>17, <1>21, <3>1
  <2>2. t[1].offset = asked'[u].offset
    BY <1>7, <1>16, <1>20 DEF FramesAt
  <2>3. t[L + 1].rest = (CountOf(u, Len(stack[u])))'
    <3>1. CountOf(u, L + 1) = 1
      BY <1>6 DEF CountOf
    <3>2. (CountOf(u, Len(stack[u])))' = CountOf(u, L + 1)
      BY <1>7, <1>14, <1>15 DEF CountOf
    <3> QED
      BY <1>13, <1>14, <3>1, <3>2
  <2>4. stack'[u] = t /\ Len(t) = L + 1 /\ call'[u] = "grab" /\ L + 1 <= k
    BY <1>11, <1>14, <1>15
  <2> QED
    BY <2>1, <2>2, <2>3, <2>4 DEF FramesAt
<1>23. OverlayOf(u)'
  <2>1. status[u] = "none"
    BY <1>1 DEF OverlayInv, OverlayOf
  <2> QED
    BY <1>2, <1>7, <1>8, <1>15, <1>18, <1>19, <1>22, <2>1 DEF OverlayOf, ReadOf
<1> QED
  BY <1>7, <1>15, <1>23, OverlayOfUser

(* A layer cannot be read, or ends, where those above it have holes. *)
LEMMA AbandonOverlay ==
  ASSUME IInv, OverlayInv, NEW u \in Users, call[u] = "round",
         RoundFails(u) \/ ParentFallsShort(u)
  PROVE  OverlayInv'
<1> DEFINE L == Len(stack[u])
           c == ReadsAt(u)
<1>1. PICK k \in 1..Len(files_array) : ReadOf(u, k)
  BY DEF OverlayInv, OverlayOf
<1>2. /\ L \in 1..k /\ L \in Nat \ {0} /\ k \in Nat \ {0}
      /\ Top(u) \in Frames
      /\ asked[u].offset \in Nat /\ asked[u].count \in Nat
      /\ c \in Nat /\ Len(buffer[u]) \in Nat
  BY <1>1, ReadTypes, StackFacts
<1>3. /\ call' = [call EXCEPT ![u] = "answer"]
      /\ status' = [status EXCEPT ![u] = "error"]
      /\ stack' = [stack EXCEPT ![u] = <<>>]
      /\ UNCHANGED <<main, files, current_offset, entry, buffer, asked>>
  BY DEF RoundFails, ParentFallsShort, Abandon, Answer, Goto
<1>4. /\ Top(u).rest # 0
      /\ KindAt(u) = "bad" \/ MediaEnds(u)
      /\ L > 1 \/ ~MediaEnds(u)
  <2>1. CASE RoundFails(u)
    BY <2>1 DEF RoundFails, LoopEnds
  <2>2. CASE ParentFallsShort(u)
    <3>1. Top(u).rest > 0 /\ LoopEnds(u) /\ L > 1
      BY <2>2 DEF ParentFallsShort
    <3> QED
      BY <1>2, <3>1 DEF LoopEnds, Frames
  <2> QED
    BY <2>1, <2>2
<1>5. /\ stack[u][1].rest \in Nat \ {0}
      /\ Len(buffer[u]) = asked[u].count - stack[u][1].rest
      /\ c = asked[u].offset + Len(buffer[u])
      /\ \A i \in (k - L + 2)..k : Has(i, c) /\ Block[Layer(i)][c] = "hole"
      /\ \/ ~Has(k - L + 1, c)
         \/ Block[Layer(k - L + 1)][c] = "bad"
      /\ L > 1 \/ Has(k - L + 1, c)
  BY <1>1, <1>4, TopReads
<1>6. k - L + 1 \in 1..k /\ k - L + 1 + 1 = k - L + 2
      /\ (L > 1 => k \in (k - L + 2)..k)
      /\ (~(L > 1) => k = k - L + 1)
  <2>1. L \in 1..k /\ L \in Nat /\ k \in Nat
    BY <1>2
  <2> HIDE DEF L
  <2> QED
    BY <2>1
<1>7. Damaged(k, c)
  BY <1>5, <1>6 DEF Damaged
<1>8. c \in Wanted(u, k)
  <2>1. Has(k, c)
    BY <1>5, <1>6
  <2>2. asked[u].offset <= c /\ c <= asked[u].offset + asked[u].count - 1
    <3>1. /\ asked[u].offset \in Nat /\ asked[u].count \in Nat
          /\ Len(buffer[u]) \in Nat
      BY <1>2
    <3>2. /\ stack[u][1].rest \in Nat \ {0}
          /\ Len(buffer[u]) = asked[u].count - stack[u][1].rest
          /\ c = asked[u].offset + Len(buffer[u])
      BY <1>5
    <3>3. \A o, n, b \in Nat, r \in Nat \ {0} :
            b = n - r => o <= o + b /\ o + b <= o + n - 1
      OBVIOUS
    <3>4. /\ asked[u].offset <= asked[u].offset + Len(buffer[u])
          /\ asked[u].offset + Len(buffer[u]) <= asked[u].offset + asked[u].count - 1
      <4> HIDE DEF c
      <4> QED
        BY <3>1, <3>2, <3>3
    <3> HIDE DEF c
    <3> QED
      BY <3>2, <3>4
  <2> QED
    BY <1>2, <2>1, <2>2 DEF Wanted
<1> HIDE DEF c
<1>9. UNCHANGED <<files_array, image>>
  BY <1>3 DEF main, files
<1>10. /\ call'[u] = "answer" /\ status'[u] = "error"
       /\ \A v \in Users \ {u} : /\ call'[v] = call[v] /\ status'[v] = status[v]
                                /\ stack'[v] = stack[v]
  BY <1>3 DEF IInv, CallbackInv, TypeCallbacks
<1>11. Delivers(u, k)'
  BY <1>1, <1>3, <1>9, LayersKept DEF ReadOf, Delivers
<1>12. Wanted(u, k)' = Wanted(u, k)
  BY <1>3, <1>9, LayersKept DEF Wanted
<1>13. AnswerOf(u, k)'
  BY <1>7, <1>8, <1>9, <1>10, <1>11, <1>12, LayersKept DEF AnswerOf
<1>14. OverlayOf(u)'
  BY <1>9, <1>10, <1>13 DEF OverlayOf
<1> QED
  BY <1>3, <1>10, <1>14, OverlayOfUser

(* The read of the entry has all it was asked for, or all the media has. *)
LEMMA ReadReturnsOverlay ==
  ASSUME IInv, OverlayInv, NEW u \in Users, ReadReturns(u)
  PROVE  OverlayInv'
<1> DEFINE d == Len(buffer[u])
           first == asked[u].offset
<1>1. call[u] = "round" /\ Len(stack[u]) = 1 /\ LoopEnds(u)
  BY DEF ReadReturns
<1>2. PICK k \in 1..Len(files_array) : ReadOf(u, k)
  BY <1>1 DEF OverlayInv, OverlayOf
<1>3. /\ k \in Nat \ {0} /\ k - 1 + 1 = k
      /\ Top(u) = stack[u][1] /\ stack[u][1] \in Frames
      /\ stack[u][1].rest <= asked[u].count
      /\ first \in Nat /\ asked[u].count \in Nat /\ d \in Nat
  <2>1. 1 \in 1..Len(stack[u]) /\ CountOf(u, 1) = asked[u].count
    BY <1>1 DEF CountOf
  <2>2. /\ k \in Nat \ {0}
        /\ Top(u) = stack[u][Len(stack[u])]
        /\ \A i \in 1..Len(stack[u]) :
             stack[u][i] \in Frames /\ stack[u][i].rest <= CountOf(u, i)
        /\ asked[u].offset \in Nat /\ asked[u].count \in Nat
        /\ Len(buffer[u]) \in Nat
    BY <1>1, <1>2, ReadTypes
  <2>3. k - 1 + 1 = k
    BY <2>2
  <2> QED
    BY <1>1, <2>1, <2>2, <2>3
<1>4. /\ call' = [call EXCEPT ![u] = "answer"]
      /\ status' = [status EXCEPT ![u] = "ok"]
      /\ stack' = [stack EXCEPT ![u] = <<>>]
      /\ UNCHANGED <<main, files, current_offset, entry, buffer, asked>>
  BY DEF ReadReturns, Answer, Goto
<1>5. d = asked[u].count - stack[u][1].rest
  <2>1. d = (asked[u].count - stack[u][1].rest) + 0
    BY <1>1, <1>2 DEF ReadOf, BufferedOf
  <2> QED
    BY <1>3, <2>1 DEF Frames
<1>6. d = asked[u].count \/ (d < asked[u].count /\ ~Has(k, first + d))
  <2>1. CASE Top(u).rest = 0
    BY <1>3, <1>5, <2>1
  <2>2. CASE Top(u).rest # 0
    <3>1. MediaEnds(u)
      BY <1>1, <2>2 DEF LoopEnds
    <3>2. ~Has(k, ReadsAt(u)) /\ ReadsAt(u) = first + d
      BY <1>1, <1>2, <1>3, <2>2, <3>1, TopReads
    <3>3. stack[u][1].rest \in Nat \ {0}
      BY <1>3, <2>2 DEF Frames
    <3> QED
      BY <1>3, <1>5, <3>2, <3>3
  <2> QED
    BY <2>1, <2>2
<1>7. \A j \in 1..d : Has(k, first + j - 1)
  BY <1>2 DEF ReadOf, Delivers
<1>8. Wanted(u, k) = first..(first + d - 1)
  <2>1. MediaSize[Layer(k)] \in Nat
    BY LayerKnown
  <2>2. ASSUME NEW o \in first..(first + d - 1)
        PROVE  o \in first..(first + asked[u].count - 1) /\ Has(k, o)
    <3>0. first \in Nat /\ d \in Nat /\ asked[u].count \in Nat /\ d <= asked[u].count
      BY <1>3, <1>6
    <3> HIDE DEF first, d
    <3>1. o - first + 1 \in 1..d /\ first + (o - first + 1) - 1 = o
      BY <3>0
    <3>2. o \in first..(first + asked[u].count - 1)
      BY <3>0
    <3>3. Has(k, first + (o - first + 1) - 1)
      BY <1>7, <3>1
    <3> QED
      BY <3>1, <3>2, <3>3
  <2>3. ASSUME NEW o \in first..(first + asked[u].count - 1), Has(k, o)
        PROVE  o \in first..(first + d - 1)
    BY <1>3, <1>6, <2>1, <2>3 DEF Has
  <2> QED
    BY <2>2, <2>3 DEF Wanted
<1>9. Cardinality(Wanted(u, k)) = d
  <2>1. first \in Int /\ first + d - 1 \in Int
    BY <1>3
  <2>2. Cardinality(first..(first + d - 1))
          = IF first > first + d - 1 THEN 0 ELSE (first + d - 1) - first + 1
    BY <2>1, FS_Interval
  <2>3. (IF first > first + d - 1 THEN 0 ELSE (first + d - 1) - first + 1) = d
    BY <1>3
  <2> QED
    BY <1>8, <2>2, <2>3
<1>10. UNCHANGED <<files_array, image>>
  BY <1>4 DEF main, files
<1>11. /\ call'[u] = "answer" /\ status'[u] = "ok"
       /\ \A v \in Users \ {u} : /\ call'[v] = call[v] /\ status'[v] = status[v]
                                /\ stack'[v] = stack[v]
  BY <1>4 DEF IInv, CallbackInv, TypeCallbacks
<1>12. Delivers(u, k)'
  BY <1>2, <1>4, <1>10, LayersKept DEF ReadOf, Delivers
<1>13. Wanted(u, k)' = Wanted(u, k)
  BY <1>4, <1>10, LayersKept DEF Wanted
<1>14. AnswerOf(u, k)'
  BY <1>4, <1>9, <1>11, <1>12, <1>13 DEF AnswerOf
<1>15. OverlayOf(u)'
  BY <1>10, <1>11, <1>14 DEF OverlayOf
<1> QED
  BY <1>4, <1>11, <1>15, OverlayOfUser


(* The parent has put the cluster block in the buffer: its child goes on. *)
LEMMA ParentReturnsOverlay ==
  ASSUME IInv, OverlayInv, NEW u \in Users, ParentReturns(u)
  PROVE  OverlayInv'
<1> DEFINE s == stack[u]
           L == Len(s)
           M == L - 1
           g == s[M].file
           top == [s[M] EXCEPT !.rest = @ - 1]
           t == Append(Front(Front(s)), top)
           c == ReadsAt(u)
<1>1. call[u] = "round" /\ L > 1 /\ Top(u).rest = 0
  BY DEF ParentReturns
<1>2. PICK k \in 1..Len(files_array) : ReadOf(u, k)
  BY <1>1 DEF OverlayInv, OverlayOf
<1>3. /\ L \in 1..k /\ L \in Nat \ {0} /\ k \in Nat \ {0}
      /\ s \in Seq(Frames) /\ s # <<>> /\ Top(u) = s[L]
      /\ \A i \in 1..L : s[i] \in Frames
      /\ asked[u].count \in Nat
  BY <1>1, <1>2, ReadTypes, StackFacts
<1>4. /\ L \in 1..L /\ M \in 1..L /\ M \in 1..(L - 1) /\ M \in Nat \ {0} /\ L # 1
      /\ M < L /\ M + 1 = L /\ M - 1 = L - 2 /\ M <= k
      /\ (M = 1 \/ (M > 1 /\ 1 \in 1..(L - 2)))
      /\ 1 \in 1..(L - 1)
  <2>1. L \in 1..k /\ L \in Nat \ {0} /\ k \in Nat \ {0} /\ L > 1
    BY <1>1, <1>3
  <2> HIDE DEF L
  <2> QED
    BY <2>1
<1>5. /\ current_offset' = [current_offset EXCEPT ![g] = @ + 1]
      /\ stack' = [stack EXCEPT ![u] = t]
      /\ UNCHANGED <<main, files, entry, call, buffer, asked, status>>
  BY DEF ParentReturns
<1>6. FramesAt(u, k) /\ BufferedOf(u)
  BY <1>2 DEF ReadOf
<1>7. s[M] \in Frames /\ s[M].rest \in Nat \ {0}
  <2>1. s[M].rest > 0 /\ s[M] \in Frames
    BY <1>3, <1>4 DEF IInv, CallbackInv, DescendsOf
  <2> QED
    BY <2>1 DEF Frames
<1>8. \A i \in 1..(L - 1) :
        /\ s[i] \in Frames
        /\ s[i].file = files_array[k - i + 1]
        /\ s[i].rest <= CountOf(u, i)
        /\ i > 1 => s[i].offset = c
        /\ i > 1 => s[i].rest = 1
        /\ Has(k - i + 1, c)
        /\ Block[Layer(k - i + 1)][c] = "hole"
        /\ current_offset[s[i].file] = s[i].offset + (CountOf(u, i) - s[i].rest)
  <2>1. \A i \in 1..(L - 1) : i \in 1..L /\ i < L
    BY <1>3
  <2> QED
    BY <1>3, <1>6, <2>1 DEF FramesAt
<1>9. g \in Files /\ \A i \in 1..(L - 2) : s[i].file # g
  <2>1. g \in Files
    BY <1>7 DEF Frames
  <2>2. ASSUME NEW i \in 1..(L - 2) PROVE s[i].file # g
    <3>1. i \in 1..L /\ i < M
      BY <1>3
    <3>2. PICK p \in 1..Len(files_array) : files_array[p] = g
      BY <1>4 DEF IInv, CallbackInv, DescendsOf, InArray
    <3>3. s[i].file = g => p < p
      <4>1. \A m, n \in 1..L, q, r \in 1..Len(files_array) :
              /\ m < n
              /\ files_array[q] = s[m].file
              /\ files_array[r] = s[n].file
              => r < q
        BY DEF IInv, CallbackInv, DescendsOf
      <4>2. M \in 1..L
        BY <1>4
      <4> HIDE DEF L, M
      <4> QED
        BY <3>1, <3>2, <4>1, <4>2
    <3>4. p \in Nat
      OBVIOUS
    <3> QED
      BY <3>3, <3>4
  <2> QED
    BY <2>1, <2>2
<1>10. /\ top \in Frames /\ top.file = g /\ top.offset = s[M].offset
       /\ top.rest = s[M].rest - 1
  BY <1>7 DEF Frames
<1>11. /\ Len(t) = M
       /\ \A i \in 1..(L - 2) : t[i] = s[i]
       /\ t[M] = top
  <2>1. /\ Front(s) \in Seq(Frames)
        /\ Len(Front(s)) = L - 1
        /\ \A i \in 1..(L - 1) : Front(s)[i] = s[i]
    BY <1>3, FrontFacts
  <2>2. Front(s) # <<>>
    BY <1>4, <2>1
  <2>3. /\ Front(Front(s)) \in Seq(Frames)
        /\ Len(Front(Front(s))) = (L - 1) - 1
        /\ \A i \in 1..((L - 1) - 1) : Front(Front(s))[i] = Front(s)[i]
    BY <2>1, <2>2, FrontFacts
  <2>4. (L - 1) - 1 = L - 2 /\ (L - 2) + 1 = L - 1
    BY <1>3
  <2>5. \A i \in 1..(L - 2) : i \in 1..(L - 1)
    BY <1>3
  <2>6. \A i \in 1..(L - 2) : Front(Front(s))[i] = s[i]
    BY <2>1, <2>3, <2>4, <2>5
  <2>7. /\ Len(Front(Front(s))) = L - 2
        /\ Front(Front(s)) \in Seq(Frames)
    BY <2>3, <2>4
  <2> QED
    BY <1>10, <2>4, <2>6, <2>7, AppendFacts
<1> HIDE DEF t, top
<1>12. /\ stack'[u] = t
       /\ \A v \in Users \ {u} : stack'[v] = stack[v]
       /\ current_offset'[g] = current_offset[g] + 1
       /\ \A h \in Files \ {g} : current_offset'[h] = current_offset[h]
  BY <1>5, <1>9 DEF IInv, CallbackInv, TypeCallbacks
<1>13. UNCHANGED <<files_array, image>>
  BY <1>5 DEF main, files
<1>14. /\ M = 1 => t[1].rest = s[1].rest - 1
       /\ M > 1 => t[1] = s[1] /\ t[M].rest = 0
  <2>1. M > 1 => s[M].rest = 1
    BY <1>4, <1>8
  <2>2. M > 1 => t[1] = s[1]
    BY <1>4, <1>11
  <2>3. M > 1 => t[M].rest = 0
    BY <1>10, <1>11, <2>1
  <2>4. M = 1 => t[1].rest = s[1].rest - 1
    BY <1>10, <1>11
  <2> QED
    BY <2>2, <2>3, <2>4
<1>15. (M > 1 => ReadsAt(u)' = c) /\ \A i : CountOf(u, i)' = CountOf(u, i)
  BY <1>5, <1>12, <1>14 DEF ReadsAt, CountOf
<1> HIDE DEF c
<1>16. Delivers(u, k)'
  BY <1>2, <1>5, <1>13, LayersKept DEF ReadOf, Delivers
<1>17. BufferedOf(u)'
  <2>1. Len(buffer[u]) = (asked[u].count - s[1].rest) + 1
    <3>1. Len(buffer[u]) = (asked[u].count - s[1].rest) + (1 - s[L].rest)
      BY <1>4, <1>6 DEF BufferedOf
    <3> QED
      BY <1>1, <1>3, <3>1
  <2>2. CASE M = 1
    <3>1. (asked[u].count - s[1].rest) + 1 = (asked[u].count - t[1].rest) + 0
      <4>1. asked[u].count \in Nat /\ s[1].rest \in Nat
        BY <1>3, <1>7, <2>2
      <4>2. t[1].rest = s[1].rest - 1
        BY <1>14, <2>2
      <4> QED
        BY <4>1, <4>2
    <3> QED
      BY <1>5, <1>11, <1>12, <2>1, <2>2, <3>1 DEF BufferedOf
  <2>3. CASE M > 1
    <3>1. 1 - t[M].rest = 1 /\ M # 1
      <4>1. t[M].rest = 0 /\ M \in Nat
        BY <1>4, <1>14, <2>3
      <4> HIDE DEF M
      <4> QED
        BY <2>3, <4>1
    <3> QED
      BY <1>5, <1>11, <1>12, <1>14, <2>1, <2>3, <3>1 DEF BufferedOf
  <2> QED
    BY <1>4, <2>2, <2>3
<1>18. ASSUME NEW i \in 1..M
       PROVE  /\ t[i].file = files_array[k - i + 1]
              /\ t[i].rest <= CountOf(u, i)
              /\ i > 1 => t[i].offset = c
              /\ i < M =>
                   /\ Has(k - i + 1, c)
                   /\ Block[Layer(k - i + 1)][c] = "hole"
                   /\ i > 1 => t[i].rest = 1
              /\ current_offset'[t[i].file] = t[i].offset + (CountOf(u, i) - t[i].rest)
  <2>1. CASE i = M
    <3>1. /\ s[M].file = files_array[k - M + 1]
          /\ s[M].rest <= CountOf(u, M)
          /\ M > 1 => s[M].offset = c
          /\ current_offset[g] = s[M].offset + (CountOf(u, M) - s[M].rest)
      BY <1>4, <1>8
    <3>2. s[M].offset \in Nat /\ CountOf(u, M) \in Nat /\ s[M].rest \in Nat
      BY <1>3, <1>7 DEF Frames, CountOf
    <3>3. \A o, n, r \in Nat :
            r <= n => r - 1 <= n /\ (o + (n - r)) + 1 = o + (n - (r - 1))
      OBVIOUS
    <3>4. /\ s[M].rest - 1 <= CountOf(u, M)
          /\ current_offset[g] + 1
               = s[M].offset + (CountOf(u, M) - (s[M].rest - 1))
      <4>1. /\ s[M].rest <= CountOf(u, M)
            /\ current_offset[g] = s[M].offset + (CountOf(u, M) - s[M].rest)
        BY <3>1
      <4>2. /\ s[M].rest - 1 <= CountOf(u, M)
            /\ (s[M].offset + (CountOf(u, M) - s[M].rest)) + 1
                 = s[M].offset + (CountOf(u, M) - (s[M].rest - 1))
        <5> HIDE DEF M, s
        <5> QED
          BY <3>2, <3>3, <4>1
      <4> HIDE DEF M, s
      <4> QED
        BY <4>1, <4>2
    <3>5. ~(M < M)
      BY <1>4
    <3> QED
      BY <1>10, <1>11, <1>12, <2>1, <3>1, <3>4, <3>5
  <2>2. CASE i # M
    <3>1. i \in 1..(L - 2) /\ i \in 1..(L - 1)
      BY <1>4, <2>2
    <3>2. t[i] = s[i] /\ s[i].file \in Files \ {g}
      BY <1>8, <1>9, <1>11, <3>1 DEF Frames
    <3> QED
      BY <1>8, <1>12, <3>1, <3>2
  <2> QED
    BY <2>1, <2>2
<1>19. FramesAt(u, k)'
  <2>1. ASSUME NEW i \in 1..M
        PROVE  /\ t[i].file = files_array'[k - i + 1]
               /\ t[i].rest <= CountOf(u, i)'
               /\ i > 1 => t[i].offset = ReadsAt(u)'
               /\ i < M =>
                    /\ Has(k - i + 1, ReadsAt(u))'
                    /\ (Block[Layer(k - i + 1)][ReadsAt(u)])' = "hole"
                    /\ i > 1 => t[i].rest = 1
               /\ current_offset'[t[i].file]
                    = t[i].offset + (CountOf(u, i)' - t[i].rest)
    <3>1. i > 1 \/ i < M => ReadsAt(u)' = c
      <4>1. M \in Nat
        BY <1>4
      <4>2. i > 1 \/ i < M => M > 1
        BY <4>1
      <4> QED
        BY <1>15, <4>2
    <3>2. i < M => /\ Has(k - i + 1, ReadsAt(u))'
                   /\ (Block[Layer(k - i + 1)][ReadsAt(u)])' = "hole"
      BY <1>13, <1>18, <3>1, LayersKept DEF Has, Layer
    <3> QED
      BY <1>13, <1>15, <1>18, <3>1, <3>2
  <2>2. t[1].offset = asked'[u].offset
    <3>1. s[1].offset = asked[u].offset
      BY <1>6 DEF FramesAt
    <3> QED
      BY <1>4, <1>5, <1>10, <1>11, <3>1
  <2>3. stack'[u] = t /\ Len(t) = M /\ M <= k /\ call'[u] # "grab"
    BY <1>1, <1>4, <1>5, <1>11, <1>12
  <2> QED
    BY <2>1, <2>2, <2>3 DEF FramesAt
<1>20. OverlayOf(u)'
  <2>1. status[u] = "none"
    BY <1>1 DEF OverlayInv, OverlayOf
  <2> QED
    BY <1>1, <1>2, <1>5, <1>13, <1>16, <1>17, <1>19, <2>1 DEF OverlayOf, ReadOf
<1>21. \A v \in Users \ {u}, h \in Files :
         writer[h] = v => current_offset'[h] = current_offset[h]
  <2>1. writer[g] = u
    <3>1. {h \in Files : writer[h] = u} = {s[i].file : i \in 1..L}
      BY <1>1 DEF IInv, CallbackInv, LocksOf
    <3>2. g \in {s[i].file : i \in 1..L}
      BY <1>4
    <3> QED
      BY <3>1, <3>2
  <2> QED
    BY <1>12, <2>1
<1> QED
  BY <1>5, <1>12, <1>20, <1>21, OverlayOfUser

LEMMA NextOverlay == IInv /\ OverlayInv /\ [Next]_vars => OverlayInv'
<1> SUFFICES ASSUME IInv, OverlayInv, [Next]_vars PROVE OverlayInv'
  OBVIOUS
<1>1. CASE MainAction
  BY <1>1, MainOverlay
<1>2. ASSUME NEW u \in Users,
             \/ \E path \in Paths :
                  Open(u, path) \/ GetAttr(u, path) \/ FindFiles(u, path)
             \/ Release(u) \/ ReadDir(u)
      PROVE  OverlayInv'
  BY <1>2, LookingOverlay
<1>3. ASSUME NEW u \in Users, NEW offset \in 0..MaxOffset,
             NEW count \in 1..MaxCount, Read(u, offset, count)
      PROVE  OverlayInv'
  <2>1. offset \in Nat /\ count \in Nat
    BY MountConstants
  <2> QED
    BY <1>3, <2>1, ReadOverlay
<1>4. ASSUME NEW u \in Users, CallbackStep(u) PROVE OverlayInv'
  <2>1. CASE ReadDirEntry(u)
    BY <2>1, LookingOverlay
  <2>2. CASE RoundFails(u) \/ ParentFallsShort(u)
    BY <2>2, AbandonOverlay DEF RoundFails, ParentFallsShort
  <2> QED
    BY <1>4, <2>1, <2>2, GrabOverlay, RoundOwnOverlay, RoundParentOverlay,
       ParentReturnsOverlay, ReadReturnsOverlay, ReturnOverlay DEF CallbackStep
<1>5. CASE UNCHANGED vars
  <2>1. UNCHANGED <<files_array, image, state, current_offset, entry, call,
                    stack, buffer, asked, status>>
    BY <1>5 DEF vars, main, files, callbacks
  <2>2. ImagesKnown'
    BY <2>1 DEF OverlayInv, ImagesKnown
  <2>3. ASSUME NEW u \in Users PROVE OverlayOf(u)'
    BY <2>1, OtherOverlay DEF OverlayInv
  <2> QED
    BY <2>2, <2>3 DEF OverlayInv
<1> QED
  BY <1>1, <1>2, <1>3, <1>4, <1>5 DEF Next, MainAction

LEMMA OverlayInvariance == Spec => []OverlayInv
BY InitOverlay, NextOverlay, Invariance, PTL DEF Spec

(* A read of a mounted file delivers the overlay of its layers and all of  *)
(* what was asked for, or fails where the chain is damaged: for chains of  *)
(* any length, whoever else reads the same files, which share one current  *)
(* offset.                                                                 *)
THEOREM ReadsCorrect == Spec => []ReadsOverlay
<1>1. IInv /\ OverlayInv => ReadsOverlay
  <2> SUFFICES ASSUME IInv, OverlayInv PROVE ReadsOverlay
    OBVIOUS
  <2>1. DOMAIN files_array = 1..Len(files_array)
    BY LenProperties DEF IInv, MainInv, TypeMain
  <2>2. \A u \in Users : DOMAIN buffer[u] = 1..Len(buffer[u])
    BY LenProperties DEF IInv, CallbackInv, TypeCallbacks
  <2>3. ASSUME NEW u \in Users, asked[u] # NothingAsked, entry[u].file # NoFile
        PROVE  \E k \in 1..Len(files_array) : AnswerOf(u, k)
    <3>1. OverlayOf(u) /\ call[u] \in Calls
      BY DEF OverlayInv, IInv, CallbackInv, TypeCallbacks
    <3>2. CASE call[u] = "answer"
      BY <2>3, <3>1, <3>2 DEF OverlayOf
    <3>3. CASE call[u] \in {"grab", "round"}
      BY <3>1, <3>3 DEF OverlayOf, ReadOf, AnswerOf
    <3> QED
      BY <2>3, <3>1, <3>2, <3>3 DEF OverlayOf, Calls
  <2> QED
    BY <2>1, <2>2, <2>3 DEF ReadsOverlay, AnswerOf, Delivers, Wanted
<1> QED
  BY <1>1, Invariance, OverlayInvariance, PTL

-----------------------------------------------------------------------------
(* The names that a directory lists.                                       *)

(* The number of some digits, found one digit after the other. *)
LEMMA NumberByRecursion ==
  ASSUME NEW digits \in Seq(Digits)
  PROVE  \E f \in [0..Len(digits) -> Nat] :
           /\ f[0] = 0
           /\ \A k \in 1..Len(digits) : f[k] = (f[k - 1] * Radix) + digits[k]
           /\ NumberOf(digits) = f[Len(digits)]
<1> DEFINE L == Len(digits)
           More(k, v) == (v * Radix) + digits[k]
           F == CHOOSE f : f = [k \in 0..L |-> IF k = 0 THEN 0 ELSE More(k, f[k - 1])]
           Step == [p \in (0..L) \X Nat |->
                      IF p[1] = 0 THEN 0 ELSE More(p[1], p[2])]
<1>1. L \in Nat /\ L \in Int /\ 0 <= L /\ 0 \in Int /\ 0 \in Nat
  BY LenProperties
<1>2. ASSUME NEW k \in 0..L, k # 0, NEW v \in Nat PROVE More(k, v) \in Nat
  <2>1. digits[k] \in Digits
    BY <1>1, <1>2, ElementOfSeq
  <2>2. digits[k] \in Nat /\ Radix \in Nat
    BY <2>1, MountConstants DEF Digits
  <2> QED
    BY <2>2
<1>3. NumberOf(digits) = F[L]
  BY DEF NumberOf
<1> HIDE DEF L, More
<1>4. Step \in Steps(0, L, Nat)
  BY <1>1, <1>2 DEF Steps
<1>5. ASSUME NEW k \in 0..L, k # 0, NEW v \in Nat
      PROVE  Step[<<k, v>>] = More(k, v)
  BY <1>5
<1> HIDE DEF Step
<1>6. F = [k \in 0..L |-> IF k = 0 THEN 0 ELSE More(k, F[k - 1])]
  <2>1. PICK f : Recursive(f, 0, L, Nat, 0, Step)
    BY <1>1, <1>4, Recursion
  <2>2. f \in [0..L -> Nat] /\ f[0] = 0
    BY <2>1 DEF Recursive
  <2>3. ASSUME NEW k \in 0..L, k # 0 PROVE f[k] = More(k, f[k - 1])
    <3>1. f[k] = Step[<<k, f[k - 1]>>]
      BY <2>1, <2>3 DEF Recursive
    <3>2. f[k - 1] \in Nat
      BY <1>1, <2>2, <2>3
    <3> QED
      BY <1>5, <2>3, <3>1, <3>2
  <2>4. f = [k \in 0..L |-> IF k = 0 THEN 0 ELSE More(k, f[k - 1])]
    BY <2>2, <2>3
  <2> QED
    BY <2>4
<1> HIDE DEF F
<1>7. \A k \in 0..L : k # 0 => F[k] = More(k, F[k - 1])
  BY <1>6
<1>8. F[0] = 0 /\ F = [k \in 0..L |-> F[k]]
  BY <1>1, <1>6
<1>9. Recursive(F, 0, L, Nat, 0, Step)
  <2>1. \A k \in 0..L : k # 0 /\ F[k - 1] \in Nat => F[k] = Step[<<k, F[k - 1]>>]
    BY <1>5, <1>7
  <2> QED
    BY <1>1, <1>4, <1>8, <2>1, RecursionStays
<1>10. F \in [0..L -> Nat]
  BY <1>9 DEF Recursive
<1>11. \A k \in 1..L : F[k] = (F[k - 1] * Radix) + digits[k]
  BY <1>1, <1>7 DEF More
<1> QED
  BY <1>3, <1>8, <1>10, <1>11 DEF L

(* One digit more makes Radix times as much. *)
LEMMA NumberOfNextDigit ==
  ASSUME NEW digits \in Seq(Digits), NEW d \in Digits
  PROVE  /\ NumberOf(digits) \in Nat
         /\ NumberOf(Append(digits, d)) = (NumberOf(digits) * Radix) + d
<1> DEFINE L == Len(digits)
           more == Append(digits, d)
<1>1. /\ L \in Nat
      /\ more \in Seq(Digits) /\ Len(more) = L + 1
      /\ \A i \in 1..L : more[i] = digits[i]
      /\ more[L + 1] = d
  BY AppendFacts, LenProperties
<1>2. PICK f \in [0..L -> Nat] :
        /\ f[0] = 0
        /\ \A k \in 1..L : f[k] = (f[k - 1] * Radix) + digits[k]
        /\ NumberOf(digits) = f[L]
  BY NumberByRecursion
<1>3. PICK g \in [0..Len(more) -> Nat] :
        /\ g[0] = 0
        /\ \A k \in 1..Len(more) : g[k] = (g[k - 1] * Radix) + more[k]
        /\ NumberOf(more) = g[Len(more)]
  BY <1>1, NumberByRecursion
<1> HIDE DEF L, more
<1>4. \A k \in 0..L : k \in {n \in 0..L : f[n] = g[n]}
  <2> DEFINE S == {n \in 0..L : f[n] = g[n]}
  <2>1. 0 \in S
    BY <1>1, <1>2, <1>3
  <2>2. ASSUME NEW k \in 0..(L - 1), k \in S PROVE k + 1 \in S
    <3>1. k + 1 \in 1..L /\ k + 1 \in 1..Len(more) /\ (k + 1) - 1 = k
          /\ k + 1 \in 0..L
      BY <1>1
    <3>2. f[k + 1] = (f[k] * Radix) + digits[k + 1]
      BY <1>2, <3>1
    <3>3. g[k + 1] = (g[k] * Radix) + more[k + 1]
      BY <1>3, <3>1
    <3>4. f[k] = g[k] /\ more[k + 1] = digits[k + 1]
      BY <1>1, <2>2, <3>1
    <3>5. f[k + 1] = g[k + 1]
      BY <3>2, <3>3, <3>4
    <3> QED
      BY <3>1, <3>5
  <2> HIDE DEF S
  <2>3. 0 \in Int /\ L \in Int
    BY <1>1
  <2>4. \A k \in 0..L : k \in S
    BY <2>1, <2>2, <2>3, UpTo
  <2> QED
    BY <2>4 DEF S
<1>5. L \in 0..L /\ L + 1 \in 1..Len(more) /\ (L + 1) - 1 = L
  BY <1>1
<1>6. f[L] = g[L]
  BY <1>4, <1>5
<1>7. g[L + 1] = (g[L] * Radix) + more[L + 1]
  BY <1>3, <1>5
<1>8. NumberOf(digits) \in Nat
  BY <1>2, <1>5
<1> QED
  BY <1>1, <1>2, <1>3, <1>6, <1>7, <1>8 DEF more

(* A number that can be written with n digits, the first of which is not 0. *)
Written(n, m) ==
  \E path \in [1..n -> Digits] : NumberOf(path) = m /\ path[1] # 0

LEMMA WrittenWithOneDigit ==
  ASSUME NEW m \in 1..(Radix - 1)
  PROVE  Written(1, m)
<1> DEFINE p == Append(<<>>, m)
<1>1. m \in Digits /\ m # 0 /\ <<>> \in Seq(Digits) /\ Len(<<>>) = 0
  BY MountConstants, EmptySeq DEF Digits
<1>2. /\ p \in Seq(Digits) /\ Len(p) = 0 + 1 /\ p[0 + 1] = m
      /\ DOMAIN p = 1..(0 + 1)
  BY <1>1, AppendFacts
<1>3. p \in [1..1 -> Digits] /\ p[1] = m
  BY <1>2, ElementOfSeq
<1>4. NumberOf(<<>>) = 0
  BY <1>1, NumberByRecursion
<1>5. NumberOf(p) = (0 * Radix) + m
  BY <1>1, <1>4, NumberOfNextDigit
<1>6. NumberOf(p) = m
  BY <1>5, MountConstants
<1> HIDE DEF p
<1> QED
  BY <1>1, <1>3, <1>6 DEF Written

LEMMA WrittenWithNextDigit ==
  ASSUME NEW n \in Nat \ {0}, NEW q \in Nat, Written(n, q), NEW d \in Digits
  PROVE  Written(n + 1, (q * Radix) + d)
<1>1. PICK path \in [1..n -> Digits] : NumberOf(path) = q /\ path[1] # 0
  BY DEF Written
<1> DEFINE p == Append(path, d)
<1>2. path \in Seq(Digits) /\ Len(path) = n
  OBVIOUS
<1>3. /\ p \in Seq(Digits) /\ Len(p) = n + 1 /\ DOMAIN p = 1..(n + 1)
      /\ \A i \in 1..n : p[i] = path[i]
  BY <1>2, AppendFacts
<1>4. NumberOf(p) = (q * Radix) + d
  BY <1>1, <1>2, NumberOfNextDigit
<1> HIDE DEF p
<1>5. p \in [1..(n + 1) -> Digits]
  BY <1>3, ElementOfSeq
<1>6. p[1] # 0
  BY <1>1, <1>3
<1> QED
  BY <1>4, <1>5, <1>6 DEF Written

(* Numbers below bound can be written with at most n digits. *)
AllWritten(n, bound) ==
  \A m \in 1..(bound - 1) : \E k \in 1..n : Written(k, m)

LEMMA AllWrittenWithMore ==
  ASSUME NEW n \in Nat, NEW bound \in Nat, AllWritten(n, bound)
  PROVE  AllWritten(n + 1, bound * Radix)
<1> SUFFICES ASSUME NEW m \in 1..((bound * Radix) - 1)
             PROVE  \E k \in 1..(n + 1) : Written(k, m)
  BY DEF AllWritten
<1>1. Radix \in Nat \ {0, 1} /\ bound * Radix \in Nat
  BY MountConstants
<1>2. m \in Nat /\ m < bound * Radix
  BY <1>1
<1>3. CASE m < Radix
  <2>1. m \in 1..(Radix - 1)
    BY <1>1, <1>3
  <2>2. Written(1, m) /\ 1 \in 1..(n + 1)
    BY <2>1, WrittenWithOneDigit
  <2> QED
    BY <2>2
<1>4. CASE ~(m < Radix)
  <2> DEFINE q == m \div Radix
             d == m % Radix
  <2>1. q \in Nat
    BY <1>1, <1>2
  <2>2. d \in 0..(Radix - 1)
    BY <1>1, <1>2
  <2>3. m = (q * Radix) + d
    BY <1>1, <1>2
  <2> HIDE DEF q, d
  <2>4. q # 0
    BY <1>1, <1>2, <1>4, <2>2, <2>3
  <2>5. q < bound
    <3>1. q * Radix < bound * Radix
      BY <1>1, <1>2, <2>1, <2>2, <2>3
    <3> QED
      BY <1>1, <2>1, <3>1
  <2>6. q \in 1..(bound - 1)
    BY <2>1, <2>4, <2>5
  <2>7. PICK k \in 1..n : Written(k, q)
    BY <2>6 DEF AllWritten
  <2>8. d \in Digits /\ k \in Nat \ {0} /\ k + 1 \in 1..(n + 1)
    BY <2>2 DEF Digits
  <2>9. Written(k + 1, m)
    BY <2>1, <2>3, <2>7, <2>8, WrittenWithNextDigit
  <2> QED
    BY <2>8, <2>9
<1> QED
  BY <1>3, <1>4

(* Every number a directory lists has a path, which is read as the number.  *)
LEMMA PathIsNumber ==
  ASSUME NEW i \in 1..MaxListed
  PROVE  /\ PathFromFileIndex(i - 1) \in UNION {[1..n -> Digits] : n \in 1..4}
         /\ NumberOf(PathFromFileIndex(i - 1)) = i
<1>1. Radix \in Nat /\ MaxListed \in Nat
  BY MountConstants
<1>2. AllWritten(1, Radix)
  <2>1. ASSUME NEW m \in 1..(Radix - 1) PROVE Written(1, m) /\ 1 \in 1..1
    BY <2>1, WrittenWithOneDigit
  <2> QED
    BY <2>1 DEF AllWritten
<1> DEFINE r2 == Radix * Radix
           r3 == r2 * Radix
           r4 == r3 * Radix
<1>3. r2 \in Nat /\ r3 \in Nat /\ r4 \in Nat
  BY <1>1
<1>4. AllWritten(1 + 1, r2)
  BY <1>1, <1>2, AllWrittenWithMore
<1>5. AllWritten(2 + 1, r3)
  BY <1>3, <1>4, AllWrittenWithMore
<1>6. AllWritten(3 + 1, r4)
  BY <1>3, <1>5, AllWrittenWithMore
<1>7. MaxListed < r4
  BY ListedNumbersHaveFourDigits
<1> HIDE DEF r2, r3, r4
<1>8. i \in 1..(r4 - 1)
  BY <1>1, <1>3, <1>7
<1>9. PICK n \in 1..4 : Written(n, i)
  BY <1>6, <1>8 DEF AllWritten
<1>10. PICK path \in [1..n -> Digits] : NumberOf(path) = i /\ path[1] # 0
  BY <1>9 DEF Written
<1> DEFINE P == UNION {[1..k -> Digits] : k \in 1..4}
<1>11. path \in P
  BY <1>10
<1>12. (i - 1) + 1 = i
  BY <1>1
<1> HIDE DEF P
<1>13. \E p \in P : NumberOf(p) = (i - 1) + 1 /\ p[1] # 0
  BY <1>10, <1>11, <1>12
<1>14. /\ PathFromFileIndex(i - 1) \in P
       /\ NumberOf(PathFromFileIndex(i - 1)) = (i - 1) + 1
  BY <1>13 DEF PathFromFileIndex, P
<1> QED
  BY <1>12, <1>14 DEF P

(* Such a path leads to the file with that number. *)
LEMMA PathLeadsToFile ==
  ASSUME files_array \in Seq(Files), NEW i \in 1..MaxListed,
         i \in 1..Len(files_array)
  PROVE  FileByPath(PathFromFileIndex(i - 1)) = {files_array[i]}
<1> DEFINE path == PathFromFileIndex(i - 1)
<1>1. PICK n \in 1..4 : path \in [1..n -> Digits]
  BY PathIsNumber
<1>2. NumberOf(path) = i
  BY PathIsNumber
<1> HIDE DEF path
<1>3. path \in Seq(Digits) /\ Len(path) = n /\ DOMAIN path = 1..n
  BY <1>1
<1>4. \A j \in DOMAIN path : path[j] \in Digits
  BY <1>1, <1>3
<1>5. path # RootPath
  <2>1. path[1] \in Digits
    BY <1>1
  <2>2. path[1] # -1
    BY <2>1, MountConstants DEF Digits
  <2> QED
    BY <2>2 DEF RootPath
<1>6. i \in DOMAIN files_array
  BY LenProperties
<1> QED
  BY <1>2, <1>3, <1>4, <1>5, <1>6 DEF FileByPath, path

(* What has been listed are the names of the first files of the array; who *)
(* is idle has nothing left of an earlier directory.                       *)
ListingOf(u) ==
  /\ total[u] <= Len(files_array)
  /\ Len(listed[u]) <= total[u]
  /\ \A i \in 1..Len(listed[u]) : listed[u][i] = PathFromFileIndex(i - 1)
  /\ call[u] = "idle" => total[u] = 0 /\ listed[u] = <<>>

ListingInv == \A u \in Users : ListingOf(u)

LEMMA InitListing == Init => ListingInv
<1> SUFFICES ASSUME Init, NEW u \in Users PROVE ListingOf(u)
  BY DEF ListingInv
<1>1. files_array = <<>> /\ total[u] = 0 /\ listed[u] = <<>>
  BY DEF Init
<1>2. Len(<<>>) = 0
  OBVIOUS
<1> QED
  BY <1>1, <1>2 DEF ListingOf

(* Who is left alone, in a step that leaves the array alone. *)
LEMMA ListingKept ==
  ASSUME NEW u, ListingOf(u), UNCHANGED files_array,
         total'[u] = total[u], listed'[u] = listed[u],
         call'[u] = "idle" => call[u] = "idle"
  PROVE  ListingOf(u)'
BY DEF ListingOf

(* main does nothing while a directory is listed. *)
LEMMA MainListing ==
  ASSUME IInv, ListingInv, MainAction
  PROVE  ListingInv'
<1> USE DEF IInv
<1>1. UNCHANGED callbacks
  BY DEF MainAction, MainStep, MountHandleOpen, OpenParent, AppendParent,
         AppendImage, Unwind, GiveUp, Unmount, CloseLast, Destroy
<1>2. \A u \in Users : call[u] = "idle"
  <2>1. CASE phase = "mounted"
    <3>1. Unmount
      BY <2>1 DEF MainAction, MainStep, MountHandleOpen, OpenParent,
                  AppendParent, AppendImage, Unwind, GiveUp, CloseLast, Destroy
    <3> QED
      BY <3>1 DEF Unmount, Quiet
  <2> QED
    BY <2>1 DEF CallbackInv, BusyWhenMounted
<1>3. MainInv'
  BY MainActionMain
<1>4. Len(files_array)' \in Nat
  BY <1>3, LenProperties DEF MainInv, TypeMain
<1>5. ASSUME NEW u \in Users PROVE ListingOf(u)'
  <2>1. total'[u] = 0 /\ listed'[u] = <<>> /\ Len(<<>>) = 0
    BY <1>1, <1>2 DEF callbacks, listing, ListingInv, ListingOf
  <2> QED
    BY <1>4, <2>1 DEF ListingOf
<1> QED
  BY <1>5 DEF ListingInv

(* A callback starts on an array that has all the files it will list.      *)
LEMMA ListListing ==
  ASSUME IInv, ListingInv, NEW u \in Users, NEW f, List(u, f),
         call[u] = "idle", UNCHANGED <<files_array, listed>>
  PROVE  ListingInv'
<1> DEFINE n == NumberOfSubFileEntries(f)
<1>1. /\ call \in [Users -> Calls] /\ total \in [Users -> 0..MaxListed]
      /\ Len(files_array) \in Nat
  BY LenProperties DEF IInv, CallbackInv, TypeCallbacks, MainInv, TypeMain
<1>2. n = 0 \/ n = Len(files_array)
  BY DEF NumberOfSubFileEntries
<1>3. \A v \in Users \ {u} : total'[v] = total[v] /\ call'[v] = call[v]
  BY <1>1 DEF List, Answer, Goto
<1>4. call'[u] # "idle" /\ (total'[u] = total[u] \/ total'[u] = n)
  BY <1>1 DEF List, Answer, Goto
<1>5. listed[u] = <<>> /\ total[u] = 0
  BY DEF ListingInv, ListingOf
<1> HIDE DEF n
<1>6. ListingOf(u)'
  <2>1. Len(<<>>) = 0 /\ listed'[u] = <<>>
    BY <1>5
  <2>2. total'[u] \in Nat /\ total'[u] <= Len(files_array)'
    BY <1>1, <1>2, <1>4, <1>5
  <2> QED
    BY <1>4, <2>1, <2>2 DEF ListingOf
<1>7. ASSUME NEW v \in Users PROVE ListingOf(v)'
  BY <1>3, <1>6, <1>7, ListingKept DEF ListingInv
<1> QED
  BY <1>7 DEF ListingInv

(* One more name. *)
LEMMA ReadDirEntryListing ==
  ASSUME IInv, ListingInv, NEW u \in Users, ReadDirEntry(u)
  PROVE  ListingInv'
<1> DEFINE i == Len(listed[u]) + 1
           name == PathFromFileIndex(i - 1)
<1>1. /\ call \in [Users -> Calls] /\ total \in [Users -> 0..MaxListed]
      /\ listed \in [Users -> Seq(ListedPaths)]
      /\ MaxListed \in Nat
  BY MountConstants DEF IInv, CallbackInv, TypeCallbacks
<1>2. UNCHANGED <<files_array, total>> /\ call[u] = "readdir"
  BY DEF ReadDirEntry, main
<1>3. CASE /\ i <= total[u]
           /\ listed' = [listed EXCEPT ![u] = Append(@, name)]
           /\ UNCHANGED call
  <2>1. Len(listed[u]) \in Nat /\ listed[u] \in Seq(ListedPaths)
    BY <1>1, LenProperties
  <2>2. name \in ListedPaths
    <3>1. total[u] \in 0..MaxListed
      BY <1>1
    <3>2. i \in 1..MaxListed
      BY <1>1, <1>3, <2>1, <3>1
    <3> HIDE DEF i
    <3> QED
      BY <3>2 DEF ListedPaths
  <2>3. /\ Len(listed'[u]) = i
        /\ \A j \in 1..Len(listed[u]) : listed'[u][j] = listed[u][j]
        /\ listed'[u][i] = name
    BY <1>1, <1>3, <2>1, <2>2, AppendFacts
  <2>4. /\ \A j \in 1..Len(listed[u]) : listed[u][j] = PathFromFileIndex(j - 1)
        /\ total[u] <= Len(files_array)
    BY DEF ListingInv, ListingOf
  <2> HIDE DEF name
  <2>5. \A j \in 1..i : j \in 1..Len(listed[u]) \/ j = i
    BY <2>1
  <2>6. \A j \in 1..i : listed'[u][j] = PathFromFileIndex(j - 1)
    BY <2>3, <2>4, <2>5 DEF name
  <2>7. ListingOf(u)'
    BY <1>2, <1>3, <2>3, <2>4, <2>6 DEF ListingOf
  <2>8. ASSUME NEW v \in Users, v # u PROVE ListingOf(v)'
    BY <1>1, <1>2, <1>3, <2>8, ListingKept DEF ListingInv
  <2> QED
    BY <2>7, <2>8 DEF ListingInv
<1>4. CASE Answer(u, "ok") /\ UNCHANGED listed
  <2>1. \A v \in Users : call'[v] = "idle" => call[v] = "idle"
    BY <1>1, <1>4 DEF Answer, Goto
  <2> QED
    BY <1>2, <1>4, <2>1, ListingKept DEF ListingInv
<1> QED
  BY <1>3, <1>4 DEF ReadDirEntry

(* The callback returns, and its directory is forgotten. *)
LEMMA ReturnListing ==
  ASSUME IInv, ListingInv, NEW u \in Users, Return(u)
  PROVE  ListingInv'
<1>1. /\ call \in [Users -> Calls] /\ total \in [Users -> 0..MaxListed]
      /\ listed \in [Users -> Seq(ListedPaths)]
      /\ Len(files_array) \in Nat
  BY LenProperties DEF IInv, CallbackInv, TypeCallbacks, MainInv, TypeMain
<1>2. /\ UNCHANGED files_array
      /\ call' = [call EXCEPT ![u] = "idle"]
      /\ total' = [total EXCEPT ![u] = 0]
      /\ listed' = [listed EXCEPT ![u] = <<>>]
  BY DEF Return, Goto, main
<1>3. ListingOf(u)'
  <2>1. Len(<<>>) = 0 /\ total'[u] = 0 /\ listed'[u] = <<>>
    BY <1>1, <1>2
  <2> QED
    BY <1>1, <1>2, <2>1 DEF ListingOf
<1>4. ASSUME NEW v \in Users, v # u PROVE ListingOf(v)'
  BY <1>1, <1>2, <1>4, ListingKept DEF ListingInv
<1> QED
  BY <1>3, <1>4 DEF ListingInv

(* Every other callback lists nothing. *)
LEMMA OtherListing ==
  ASSUME ListingInv, UNCHANGED <<files_array, listing>>,
         \A u \in Users : call'[u] = "idle" => call[u] = "idle"
  PROVE  ListingInv'
BY ListingKept DEF ListingInv, listing

LEMMA CallbackListing ==
  ASSUME IInv, ListingInv, NEW u \in Users,
         \/ \E path \in Paths : Open(u, path) \/ GetAttr(u, path)
         \/ Release(u)
         \/ \E offset \in 0..MaxOffset, count \in 1..MaxCount :
              Read(u, offset, count)
         \/ Grab(u) \/ RoundOwn(u) \/ RoundParent(u) \/ RoundFails(u)
         \/ ParentFallsShort(u) \/ ParentReturns(u) \/ ReadReturns(u)
  PROVE  ListingInv'
<1>1. call \in [Users -> Calls]
  BY DEF IInv, CallbackInv, TypeCallbacks
<1>2. /\ UNCHANGED main /\ UNCHANGED listing
      /\ call' = call \/ \E label \in {"grab", "round", "answer"} :
                           call' = [call EXCEPT ![u] = label]
  BY DEF Open, GetAttr, Release, Read, Grab, RoundOwn, RoundParent, RoundFails,
         ParentFallsShort, Abandon, ParentReturns, ReadReturns, Answer, Goto
<1>3. \A v \in Users : call'[v] = "idle" => call[v] = "idle"
  BY <1>1, <1>2
<1> QED
  BY <1>2, <1>3, OtherListing DEF main

LEMMA NextListing == IInv /\ ListingInv /\ [Next]_vars => ListingInv'
<1> SUFFICES ASSUME IInv, ListingInv, [Next]_vars PROVE ListingInv'
  OBVIOUS
<1>1. CASE MainAction
  BY <1>1, MainListing
<1>2. ASSUME NEW u \in Users, ReadDir(u) PROVE ListingInv'
  BY <1>2, ListListing DEF ReadDir, Starts, main
<1>3. ASSUME NEW u \in Users, NEW path \in Paths, FindFiles(u, path)
      PROVE  ListingInv'
  <2>1. call[u] = "idle" /\ UNCHANGED <<files_array, listed>>
    BY <1>3 DEF FindFiles, Starts, main
  <2>2. CASE \E f \in FileByPath(path) : List(u, f)
    BY <2>1, <2>2, ListListing
  <2>3. CASE Answer(u, "error") /\ UNCHANGED total
    <3>1. call \in [Users -> Calls]
      BY DEF IInv, CallbackInv, TypeCallbacks
    <3>2. \A v \in Users : call'[v] = "idle" => call[v] = "idle"
      BY <2>3, <3>1 DEF Answer, Goto
    <3> QED
      BY <2>1, <2>3, <3>2, OtherListing DEF listing
  <2> QED
    BY <1>3, <2>2, <2>3 DEF FindFiles
<1>4. ASSUME NEW u \in Users, CallbackStep(u) PROVE ListingInv'
  BY <1>4, ReadDirEntryListing, ReturnListing, CallbackListing DEF CallbackStep
<1>5. ASSUME NEW u \in Users,
             \/ \E path \in Paths : Open(u, path) \/ GetAttr(u, path)
             \/ Release(u)
             \/ \E offset \in 0..MaxOffset, count \in 1..MaxCount :
                  Read(u, offset, count)
      PROVE  ListingInv'
  BY <1>5, CallbackListing
<1>6. CASE UNCHANGED vars
  BY <1>6, OtherListing DEF vars, main, callbacks
<1> QED
  BY <1>1, <1>2, <1>3, <1>4, <1>5, <1>6 DEF Next, MainAction

LEMMA ListingInvariance == Spec => []ListingInv
BY InitListing, NextListing, Invariance, PTL DEF Spec

(* The name that a directory has for the i-th file opens the i-th file, for *)
(* chains of any length and every base of the numbers, whenever it is asked *)
(* for while the directory is listed: the digits that                       *)
(* mount_file_system_get_path_from_file_index writes are those that         *)
(* mount_file_system_get_file_by_path reads, and no file is added or closed *)
(* in between.                                                              *)
THEOREM ListingsCorrect == Spec => []ListedNamesOpen
<1>1. IInv /\ ListingInv => ListedNamesOpen
  <2> SUFFICES ASSUME IInv, ListingInv, NEW u \in Users,
                      NEW i \in DOMAIN listed[u]
               PROVE  FileByPath(listed[u][i]) = {files_array[i]}
    BY DEF ListedNamesOpen
  <2>1. /\ files_array \in Seq(Files) /\ total[u] \in 0..MaxListed
        /\ listed[u] \in Seq(ListedPaths) /\ MaxListed \in Nat
    BY MountConstants DEF IInv, MainInv, TypeMain, CallbackInv, TypeCallbacks
  <2>2. i \in 1..Len(listed[u]) /\ Len(listed[u]) \in Nat
        /\ Len(files_array) \in Nat
    BY <2>1, LenProperties
  <2>3. /\ listed[u][i] = PathFromFileIndex(i - 1)
        /\ Len(listed[u]) <= total[u] /\ total[u] <= Len(files_array)
    BY <2>2 DEF ListingInv, ListingOf
  <2>4. i \in 1..MaxListed /\ i \in 1..Len(files_array)
    BY <2>1, <2>2, <2>3
  <2> QED
    BY <2>1, <2>3, <2>4, PathLeadsToFile
<1> QED
  BY <1>1, Invariance, ListingInvariance, PTL
=============================================================================
