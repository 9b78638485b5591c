-------------------------- MODULE PyqcowFileProofs --------------------------
(***************************************************************************)
(* What the Python binding owns lives as long as the library can reach it, *)
(* and a read gets the place it sought, for any program whose files have   *)
(* one owner each, any number of threads, files, objects and handles, and  *)
(* exceptions in any callback.                                             *)
(*                                                                         *)
(* The reference counts are what all of it rests on: CountInv says that    *)
(* they are the numbers of variables, calls in progress, children and      *)
(* handles that refer to a file or an object, and no more.                 *)
(***************************************************************************)
EXTENDS PyqcowFile, FiniteSetTheorems, SequenceTheorems, TLAPS

(* Calls that are in progress refer to their arguments; those that free     *)
(* files are over.                                                          *)
Refers(t) == at[t] \notin {"idle", "free_library", "freed"}

(* What refers to a file or to an object. *)
Variables(x) == IF x \in held THEN 1 ELSE 0
Callers(x) == {t \in Threads : Refers(t) /\ x \in Arguments(call[t])}
Children(x) == {f \in Files : parent_file_object[f] = x}
ReadBy(x) == {h \in Handles : handles[h].state = "live" /\ handles[h].object = x}

Count(x) == Variables(x) + Cardinality(Callers(x)) + Cardinality(Children(x))
              + Cardinality(ReadBy(x))

CountInv == references = [x \in Files \cup Objects |-> Count(x)]

ThreadCall == [operation : Operations, file : Files \cup {NoFile},
               parent : Files \cup {NoFile}, object : Objects \cup {NoObject}]

TypeThreads ==
  /\ calls \in [Threads -> Nat]
  /\ at \in [Threads -> Labels]
  /\ call \in [Threads -> ThreadCall]
  /\ chain \in [Threads -> Seq(Files)]
  /\ sought \in [Threads -> Nat] /\ got \in [Threads -> Nat]
  /\ dying \in [Threads -> SUBSET Files]

TypeFiles ==
  /\ held \subseteq Files \cup Objects
  /\ file_io_handle \in [Files -> Handles \cup {NoHandle}]
  /\ parent_file_object \in [Files -> Files \cup {NoFile}]
  /\ position \in [Objects -> Nat]
  /\ handles \in [Handles -> BfioHandle]
  /\ library \in [Files -> LibraryFile]
  /\ lock \in [Files -> Threads \cup {NoThread}]

(* Where a thread is follows from the call it makes. *)
IoLabels == {"io_seek", "io_read", "io_done", "io_failed"}

CallInv(t) ==
  /\ Refers(t) => call[t] \in CallsOf(t) /\ call[t] \in Calls
  /\ Refers(t) /\ at[t] # "return" => call[t].operation \notin Drops
  /\ at[t] \in {"open_file_object", "on_error", "get_size"} =>
       call[t].operation = "open_file_object"
  /\ at[t] = "open" => call[t].operation = "open"
  /\ at[t] \in {"close", "closed", "free_handle"} => call[t].operation = "close"
  /\ at[t] \in {"set_parent", "parent_set"} => call[t].operation = "set_parent"
  /\ at[t] = "read" => call[t].operation = "read"
  /\ at[t] \in IoLabels => call[t].operation \in {"read", "open_file_object"}

(* The files a read is in are different ones, and it has their locks. *)
ChainInv(t) ==
  /\ at[t] \notin {"read", "get_size"} \cup IoLabels => chain[t] = <<>>
  /\ at[t] \in {"get_size"} \cup IoLabels => chain[t] # <<>>
  /\ at[t] \in {"get_size"} \cup IoLabels /\ call[t].operation = "open_file_object" =>
       chain[t] = <<file(t)>>
  /\ \A i \in 1..Len(chain[t]) : lock[chain[t][i]] = t
  /\ \A i, j \in 1..Len(chain[t]) : chain[t][i] = chain[t][j] => i = j
  /\ at[t] = "read" /\ chain[t] # <<>> => library[Current(t)].parent_file # NoFile

(* The objects a file is opened on. *)
ObjectsOf(f) ==
  {c.object : c \in {d \in UNION {CallsOf(t) : t \in Threads} :
                       d.operation = "open_file_object" /\ d.file = f}}

(* Every file object has a handle of its own, and the library that one.    *)
HandleInv ==
  /\ \A h \in Handles : /\ handles[h].state # "freed_twice"
                        /\ handles[h].state = "live" => handles[h].object \in Objects
  /\ \A f \in Files : file_io_handle[f] # NoHandle =>
       /\ handles[file_io_handle[f]].state = "live"
       /\ handles[file_io_handle[f]].object \in ObjectsOf(f)
  /\ \A f, g \in Files :
       file_io_handle[f] = file_io_handle[g] /\ file_io_handle[f] # NoHandle => f = g
  /\ \A f \in Files : library[f].file_io_handle # NoHandle =>
       library[f].file_io_handle = file_io_handle[f]

(* Whoever is about to make, free or read from a handle. *)
OpenInv(t) ==
  /\ at[t] = "entered" /\ call[t].operation = "open_file_object" =>
       file_io_handle[file(t)] = NoHandle
  /\ \/ at[t] \in {"open_file_object", "on_error", "get_size"}
     \/ at[t] \in IoLabels /\ call[t].operation = "open_file_object"
     => file_io_handle[file(t)] # NoHandle /\ library[file(t)].file_io_handle = NoHandle
  /\ at[t] \in {"closed", "free_handle"} => library[file(t)].file_io_handle = NoHandle
  /\ at[t] \in {"io_seek", "io_read"} /\ call[t].operation = "read" =>
       library[Current(t)].file_io_handle # NoHandle

(* A file is freed when nothing refers to it. *)
FreeInv ==
  /\ \A f \in Files : library[f].state = "freed" => references[f] = 0
  /\ \A t \in Threads : \A f \in dying[t] : references[f] = 0
  /\ \A t \in Threads : at[t] = "freed" =>
       file(t) \in Files /\ library[file(t)].state = "freed"

(* Between the two halves of set_parent the call refers to the parent. *)
SettingParent(t, f) == at[t] = "parent_set" /\ file(t) = f

ParentInv ==
  /\ \A f \in Files : library[f].parent_file = NoFile => parent_file_object[f] = NoFile
  /\ \A f \in Files : library[f].state # "freed" /\ library[f].parent_file # NoFile =>
       \/ parent_file_object[f] = library[f].parent_file
       \/ \E t \in Threads : /\ SettingParent(t, f)
                             /\ call[t].parent = library[f].parent_file
  /\ \A t \in Threads : \A f \in Files : SettingParent(t, f) =>
       parent_file_object[f] = NoFile /\ library[f].parent_file = call[t].parent

IInv ==
  /\ TypeThreads /\ TypeFiles /\ CountInv
  /\ \A t \in Threads : CallInv(t) /\ ChainInv(t) /\ OpenInv(t)
  /\ HandleInv /\ FreeInv /\ ParentInv

(* As long as the file of a read is locked, nobody else moves its object. *)
PlaceInv ==
  \A t \in Threads :
    /\ at[t] = "io_read" => position[ObjectOf(UsedHandle(t))] = sought[t]
    /\ at[t] = "io_done" => got[t] = sought[t]

(* No two files are opened on the same object. *)
ObjectsApart == \A f, g \in Files : f # g => ObjectsOf(f) \cap ObjectsOf(g) = {}

-----------------------------------------------------------------------------
(* The constants.                                                          *)

LEMMA CallsOfThreads ==
  ASSUME NEW t \in Threads, NEW c \in CallsOf(t)
  PROVE  c \in Calls /\ Arguments(c) \subseteq Files \cup Objects
<1>1. PICK s \in Range(Program[t]) : c \in s
  BY DEF CallsOf
<1>2. Program[t] \in Seq(SUBSET Calls)
  BY PyqcowConstants
<1>3. s \in SUBSET Calls
  BY <1>1, <1>2 DEF Range
<1>4. c \in Calls
  BY <1>1, <1>3
<1>5. c.operation = "drop_object" => c.object # NoObject
  BY CallsHaveArguments
<1> QED
  BY <1>4, <1>5 DEF Calls, Arguments

LEMMA CallsOfPrograms ==
  ASSUME NEW t \in Threads, NEW n \in Nat, n < Len(Program[t]),
         NEW c \in Program[t][n + 1]
  PROVE  c \in CallsOf(t)
<1>1. Program[t] \in Seq(SUBSET Calls)
  BY PyqcowConstants
<1>2. n + 1 \in DOMAIN Program[t]
  BY <1>1
<1>3. Program[t][n + 1] \in Range(Program[t])
  BY <1>2 DEF Range
<1> QED
  BY <1>3 DEF CallsOf

(* What the calls of a program have for arguments. *)
LEMMA ArgumentsOfCalls ==
  ASSUME NEW t \in Threads, NEW c \in CallsOf(t)
  PROVE  /\ c.operation \in Operations /\ c.file \in Files
         /\ c.operation # "drop_object" => c.file \in Arguments(c)
         /\ c.operation = "set_parent" =>
              c.parent \in Files /\ c.parent \in Arguments(c)
         /\ c.operation = "open_file_object" =>
              /\ c.object \in Objects /\ c.object \in Arguments(c)
              /\ c.object \in ObjectsOf(c.file)
<1>1. c \in Calls
  BY CallsOfThreads
<1>2. /\ c.operation = "set_parent" <=> c.parent # NoFile
      /\ c.operation \in {"open_file_object", "drop_object"} <=> c.object # NoObject
  BY CallsHaveArguments
<1>3. c.operation = "open_file_object" => c.object \in ObjectsOf(c.file)
  BY DEF ObjectsOf
<1> QED
  BY <1>1, <1>2, <1>3, PyqcowConstants DEF Calls, Arguments

LEMMA OwnersAlone ==
  ASSUME NEW t \in Threads, NEW u \in Threads,
         NEW c \in CallsOf(t), NEW d \in CallsOf(u), c.file = d.file,
         c.operation \in OwningCalls, d.operation \in OwningCalls
  PROVE  t = u
BY FilesHaveOneOwner

-----------------------------------------------------------------------------
(* Counting.                                                               *)

LEMMA OneMore ==
  ASSUME NEW S, IsFiniteSet(S), NEW e, e \notin S, NEW T, T = S \cup {e}
  PROVE  Cardinality(T) = Cardinality(S) + 1
BY FS_AddElement

LEMMA OneLess ==
  ASSUME NEW S, IsFiniteSet(S), NEW e \in S, NEW T, T = S \ {e}
  PROVE  Cardinality(T) = Cardinality(S) - 1
BY FS_RemoveElement

LEMMA NotNothing ==
  ASSUME NEW S, IsFiniteSet(S), NEW e \in S
  PROVE  Cardinality(S) \in Nat \ {0}
BY FS_CardinalityType, FS_EmptySet

LEMMA CountsAreNumbers ==
  ASSUME NEW x
  PROVE  /\ IsFiniteSet(Callers(x)) /\ IsFiniteSet(Children(x))
         /\ IsFiniteSet(ReadBy(x))
         /\ Variables(x) \in Nat
         /\ Cardinality(Callers(x)) \in Nat /\ Cardinality(Children(x)) \in Nat
         /\ Cardinality(ReadBy(x)) \in Nat
         /\ Count(x) \in Nat
<1>1. /\ IsFiniteSet(Callers(x)) /\ IsFiniteSet(Children(x))
      /\ IsFiniteSet(ReadBy(x))
  BY PyqcowConstants, FS_Subset DEF Callers, Children, ReadBy
<1>2. /\ Cardinality(Callers(x)) \in Nat /\ Cardinality(Children(x)) \in Nat
      /\ Cardinality(ReadBy(x)) \in Nat
  BY <1>1, FS_CardinalityType
<1>3. Variables(x) \in Nat
  BY DEF Variables
<1> QED
  BY <1>1, <1>2, <1>3 DEF Count

(* What something refers to is counted. *)
LEMMA CountedWhenReferred ==
  ASSUME CountInv, NEW x \in Files \cup Objects,
         \/ x \in held \/ Callers(x) # {} \/ Children(x) # {} \/ ReadBy(x) # {}
  PROVE  references[x] \in Nat \ {0}
<1>1. references[x] = Count(x)
  BY DEF CountInv
<1>2. /\ IsFiniteSet(Callers(x)) /\ IsFiniteSet(Children(x))
      /\ IsFiniteSet(ReadBy(x))
      /\ Variables(x) \in Nat
      /\ Cardinality(Callers(x)) \in Nat /\ Cardinality(Children(x)) \in Nat
      /\ Cardinality(ReadBy(x)) \in Nat
  BY CountsAreNumbers
<1>3. \/ Variables(x) # 0 \/ Cardinality(Callers(x)) # 0
      \/ Cardinality(Children(x)) # 0 \/ Cardinality(ReadBy(x)) # 0
  <2>1. CASE x \in held
    BY <2>1 DEF Variables
  <2>2. CASE Callers(x) # {}
    BY <1>2, <2>2, NotNothing
  <2>3. CASE Children(x) # {}
    BY <1>2, <2>3, NotNothing
  <2>4. CASE ReadBy(x) # {}
    BY <1>2, <2>4, NotNothing
  <2> QED
    BY <2>1, <2>2, <2>3, <2>4
<1> QED
  BY <1>1, <1>2, <1>3 DEF Count

LEMMA ReferencesType ==
  ASSUME CountInv
  PROVE  references \in [Files \cup Objects -> Nat]
BY CountsAreNumbers DEF CountInv

(* A call keeps its file, and the parent it sets, from being freed. *)
LEMMA CallKeeps ==
  ASSUME IInv, NEW t \in Threads, Refers(t), NEW x \in Arguments(call[t])
  PROVE  x \in Files \cup Objects /\ references[x] \in Nat \ {0}
<1>1. call[t] \in CallsOf(t)
  BY DEF IInv, CallInv
<1>2. x \in Files \cup Objects
  BY <1>1, CallsOfThreads
<1>3. t \in Callers(x)
  BY DEF Callers
<1> QED
  BY <1>2, <1>3, CountedWhenReferred DEF IInv

LEMMA FileOfCall ==
  ASSUME IInv, NEW t \in Threads, Refers(t), at[t] # "return"
  PROVE  /\ call[t] \in CallsOf(t) /\ call[t] \in Calls
         /\ file(t) \in Files
         /\ references[file(t)] \in Nat \ {0}
         /\ library[file(t)].state # "freed"
         /\ \A u \in Threads : file(t) \notin dying[u]
         /\ call[t].operation = "set_parent" =>
              call[t].parent \in Files /\ references[call[t].parent] \in Nat \ {0}
         /\ call[t].operation = "open_file_object" =>
              /\ call[t].object \in Objects
              /\ call[t].object \in ObjectsOf(file(t))
<1>1. call[t] \in CallsOf(t) /\ call[t] \in Calls /\ call[t].operation \notin Drops
  BY DEF IInv, CallInv
<1>2. /\ file(t) \in Files /\ file(t) \in Arguments(call[t])
      /\ call[t].operation = "set_parent" =>
           call[t].parent \in Files /\ call[t].parent \in Arguments(call[t])
      /\ call[t].operation = "open_file_object" =>
           /\ call[t].object \in Objects
           /\ call[t].object \in ObjectsOf(file(t))
  BY <1>1, ArgumentsOfCalls DEF file, Drops
<1>3. /\ references[file(t)] \in Nat \ {0}
      /\ call[t].operation = "set_parent" => references[call[t].parent] \in Nat \ {0}
  BY <1>2, CallKeeps
<1>4. /\ library[file(t)].state # "freed"
      /\ \A u \in Threads : file(t) \notin dying[u]
  BY <1>2, <1>3 DEF IInv, FreeInv
<1> QED
  BY <1>1, <1>2, <1>3, <1>4

-----------------------------------------------------------------------------
(* The types.                                                              *)

LEMMA LabelTypes ==
  /\ Operations \ Drops \subseteq Labels
  /\ {"idle", "entered", "return", "on_error", "closed", "parent_set",
      "filename_size", "freed", "free_library", "open_file_object", "read",
      "get_size", "io_seek", "io_read", "io_done", "io_failed", "free_handle",
      "backing_filename", "set_parent"} \subseteq Labels
BY DEF Operations, Drops, FieldCalls, Labels, InPython, Returning, InLibrary

LEMMA CurrentType ==
  ASSUME NEW t \in Threads, chain[t] \in Seq(Files), chain[t] # <<>>
  PROVE  /\ Current(t) \in Files
         /\ Len(chain[t]) \in Nat \ {0} /\ Len(chain[t]) \in 1..Len(chain[t])
         /\ Current(t) = chain[t][Len(chain[t])]
<1>1. Len(chain[t]) \in Nat \ {0}
  BY EmptySeq, LenProperties
<1>2. Len(chain[t]) \in 1..Len(chain[t])
  BY <1>1
<1> QED
  BY <1>1, <1>2, ElementOfSeq DEF Current

LEMMA FrontIsSeq ==
  ASSUME NEW S, NEW s \in Seq(S), Len(s) # 0
  PROVE  /\ SubSeq(s, 1, Len(s) - 1) \in Seq(S)
         /\ Len(SubSeq(s, 1, Len(s) - 1)) = Len(s) - 1
         /\ \A i \in 1..(Len(s) - 1) : SubSeq(s, 1, Len(s) - 1)[i] = s[i]
<1> DEFINE n == Len(s)
<1>1. n \in Nat
  BY LenProperties
<1>2. /\ \A i \in 1..(n - 1) : i \in 1..n /\ 1 + i - 1 = i
      /\ (n - 1) - 1 + 1 = n - 1 /\ n - 1 \in Nat /\ 1 <= (n - 1) + 1
      /\ 1 \in 1..(n + 1) /\ n - 1 \in 0..n
  <2>1. n # 0
    OBVIOUS
  <2> HIDE DEF n
  <2> QED
    BY <1>1, <2>1
<1>3. \A i \in 1..n : s[i] \in S
  BY ElementOfSeq
<1>4. SubSeq(s, 1, n - 1) = [i \in 1..(n - 1) |-> s[1 + i - 1]]
  BY <1>1, <1>2
<1> HIDE DEF n
<1> QED
  BY <1>2, <1>3, <1>4 DEF n

(* The fields of the library's file that steps change. *)
LEMMA LibraryUpdates ==
  ASSUME library \in [Files -> LibraryFile], NEW f \in Files
  PROVE  /\ \A s \in {"closed", "open", "freed"} :
              [library EXCEPT ![f].state = s] \in [Files -> LibraryFile]
         /\ \A s \in {"closed", "open", "freed"}, h \in Handles \cup {NoHandle} :
              [library EXCEPT ![f].state = s, ![f].file_io_handle = h]
                \in [Files -> LibraryFile]
         /\ \A p \in Files \cup {NoFile} :
              [library EXCEPT ![f].parent_file = p] \in [Files -> LibraryFile]
         /\ \A z \in Objects \cup {NoObject} :
              [library EXCEPT ![f].size = z] \in [Files -> LibraryFile]
<1>1. library[f] \in LibraryFile
  OBVIOUS
<1>2. /\ \A s \in {"closed", "open", "freed"} :
           [library[f] EXCEPT !.state = s] \in LibraryFile
      /\ \A p \in Files \cup {NoFile} :
           [library[f] EXCEPT !.parent_file = p] \in LibraryFile
      /\ \A z \in Objects \cup {NoObject} :
           [library[f] EXCEPT !.size = z] \in LibraryFile
  BY <1>1 DEF LibraryFile
<1>3. \A s \in {"closed", "open", "freed"}, h \in Handles \cup {NoHandle} :
        [[library[f] EXCEPT !.state = s] EXCEPT !.file_io_handle = h] \in LibraryFile
  BY <1>1 DEF LibraryFile
<1>4. \A l \in LibraryFile : [library EXCEPT ![f] = l] \in [Files -> LibraryFile]
  OBVIOUS
<1>5. \A s, h : [library EXCEPT ![f].state = s, ![f].file_io_handle = h] =
        [library EXCEPT ![f] = [[library[f] EXCEPT !.state = s]
                                  EXCEPT !.file_io_handle = h]]
  OBVIOUS
<1> QED
  BY <1>2, <1>3, <1>4, <1>5

(* Nothing changes but where the thread is, and who has the gil. *)
Moves(t, label) ==
  /\ Goto(t, label)
  /\ UNCHANGED <<calls, pythonVars, position, handles, library, lock, threadVars>>

LEMMA MoveTypes ==
  ASSUME IInv, NEW t \in Threads, NEW label \in Labels, Moves(t, label)
  PROVE  TypeThreads' /\ TypeFiles'
BY DEF IInv, TypeThreads, TypeFiles, Moves, Goto, pythonVars, threadVars

LEMMA FreedHandleType ==
  ASSUME handles \in [Handles -> BfioHandle], NEW h \in Handles
  PROVE  /\ Freed(h) \in [Handles -> BfioHandle]
         /\ \A g \in Handles \ {h} : Freed(h)[g] = handles[g]
         /\ Freed(h)[h].object = NoObject
         /\ handles[h].state = "live" => Freed(h)[h].state = "freed"
BY DEF Freed, BfioHandle

LEMMA FreeHandleOfTypes ==
  ASSUME TypeFiles, NEW f \in Files, FreeHandleOf(f)
  PROVE  /\ handles' \in [Handles -> BfioHandle]
         /\ file_io_handle' \in [Files -> Handles \cup {NoHandle}]
<1>1. file_io_handle[f] # NoHandle => file_io_handle[f] \in Handles
  BY DEF TypeFiles
<1> QED
  BY <1>1, FreedHandleType DEF FreeHandleOf, TypeFiles

(* The file the library goes to next. *)
LEMMA WantedType ==
  ASSUME IInv, NEW t \in Threads, at[t] = "read"
  PROVE  /\ Wanted(t) \in Files
         /\ chain[t] = <<>> => Wanted(t) = file(t)
         /\ chain[t] # <<>> =>
              /\ Wanted(t) = library[Current(t)].parent_file
              /\ Current(t) \in Files
<1>1. file(t) \in Files
  BY FileOfCall DEF Refers
<1>2. chain[t] # <<>> =>
        /\ Current(t) \in Files
        /\ library[Current(t)].parent_file # NoFile
  BY CurrentType DEF IInv, TypeThreads, ChainInv
<1>3. \A f \in Files : library[f].parent_file \in Files \cup {NoFile}
  BY DEF IInv, TypeFiles, LibraryFile
<1> QED
  BY <1>1, <1>2, <1>3 DEF Wanted

(* The object that is read is one. *)
LEMMA UsedHandleType ==
  ASSUME IInv, NEW t \in Threads,
         \/ at[t] \in {"io_seek", "io_read"}
         \/ at[t] = "get_size"
  PROVE  /\ chain[t] # <<>> /\ Current(t) \in Files
         /\ lock[Current(t)] = t
         /\ UsedHandle(t) = file_io_handle[Current(t)]
         /\ UsedHandle(t) \in Handles
         /\ handles[UsedHandle(t)].state = "live"
         /\ ObjectOf(UsedHandle(t)) \in Objects
         /\ ObjectOf(UsedHandle(t)) \in ObjectsOf(Current(t))
         /\ call[t].operation = "open_file_object" => Current(t) = file(t)
         /\ call[t].operation # "open_file_object" =>
              library[Current(t)].file_io_handle # NoHandle
<1>1. chain[t] # <<>> /\ Current(t) \in Files /\ lock[Current(t)] = t
  <2>1. /\ chain[t] \in Seq(Files) /\ chain[t] # <<>>
        /\ \A i \in 1..Len(chain[t]) : lock[chain[t][i]] = t
    BY DEF IInv, TypeThreads, ChainInv, IoLabels
  <2> QED
    BY <2>1, CurrentType
<1>2. call[t].operation = "open_file_object" => Current(t) = file(t)
  <2>1. call[t].operation = "open_file_object" => chain[t] = <<file(t)>>
    BY DEF IInv, ChainInv, IoLabels
  <2>2. ASSUME chain[t] = <<file(t)>> PROVE Current(t) = file(t)
    <3>1. Current(t) = <<file(t)>>[Len(<<file(t)>>)]
      BY <2>2 DEF Current
    <3> QED
      BY <3>1
  <2> QED
    BY <2>1, <2>2
<1>3. call[t].operation # "open_file_object" =>
        /\ at[t] \in {"io_seek", "io_read"} /\ call[t].operation = "read"
        /\ library[Current(t)].file_io_handle # NoHandle
  BY DEF IInv, CallInv, OpenInv, IoLabels
<1>4. UsedHandle(t) = file_io_handle[Current(t)] /\ UsedHandle(t) # NoHandle
  <2>1. CASE call[t].operation = "open_file_object"
    BY <1>2, <2>1 DEF IInv, OpenInv, IoLabels, UsedHandle
  <2>2. CASE call[t].operation # "open_file_object"
    BY <1>1, <1>3, <2>2 DEF IInv, HandleInv, UsedHandle
  <2> QED
    BY <2>1, <2>2
<1>5. UsedHandle(t) \in Handles
  BY <1>1, <1>4 DEF IInv, TypeFiles
<1> QED
  BY <1>1, <1>2, <1>3, <1>4, <1>5 DEF IInv, HandleInv, ObjectOf

(* The last of a chain is left. *)
LEMMA ReleaseTypes ==
  ASSUME IInv, NEW t \in Threads, at[t] \in {"get_size"} \cup IoLabels, ReleaseLast(t)
  PROVE  /\ lock' \in [Files -> Threads \cup {NoThread}]
         /\ chain' \in [Threads -> Seq(Files)]
         /\ Current(t) \in Files
         /\ lock' = [lock EXCEPT ![Current(t)] = NoThread]
         /\ Len(chain'[t]) = Len(chain[t]) - 1
         /\ \A i \in 1..Len(chain'[t]) :
              /\ i \in 1..Len(chain[t])
              /\ chain'[t][i] = chain[t][i]
              /\ chain[t][i] # Current(t)
         /\ \A u \in Threads \ {t} : chain'[u] = chain[u]
<1> DEFINE s == chain[t]
           n == Len(s)
<1>1. s \in Seq(Files) /\ s # <<>> /\ chain \in [Threads -> Seq(Files)]
      /\ lock \in [Files -> Threads \cup {NoThread}]
  BY DEF IInv, TypeThreads, TypeFiles, ChainInv
<1>2. Current(t) \in Files /\ n \in Nat \ {0} /\ n \in 1..n /\ Current(t) = s[n]
  BY <1>1, CurrentType
<1>3. n - 1 \in Nat /\ n - 1 <= n /\ 1 \in 1..(n + 1)
      /\ \A i \in 1..(n - 1) : i \in 1..n /\ i # n
  <2> HIDE DEF n
  <2> QED
    BY <1>2
<1>4. /\ SubSeq(s, 1, n - 1) \in Seq(Files)
      /\ Len(SubSeq(s, 1, n - 1)) = n - 1
      /\ \A i \in 1..(n - 1) : SubSeq(s, 1, n - 1)[i] = s[i]
  BY <1>1, <1>2, <1>3, FrontIsSeq
<1>5. chain' = [chain EXCEPT ![t] = SubSeq(s, 1, n - 1)]
      /\ lock' = [lock EXCEPT ![Current(t)] = NoThread]
  BY DEF ReleaseLast, Release
<1>6. chain'[t] = SubSeq(s, 1, n - 1)
  BY <1>1, <1>5
<1>7. \A i, j \in 1..n : s[i] = s[j] => i = j
  BY DEF IInv, ChainInv
<1>8. ASSUME NEW i \in 1..Len(chain'[t])
      PROVE  i \in 1..n /\ chain'[t][i] = s[i] /\ s[i] # Current(t)
  BY <1>2, <1>3, <1>4, <1>6, <1>7
<1> QED
  BY <1>1, <1>2, <1>4, <1>5, <1>6, <1>8

LEMMA CallingTypes ==
  ASSUME IInv, NEW t \in Threads, Enter(t) \/ AllowThreads(t) \/ Leave(t)
  PROVE  TypeThreads' /\ TypeFiles'
<1> USE DEF IInv, TypeThreads, TypeFiles
<1>1. CASE Enter(t)
  <2>1. PICK c \in Program[t][calls[t] + 1] :
          /\ call' = [call EXCEPT ![t] = c]
          /\ at' = [at EXCEPT ![t] = "return"] \/ at' = [at EXCEPT ![t] = "entered"]
          /\ held' \subseteq held
    BY <1>1 DEF Enter, Goto
  <2>2. c \in ThreadCall
    <3>1. c \in Calls
      BY <1>1, CallsOfPrograms, CallsOfThreads DEF Enter
    <3> QED
      BY <3>1 DEF Calls, ThreadCall
  <2>3. at' \in [Threads -> Labels]
    BY <2>1, LabelTypes
  <2>4. call' \in [Threads -> ThreadCall]
    BY <2>1, <2>2
  <2>5. calls' \in [Threads -> Nat]
    BY <1>1 DEF Enter
  <2> QED
    BY <1>1, <2>1, <2>3, <2>4, <2>5 DEF Enter
<1>2. CASE AllowThreads(t)
  <2>1. call[t].operation \in Operations \ Drops
    BY <1>2 DEF AllowThreads, CallInv, Refers, ThreadCall
  <2>2. Moves(t, call[t].operation)
    BY <1>2 DEF AllowThreads, Moves
  <2> QED
    BY <2>1, <2>2, LabelTypes, MoveTypes
<1>3. CASE Leave(t)
  <2>1. NoCall \in ThreadCall
    BY DEF NoCall, ThreadCall, Operations, Drops
  <2>2. PICK D \in SUBSET Files : dying' = [dying EXCEPT ![t] = D]
    BY <1>3 DEF Leave, Unreferenced
  <2>3. at' \in [Threads -> Labels] /\ call' \in [Threads -> ThreadCall]
    BY <1>3, <2>1, LabelTypes DEF Leave, Goto
  <2>4. /\ dying' \in [Threads -> SUBSET Files]
        /\ sought' \in [Threads -> Nat] /\ got' \in [Threads -> Nat]
    BY <1>3, <2>2 DEF Leave
  <2> QED
    BY <1>3, <2>3, <2>4 DEF Leave
<1> QED
  BY <1>1, <1>2, <1>3

LEMMA OpeningTypes ==
  ASSUME IInv, NEW t \in Threads, Opening(t)
  PROVE  TypeThreads' /\ TypeFiles'
<1> USE DEF IInv, TypeThreads, TypeFiles
<1>1. CASE OpenFileObject(t)
  <2>1. file(t) \in Files /\ call[t].object \in Objects
    BY <1>1, FileOfCall DEF OpenFileObject, Refers
  <2>2. at' \in [Threads -> Labels]
    BY <1>1, LabelTypes DEF OpenFileObject, Goto
  <2>3. /\ handles' \in [Handles -> BfioHandle]
        /\ file_io_handle' \in [Files -> Handles \cup {NoHandle}]
    <3>1. CASE FreeHandleOf(file(t))
      BY <2>1, <3>1, FreeHandleOfTypes
    <3>2. CASE \E h \in FreeHandles :
                 /\ handles' = [handles EXCEPT ![h] =
                                  [state |-> "live", object |-> call[t].object]]
                 /\ file_io_handle' = [file_io_handle EXCEPT ![file(t)] = h]
      <4>1. PICK h \in Handles :
                 /\ handles' = [handles EXCEPT ![h] =
                                  [state |-> "live", object |-> call[t].object]]
                 /\ file_io_handle' = [file_io_handle EXCEPT ![file(t)] = h]
        BY <3>2 DEF FreeHandles
      <4>2. [state |-> "live", object |-> call[t].object] \in BfioHandle
        BY <2>1 DEF BfioHandle
      <4> QED
        BY <4>1, <4>2
    <3> QED
      BY <1>1, <3>1, <3>2 DEF OpenFileObject
  <2> QED
    BY <1>1, <2>2, <2>3 DEF OpenFileObject, threadVars
<1>2. CASE OnError(t)
  <2>1. file(t) \in Files
    BY <1>2, FileOfCall DEF OnError, Refers
  <2>2. at' \in [Threads -> Labels]
    BY <1>2, LabelTypes DEF OnError, Goto
  <2>3. /\ handles' \in [Handles -> BfioHandle]
        /\ file_io_handle' \in [Files -> Handles \cup {NoHandle}]
    BY <1>2, <2>1, FreeHandleOfTypes DEF OnError
  <2> QED
    BY <1>2, <2>2, <2>3 DEF OnError, threadVars
<1>3. CASE AlreadyOpen(t)
  BY <1>3, LabelTypes, MoveTypes DEF AlreadyOpen, Moves
<1>4. CASE StartOpen(t)
  <2>1. file(t) \in Files
    BY <1>4, FileOfCall DEF StartOpen, Refers
  <2>2. at' \in [Threads -> Labels] /\ chain' \in [Threads -> Seq(Files)]
    BY <1>4, <2>1, LabelTypes DEF StartOpen, Goto
  <2>3. lock' \in [Files -> Threads \cup {NoThread}]
    BY <1>4, <2>1 DEF StartOpen, Grab
  <2> QED
    BY <1>4, <2>2, <2>3 DEF StartOpen, pythonVars
<1>5. CASE GetSize(t)
  <2>1. file(t) \in Files /\ call[t].operation = "open_file_object"
    BY <1>5, FileOfCall DEF GetSize, Refers, CallInv
  <2>2. ObjectOf(file_io_handle[file(t)]) \in Objects
    BY <1>5, <2>1, UsedHandleType DEF GetSize, UsedHandle
  <2>3. SizesReturned(file(t)) \subseteq Objects \cup {NoObject}
    BY <2>1, <2>2 DEF SizesReturned, LibraryFile
  <2>4. Positions(ObjectOf(file_io_handle[file(t)])) \subseteq Nat
    BY <2>2, PyqcowConstants DEF Positions
  <2>5. position' \in [Objects -> Nat]
    BY <1>5, <2>4 DEF GetSize
  <2>6. PICK s \in Objects \cup {NoObject} :
          library' = [library EXCEPT ![file(t)].size = s]
    BY <1>5, <2>3 DEF GetSize
  <2>7. library' \in [Files -> LibraryFile]
    BY <2>1, <2>6, LibraryUpdates
  <2>8. at' \in [Threads -> Labels]
    BY <1>5, LabelTypes DEF GetSize, Goto
  <2> QED
    BY <1>5, <2>5, <2>7, <2>8 DEF GetSize, pythonVars, threadVars
<1>6. CASE Open(t)
  <2>0. file(t) \in Files
    BY <1>6, FileOfCall DEF Open, Refers
  <2>1. library' \in [Files -> LibraryFile]
    <3>1. UNCHANGED library \/ library' = [library EXCEPT ![file(t)].state = "open"]
      BY <1>6 DEF Open
    <3>2. [library EXCEPT ![file(t)].state = "open"] \in [Files -> LibraryFile]
      BY <2>0, LibraryUpdates
    <3> QED
      BY <3>1, <3>2
  <2>2. at' \in [Threads -> Labels]
    BY <1>6, LabelTypes DEF Open, Goto
  <2> QED
    BY <1>6, <2>1, <2>2 DEF Open, pythonVars, threadVars
<1>7. CASE OpenEnds(t)
  <2>1. file(t) \in Files
    BY <1>7, FileOfCall DEF OpenEnds, Refers
  <2>2. file_io_handle[file(t)] \in Handles \cup {NoHandle}
    BY <2>1
  <2>3. library' \in [Files -> LibraryFile]
    <3>1. UNCHANGED library \/ library' = [library EXCEPT ![file(t)].state = "open",
                        ![file(t)].file_io_handle = file_io_handle[file(t)]]
      BY <1>7 DEF OpenEnds
    <3>2. [library EXCEPT ![file(t)].state = "open",
                        ![file(t)].file_io_handle = file_io_handle[file(t)]] \in [Files -> LibraryFile]
      BY <2>1, <2>2, LibraryUpdates
    <3> QED
      BY <3>1, <3>2
  <2>4. at' \in [Threads -> Labels]
    BY <1>7, LabelTypes DEF OpenEnds, Goto
  <2>5. /\ lock' \in [Files -> Threads \cup {NoThread}]
        /\ chain' \in [Threads -> Seq(Files)]
    BY <1>7, ReleaseTypes DEF OpenEnds, IoLabels
  <2> QED
    BY <1>7, <2>3, <2>4, <2>5 DEF OpenEnds, pythonVars
<1> QED
  BY <1>1, <1>2, <1>3, <1>4, <1>5, <1>6, <1>7 DEF Opening

LEMMA ReadingTypes ==
  ASSUME IInv, NEW t \in Threads, Reading(t)
  PROVE  TypeThreads' /\ TypeFiles'
<1> USE DEF IInv, TypeThreads, TypeFiles
<1>1. CASE StartRead(t)
  <2>1. Wanted(t) \in Files
    BY <1>1, WantedType DEF StartRead
  <2>2. AfterGrab(library[Wanted(t)]) \subseteq Labels
    BY LabelTypes DEF AfterGrab
  <2>3. at' \in [Threads -> Labels]
    BY <1>1, <2>2 DEF StartRead, Goto
  <2>4. chain' \in [Threads -> Seq(Files)]
    BY <1>1, <2>1 DEF StartRead
  <2>5. lock' \in [Files -> Threads \cup {NoThread}]
    BY <1>1, <2>1 DEF StartRead, Grab
  <2>6. sought' \in [Threads -> Nat] /\ got' \in [Threads -> Nat]
    BY <1>1 DEF StartRead
  <2> QED
    BY <1>1, <2>3, <2>4, <2>5, <2>6 DEF StartRead, pythonVars
<1>2. CASE Seek(t)
  <2>1. position' \in [Objects -> Nat]
    BY <1>2 DEF Seek
  <2>2. at' \in [Threads -> Labels]
    BY <1>2, LabelTypes DEF Seek, Goto
  <2> QED
    BY <1>2, <2>1, <2>2 DEF Seek, pythonVars, threadVars
<1>3. CASE Read(t)
  <2>1. ObjectOf(UsedHandle(t)) \in Objects
    BY <1>3, UsedHandleType DEF Read
  <2>2. position' \in [Objects -> Nat] /\ got' \in [Threads -> Nat]
    <3> DEFINE o == ObjectOf(UsedHandle(t))
    <3>1. CASE UNCHANGED <<position, got>>
      BY <3>1
    <3>2. CASE /\ position' = [position EXCEPT ![o] = @ + 1]
               /\ got' = [got EXCEPT ![t] = position[o]]
      <4>1. position[o] \in Nat /\ position[o] + 1 \in Nat
        BY <2>1
      <4> QED
        BY <3>2, <4>1
    <3> QED
      BY <1>3, <3>1, <3>2 DEF Read
  <2>3. at' \in [Threads -> Labels]
    BY <1>3, LabelTypes DEF Read, Goto
  <2> QED
    BY <1>3, <2>2, <2>3 DEF Read, pythonVars
<1>4. CASE ReadReturns(t)
  <2>1. at' \in [Threads -> Labels]
    BY <1>4, LabelTypes DEF ReadReturns, Goto
  <2>2. /\ lock' \in [Files -> Threads \cup {NoThread}]
        /\ chain' \in [Threads -> Seq(Files)]
    BY <1>4, ReleaseTypes DEF ReadReturns, IoLabels
  <2> QED
    BY <1>4, <2>1, <2>2 DEF ReadReturns, pythonVars
<1> QED
  BY <1>1, <1>2, <1>3, <1>4 DEF Reading

LEMMA LookingMoves ==
  ASSUME NEW t \in Threads, Looking(t)
  PROVE  /\ at[t] \in Labels \ (IoLabels \cup {"idle", "entered", "return",
                      "free_library", "freed", "read", "get_size", "parent_set",
                      "open_file_object", "on_error", "closed", "free_handle"})
         /\ \E label \in {"return", "filename_size", "backing_filename"} :
              Moves(t, label)
BY DEF Looking, IsLocked, SeekOffset, GetOffset, SetPassword, GetMediaSize,
       GetBackingFilenameSize, AllocateFilename, GetBackingFilename, Looks,
       Moves, Labels, InLibrary, Returning, FieldCalls, IoLabels

LEMMA EndingTypes ==
  ASSUME IInv, NEW t \in Threads,
         Looking(t) \/ Closing(t) \/ Parents(t) \/ Freeing(t)
  PROVE  TypeThreads' /\ TypeFiles'
<1> USE DEF IInv, TypeThreads, TypeFiles
<1>1. CASE Looking(t)
  BY <1>1, LookingMoves, LabelTypes, MoveTypes
<1>2. CASE Close(t)
  <2>0. file(t) \in Files
    BY <1>2, FileOfCall DEF Close, Refers
  <2>1. library' \in [Files -> LibraryFile]
    <3>1. UNCHANGED library \/ library' = [library EXCEPT ![file(t)].state = "closed",
                        ![file(t)].file_io_handle = NoHandle]
      BY <1>2 DEF Close, ClosedLibrary
    <3>2. [library EXCEPT ![file(t)].state = "closed",
                        ![file(t)].file_io_handle = NoHandle] \in [Files -> LibraryFile]
      BY <2>0, LibraryUpdates
    <3> QED
      BY <3>1, <3>2
  <2>2. at' \in [Threads -> Labels]
    BY <1>2, LabelTypes DEF Close, Goto
  <2> QED
    BY <1>2, <2>1, <2>2 DEF Close, pythonVars, threadVars
<1>3. CASE Closed(t)
  BY <1>3, LabelTypes, MoveTypes DEF Closed, Moves
<1>4. CASE FreeHandle(t)
  <2>1. file(t) \in Files
    BY <1>4, FileOfCall DEF FreeHandle, Refers
  <2>2. at' \in [Threads -> Labels]
    BY <1>4, LabelTypes DEF FreeHandle, Goto
  <2>3. /\ handles' \in [Handles -> BfioHandle]
        /\ file_io_handle' \in [Files -> Handles \cup {NoHandle}]
    BY <1>4, <2>1, FreeHandleOfTypes DEF FreeHandle
  <2> QED
    BY <1>4, <2>2, <2>3 DEF FreeHandle, threadVars
<1>5. CASE SetParent(t)
  <2>1. call[t].parent \in Files /\ file(t) \in Files
    BY <1>5, FileOfCall DEF SetParent, Refers, CallInv
  <2>2. library' \in [Files -> LibraryFile]
    <3>1. UNCHANGED library \/ library' = [library EXCEPT ![file(t)].parent_file = call[t].parent]
      BY <1>5 DEF SetParent
    <3>2. [library EXCEPT ![file(t)].parent_file = call[t].parent] \in [Files -> LibraryFile]
      BY <2>1, LibraryUpdates
    <3> QED
      BY <3>1, <3>2
  <2>3. at' \in [Threads -> Labels]
    BY <1>5, LabelTypes DEF SetParent, Goto
  <2> QED
    BY <1>5, <2>2, <2>3 DEF SetParent, pythonVars, threadVars
<1>6. CASE ParentIsSet(t)
  <2>1. call[t].parent \in Files
    BY <1>6, FileOfCall DEF ParentIsSet, Refers, CallInv
  <2>2. parent_file_object' \in [Files -> Files \cup {NoFile}]
    BY <1>6, <2>1 DEF ParentIsSet
  <2>3. at' \in [Threads -> Labels]
    BY <1>6, LabelTypes DEF ParentIsSet, Goto
  <2> QED
    BY <1>6, <2>2, <2>3 DEF ParentIsSet, threadVars
<1>7. CASE FreeLibrary(t)
  <2>1. PICK f \in dying[t] :
          /\ library' = [library EXCEPT ![f].state = "freed",
                                        ![f].file_io_handle = NoHandle]
          /\ FreeHandleOf(f)
          /\ call' = [call EXCEPT ![t] = [NoCall EXCEPT !.file = f]]
    BY <1>7 DEF FreeLibrary
  <2>2. f \in Files
    BY <2>1
  <2>3. library' \in [Files -> LibraryFile]
    BY <2>1, <2>2, LibraryUpdates
  <2>4. /\ handles' \in [Handles -> BfioHandle]
        /\ file_io_handle' \in [Files -> Handles \cup {NoHandle}]
    BY <2>1, <2>2, FreeHandleOfTypes
  <2>5. [NoCall EXCEPT !.file = f] \in ThreadCall
    BY <2>2 DEF NoCall, ThreadCall, Operations, Drops
  <2>6. at' \in [Threads -> Labels] /\ call' \in [Threads -> ThreadCall]
    BY <1>7, <2>1, <2>5, LabelTypes DEF FreeLibrary, Goto
  <2> QED
    BY <1>7, <2>3, <2>4, <2>6 DEF FreeLibrary
<1>8. CASE FreeParent(t)
  <2>1. NoCall \in ThreadCall
    BY DEF NoCall, ThreadCall, Operations, Drops
  <2>2. PICK D \in SUBSET Files : dying' = [dying EXCEPT ![t] = D]
    BY <1>8 DEF FreeParent, Unreferenced
  <2>3. at' \in [Threads -> Labels] /\ call' \in [Threads -> ThreadCall]
    BY <1>8, <2>1, LabelTypes DEF FreeParent, Goto
  <2>4. /\ dying' \in [Threads -> SUBSET Files]
        /\ parent_file_object' \in [Files -> Files \cup {NoFile}]
    BY <1>8, <2>2 DEF FreeParent
  <2> QED
    BY <1>8, <2>3, <2>4 DEF FreeParent
<1> QED
  BY <1>1, <1>2, <1>3, <1>4, <1>5, <1>6, <1>7, <1>8 DEF Closing, Parents, Freeing

LEMMA StepTypes ==
  ASSUME IInv, NEW t \in Threads, Enter(t) \/ Step(t)
  PROVE  TypeThreads' /\ TypeFiles'
BY CallingTypes, OpeningTypes, ReadingTypes, EndingTypes DEF Step

-----------------------------------------------------------------------------
(* The steps of a thread, one by one, and what they leave alone.           *)

Steps(t) ==
  \/ Enter(t) \/ AllowThreads(t) \/ Leave(t)
  \/ OpenFileObject(t) \/ OnError(t) \/ AlreadyOpen(t) \/ StartOpen(t)
  \/ GetSize(t) \/ Open(t) \/ OpenEnds(t)
  \/ StartRead(t) \/ Seek(t) \/ Read(t) \/ ReadReturns(t)
  \/ Looking(t) \/ Close(t) \/ Closed(t) \/ FreeHandle(t)
  \/ SetParent(t) \/ ParentIsSet(t) \/ FreeLibrary(t) \/ FreeParent(t)

LEMMA NextSteps ==
  ASSUME NEW t \in Threads, Enter(t) \/ Step(t)
  PROVE  Steps(t)
BY DEF Step, Opening, Reading, Closing, Parents, Freeing, Steps

LEMMA AloneAt ==
  ASSUME NEW t \in Threads, Steps(t), TypeThreads
  PROVE  \E label : at' = [at EXCEPT ![t] = label]
<1>1. CASE Looking(t)
  BY <1>1, LookingMoves DEF Moves, Goto
<1>2. CASE /\ ~Looking(t)
           /\ ~(Leave(t) \/ Closed(t) \/ FreeParent(t))
  BY <1>2 DEF Steps, Enter, AllowThreads, OpenFileObject, OnError, AlreadyOpen,
     StartOpen, GetSize, Open, OpenEnds, StartRead, Seek, Read, ReadReturns,
     Close, FreeHandle, SetParent, ParentIsSet, FreeLibrary, Goto
<1>3. CASE Leave(t) \/ Closed(t) \/ FreeParent(t)
  BY <1>3 DEF Leave, Closed, FreeParent, Goto
<1> QED
  BY <1>1, <1>2, <1>3

LEMMA OthersStay ==
  ASSUME NEW t \in Threads, Steps(t), TypeThreads, NEW u \in Threads, u # t
  PROVE  /\ at'[u] = at[u] /\ call'[u] = call[u] /\ chain'[u] = chain[u]
         /\ sought'[u] = sought[u] /\ got'[u] = got[u] /\ dying'[u] = dying[u]
<1>1. at'[u] = at[u]
  BY AloneAt DEF TypeThreads
<1> USE DEF TypeThreads, threadVars
<1>2. CASE Enter(t) \/ Leave(t) \/ FreeLibrary(t) \/ FreeParent(t)
  <2>1. \E c : call' = [call EXCEPT ![t] = c]
    BY <1>2 DEF Enter, Leave, FreeLibrary, FreeParent
  <2>2. /\ UNCHANGED chain
        /\ UNCHANGED sought \/ sought' = [sought EXCEPT ![t] = 0]
        /\ UNCHANGED got \/ got' = [got EXCEPT ![t] = 0]
        /\ UNCHANGED dying \/ \E D : dying' = [dying EXCEPT ![t] = D]
    BY <1>2 DEF Enter, Leave, FreeLibrary, FreeParent
  <2> QED
    BY <1>1, <2>1, <2>2
<1>3. CASE Looking(t)
  BY <1>1, <1>3, LookingMoves DEF Moves
<1>4. CASE OpenEnds(t) \/ ReadReturns(t) \/ StartOpen(t)
  <2>1. \E s : chain' = [chain EXCEPT ![t] = s]
    BY <1>4 DEF OpenEnds, ReadReturns, StartOpen, ReleaseLast
  <2> QED
    BY <1>1, <1>4, <2>1 DEF OpenEnds, ReadReturns, StartOpen
<1>5. CASE StartRead(t)
  <2>1. /\ \E s : chain' = [chain EXCEPT ![t] = s]
        /\ \E p : sought' = [sought EXCEPT ![t] = p]
        /\ \E p : got' = [got EXCEPT ![t] = p]
    BY <1>5 DEF StartRead
  <2> QED
    BY <1>1, <1>5, <2>1 DEF StartRead
<1>6. CASE Read(t)
  <2>1. UNCHANGED got \/ \E p : got' = [got EXCEPT ![t] = p]
    BY <1>6 DEF Read
  <2> QED
    BY <1>1, <1>6, <2>1 DEF Read
<1>7. CASE \/ AllowThreads(t) \/ OpenFileObject(t) \/ OnError(t) \/ AlreadyOpen(t)
           \/ GetSize(t) \/ Open(t) \/ Seek(t) \/ Close(t) \/ Closed(t)
           \/ FreeHandle(t) \/ SetParent(t) \/ ParentIsSet(t)
  BY <1>1, <1>7 DEF AllowThreads, OpenFileObject, OnError, AlreadyOpen, GetSize,
     Open, Seek, Close, Closed, FreeHandle, SetParent, ParentIsSet
<1> QED
  BY <1>2, <1>3, <1>4, <1>5, <1>6, <1>7 DEF Steps

(* A step inside a call stays inside it. *)
LEMMA CallGoesOn ==
  ASSUME NEW t \in Threads, IInv,
         \/ AllowThreads(t) \/ OpenFileObject(t) \/ OnError(t) \/ AlreadyOpen(t)
         \/ StartOpen(t) \/ GetSize(t) \/ Open(t) \/ OpenEnds(t)
         \/ StartRead(t) \/ Seek(t) \/ Read(t) \/ ReadReturns(t)
         \/ Looking(t) \/ Close(t) \/ Closed(t) \/ FreeHandle(t)
         \/ SetParent(t) \/ ParentIsSet(t)
  PROVE  Refers(t) /\ Refers(t)' /\ UNCHANGED <<call, held, dying>>
<1> USE DEF IInv, TypeThreads, Refers, Goto, threadVars, pythonVars
<1>1. CASE AllowThreads(t)
  <2>1. call[t].operation \in Operations
    BY DEF ThreadCall
  <2>2. call[t].operation \notin {"idle", "free_library", "freed"}
    BY <2>1 DEF Operations, FieldCalls, Drops
  <2> QED
    BY <1>1, <2>2 DEF AllowThreads
<1>2. CASE Looking(t)
  BY <1>2, LookingMoves DEF Moves
<1>3. CASE StartRead(t)
  <2>1. \E label \in AfterGrab(library[Wanted(t)]) : at' = [at EXCEPT ![t] = label]
    BY <1>3 DEF StartRead
  <2>2. AfterGrab(library[Wanted(t)]) \cap {"idle", "free_library", "freed"} = {}
    BY DEF AfterGrab
  <2> QED
    BY <1>3, <2>1, <2>2 DEF StartRead
<1>4. CASE OpenFileObject(t)
  <2>1. at' = [at EXCEPT ![t] = "return"] \/ at' = [at EXCEPT ![t] = "open_file_object"]
    BY <1>4 DEF OpenFileObject
  <2> QED
    BY <1>4, <2>1 DEF OpenFileObject
<1>5. CASE ReadReturns(t)
  BY <1>5 DEF ReadReturns
<1>6. CASE OnError(t) \/ AlreadyOpen(t) \/ StartOpen(t) \/ GetSize(t) \/ Open(t)
             \/ OpenEnds(t)
  BY <1>6 DEF OnError, AlreadyOpen, StartOpen, GetSize, Open, OpenEnds
<1>7. CASE Seek(t) \/ Read(t) \/ Close(t) \/ Closed(t) \/ FreeHandle(t)
             \/ SetParent(t) \/ ParentIsSet(t)
  BY <1>7 DEF Seek, Read, Close, Closed, FreeHandle, SetParent, ParentIsSet
<1> QED
  BY <1>1, <1>2, <1>3, <1>4, <1>5, <1>6, <1>7

-----------------------------------------------------------------------------
(* The reference counts.                                                   *)

LEMMA CallersSame ==
  ASSUME NEW t \in Threads, TypeThreads, Steps(t), Refers(t)' <=> Refers(t),
         Refers(t) => call'[t] = call[t], NEW x
  PROVE  Callers(x)' = Callers(x)
<1>1. \A u \in Threads : Refers(u)' <=> Refers(u)
  BY OthersStay DEF Refers
<1>2. \A u \in Threads : Refers(u) => call'[u] = call[u]
  BY OthersStay
<1> QED
  BY <1>1, <1>2 DEF Callers

LEMMA CallersBegin ==
  ASSUME NEW t \in Threads, TypeThreads, Steps(t), ~Refers(t), Refers(t)', NEW x
  PROVE  /\ t \notin Callers(x)
         /\ x \in Arguments(call'[t]) => Callers(x)' = Callers(x) \cup {t}
         /\ x \notin Arguments(call'[t]) => Callers(x)' = Callers(x)
<1>1. \A u \in Threads \ {t} : (Refers(u)' <=> Refers(u)) /\ call'[u] = call[u]
  BY OthersStay DEF Refers
<1> QED
  BY <1>1 DEF Callers

LEMMA CallersEnd ==
  ASSUME NEW t \in Threads, TypeThreads, Steps(t), Refers(t), ~Refers(t)', NEW x
  PROVE  /\ x \in Arguments(call[t]) => t \in Callers(x) /\ Callers(x)' = Callers(x) \ {t}
         /\ x \notin Arguments(call[t]) => Callers(x)' = Callers(x)
<1>1. \A u \in Threads \ {t} : (Refers(u)' <=> Refers(u)) /\ call'[u] = call[u]
  BY OthersStay DEF Refers
<1> QED
  BY <1>1 DEF Callers

LEMMA CountsMore ==
  ASSUME CountInv, NEW S, references' = More(references, S),
         \A x \in Files \cup Objects :
           Count(x)' = IF x \in S THEN Count(x) + 1 ELSE Count(x)
  PROVE  CountInv'
<1>1. references' = [x \in Files \cup Objects |->
                       IF x \in S THEN references[x] + 1 ELSE references[x]]
  BY DEF CountInv, More
<1>2. \A x \in Files \cup Objects :
        (IF x \in S THEN references[x] + 1 ELSE references[x]) = Count(x)'
  BY DEF CountInv
<1>3. references' = [x \in Files \cup Objects |-> Count(x)']
  BY <1>1, <1>2
<1> QED
  BY <1>3 DEF CountInv

LEMMA CountsLess ==
  ASSUME CountInv, NEW S, references' = Less(references, S),
         \A x \in Files \cup Objects :
           Count(x)' = IF x \in S THEN Count(x) - 1 ELSE Count(x)
  PROVE  CountInv'
<1>1. references' = [x \in Files \cup Objects |->
                       IF x \in S THEN references[x] - 1 ELSE references[x]]
  BY DEF CountInv, Less
<1>2. \A x \in Files \cup Objects :
        (IF x \in S THEN references[x] - 1 ELSE references[x]) = Count(x)'
  BY DEF CountInv
<1>3. references' = [x \in Files \cup Objects |-> Count(x)']
  BY <1>1, <1>2
<1> QED
  BY <1>3 DEF CountInv

LEMMA SameCounts ==
  ASSUME CountInv, UNCHANGED <<held, references, parent_file_object, handles>>,
         \A x : Callers(x)' = Callers(x)
  PROVE  CountInv'
<1>1. \A x : /\ Variables(x)' = Variables(x) /\ Children(x)' = Children(x)
             /\ ReadBy(x)' = ReadBy(x)
  BY DEF Variables, Children, ReadBy
<1>2. \A x : Count(x)' = Count(x)
  BY <1>1 DEF Count
<1> QED
  BY <1>2 DEF CountInv

LEMMA EnterCounts ==
  ASSUME IInv, NEW t \in Threads, Enter(t)
  PROVE  CountInv'
<1> DEFINE n == calls[t] + 1
<1>1. PICK c \in Program[t][n] :
        /\ Arguments(c) \subseteq held
        /\ call' = [call EXCEPT ![t] = c]
        /\ \/ /\ held' = held \ Arguments(c)
              /\ at' = [at EXCEPT ![t] = "return"]
              /\ UNCHANGED references
           \/ /\ references' = More(references, Arguments(c))
              /\ at' = [at EXCEPT ![t] = "entered"]
              /\ UNCHANGED held
  BY DEF Enter, Goto
<1>2. /\ UNCHANGED <<parent_file_object, handles>>
      /\ ~Refers(t) /\ Refers(t)' /\ call'[t] = c
  BY <1>1 DEF Enter, Refers, IInv, TypeThreads
<1>3. ASSUME NEW x
      PROVE  /\ Children(x)' = Children(x) /\ ReadBy(x)' = ReadBy(x)
             /\ x \notin Arguments(c) =>
                  Cardinality(Callers(x))' = Cardinality(Callers(x))
             /\ x \in Arguments(c) =>
                  Cardinality(Callers(x))' = Cardinality(Callers(x)) + 1
  <2>1. Steps(t) /\ TypeThreads
    BY DEF Steps, IInv
  <2>2. /\ t \notin Callers(x)
        /\ x \in Arguments(c) => Callers(x)' = Callers(x) \cup {t}
        /\ x \notin Arguments(c) => Callers(x)' = Callers(x)
    BY <1>2, <2>1, CallersBegin
  <2>3. IsFiniteSet(Callers(x))
    BY CountsAreNumbers
  <2>4. x \in Arguments(c) => Cardinality(Callers(x)') = Cardinality(Callers(x)) + 1
    BY <2>2, <2>3, OneMore
  <2> QED
    BY <1>2, <2>2, <2>4 DEF Children, ReadBy
<1>4. CountInv
  BY DEF IInv
<1>5. CASE held' = held \ Arguments(c) /\ UNCHANGED references
  <2>1. ASSUME NEW x \in Files \cup Objects
        PROVE  Count(x)' = Count(x)
    <3>1. /\ x \in Arguments(c) => Variables(x) = 1 /\ Variables(x)' = 0
          /\ x \notin Arguments(c) => Variables(x)' = Variables(x)
      BY <1>1, <1>5 DEF Variables
    <3>2. /\ Cardinality(Callers(x)) \in Nat /\ Cardinality(Children(x)) \in Nat
          /\ Cardinality(ReadBy(x)) \in Nat
      BY CountsAreNumbers
    <3> QED
      BY <1>3, <3>1, <3>2 DEF Count
  <2> QED
    BY <1>4, <1>5, <2>1 DEF CountInv
<1>6. CASE references' = More(references, Arguments(c)) /\ UNCHANGED held
  <2>1. ASSUME NEW x \in Files \cup Objects
        PROVE  Count(x)' = IF x \in Arguments(c) THEN Count(x) + 1 ELSE Count(x)
    <3>1. Variables(x)' = Variables(x) /\ Variables(x) \in Nat
      BY <1>6 DEF Variables
    <3>2. /\ Cardinality(Callers(x)) \in Nat /\ Cardinality(Children(x)) \in Nat
          /\ Cardinality(ReadBy(x)) \in Nat
      BY CountsAreNumbers
    <3> QED
      BY <1>3, <3>1, <3>2 DEF Count
  <2> QED
    BY <1>4, <1>6, <2>1, CountsMore
<1> QED
  BY <1>1, <1>5, <1>6

LEMMA LeaveCounts ==
  ASSUME IInv, NEW t \in Threads, Leave(t)
  PROVE  CountInv'
<1>1. /\ references' = Less(references, Arguments(call[t]))
      /\ at[t] = "return"
      /\ at'[t] \in {"idle", "free_library"}
      /\ UNCHANGED <<held, parent_file_object, handles>>
  BY DEF Leave, Goto, IInv, TypeThreads
<1>2. CountInv
  BY DEF IInv
<1>3. ASSUME NEW x \in Files \cup Objects
      PROVE  Count(x)' = IF x \in Arguments(call[t]) THEN Count(x) - 1 ELSE Count(x)
  <2>1. Steps(t) /\ TypeThreads /\ Refers(t) /\ ~Refers(t)'
    BY <1>1 DEF Steps, IInv, Refers
  <2>2. /\ x \in Arguments(call[t]) => t \in Callers(x) /\ Callers(x)' = Callers(x) \ {t}
        /\ x \notin Arguments(call[t]) => Callers(x)' = Callers(x)
    BY <2>1, CallersEnd
  <2>3. /\ IsFiniteSet(Callers(x)) /\ Variables(x) \in Nat
        /\ Cardinality(Callers(x)) \in Nat /\ Cardinality(Children(x)) \in Nat
        /\ Cardinality(ReadBy(x)) \in Nat
    BY CountsAreNumbers
  <2>4. x \in Arguments(call[t]) =>
          Cardinality(Callers(x)') = Cardinality(Callers(x)) - 1
    BY <2>2, <2>3, OneLess
  <2>5. /\ Variables(x)' = Variables(x) /\ Children(x)' = Children(x)
        /\ ReadBy(x)' = ReadBy(x)
    BY <1>1 DEF Variables, Children, ReadBy
  <2> QED
    BY <2>2, <2>3, <2>4, <2>5 DEF Count
<1> QED
  BY <1>1, <1>2, <1>3, CountsLess

(* A handle that is freed gives up its reference, and no other does.       *)
LEMMA HandleCounts ==
  ASSUME IInv, NEW f \in Files, FreeHandleOf(f), UNCHANGED <<held, parent_file_object>>,
         \A x : Callers(x)' = Callers(x)
  PROVE  CountInv'
<1> DEFINE h == file_io_handle[f]
           o == handles[h].object
<1>1. CASE h = NoHandle
  BY <1>1, SameCounts DEF IInv, FreeHandleOf
<1>2. CASE h # NoHandle
  <2>1. /\ h \in Handles /\ handles[h].state = "live" /\ o \in Objects
        /\ handles \in [Handles -> BfioHandle]
    BY <1>2 DEF IInv, TypeFiles, HandleInv
  <2>2. handles' = Freed(h) /\ references' = Less(references, {o})
    BY <1>2 DEF FreeHandleOf, ObjectOf
  <2>3. /\ \A g \in Handles \ {h} : handles'[g] = handles[g]
        /\ handles'[h].state = "freed"
    BY <2>1, <2>2, FreedHandleType
  <2>4. ASSUME NEW x \in Files \cup Objects
        PROVE  Count(x)' = IF x \in {o} THEN Count(x) - 1 ELSE Count(x)
    <3>1. /\ x = o => h \in ReadBy(x) /\ ReadBy(x)' = ReadBy(x) \ {h}
          /\ x # o => ReadBy(x)' = ReadBy(x)
      BY <2>1, <2>3 DEF ReadBy
    <3>2. /\ IsFiniteSet(ReadBy(x)) /\ Variables(x) \in Nat
          /\ Cardinality(Callers(x)) \in Nat /\ Cardinality(Children(x)) \in Nat
          /\ Cardinality(ReadBy(x)) \in Nat
      BY CountsAreNumbers
    <3>3. x = o => Cardinality(ReadBy(x)') = Cardinality(ReadBy(x)) - 1
      BY <3>1, <3>2, OneLess
    <3>4. /\ Variables(x)' = Variables(x) /\ Children(x)' = Children(x)
          /\ Callers(x)' = Callers(x)
      BY DEF Variables, Children
    <3> HIDE DEF o
    <3> QED
      BY <3>1, <3>2, <3>3, <3>4 DEF Count
  <2>5. CountInv
    BY DEF IInv
  <2> HIDE DEF o
  <2> QED
    BY <2>2, <2>4, <2>5, CountsLess
<1> QED
  BY <1>1, <1>2

LEMMA OpenFileObjectCounts ==
  ASSUME IInv, NEW t \in Threads, OpenFileObject(t)
  PROVE  CountInv'
<1>1. \A x : Callers(x)' = Callers(x)
  <2>1. (Refers(t)' <=> Refers(t)) /\ call'[t] = call[t] /\ TypeThreads /\ Steps(t)
    BY CallGoesOn DEF Steps, IInv
  <2> QED
    BY <2>1, CallersSame
<1>2. /\ at[t] = "entered" /\ call[t].operation = "open_file_object"
      /\ UNCHANGED <<held, parent_file_object>>
  BY DEF OpenFileObject
<1>3. file_io_handle[file(t)] = NoHandle
  BY <1>2 DEF IInv, OpenInv
<1>4. PICK h \in FreeHandles :
        handles' = [handles EXCEPT ![h] = [state |-> "live", object |-> call[t].object]]
  BY <1>3 DEF OpenFileObject
<1>5. references' = More(references, {call[t].object})
  BY <1>3 DEF OpenFileObject, Refer
<1>6. /\ h \in Handles /\ handles[h].state # "live"
      /\ \A g \in Handles \ {h} : handles'[g] = handles[g]
      /\ handles'[h].state = "live" /\ handles'[h].object = call[t].object
  BY <1>4 DEF FreeHandles, IInv, TypeFiles
<1>7. ASSUME NEW x \in Files \cup Objects
      PROVE  Count(x)' = IF x \in {call[t].object} THEN Count(x) + 1 ELSE Count(x)
  <2>1. /\ h \notin ReadBy(x)
        /\ x = call[t].object => ReadBy(x)' = ReadBy(x) \cup {h}
        /\ x # call[t].object => ReadBy(x)' = ReadBy(x)
    BY <1>6 DEF ReadBy
  <2>2. /\ IsFiniteSet(ReadBy(x)) /\ Variables(x) \in Nat
        /\ Cardinality(Callers(x)) \in Nat /\ Cardinality(Children(x)) \in Nat
        /\ Cardinality(ReadBy(x)) \in Nat
    BY CountsAreNumbers
  <2>3. x = call[t].object => Cardinality(ReadBy(x)') = Cardinality(ReadBy(x)) + 1
    BY <2>1, <2>2, OneMore
  <2>4. /\ Variables(x)' = Variables(x) /\ Children(x)' = Children(x)
        /\ Callers(x)' = Callers(x)
    BY <1>1, <1>2 DEF Variables, Children
  <2> QED
    BY <2>1, <2>2, <2>3, <2>4 DEF Count
<1>8. CountInv
  BY DEF IInv
<1> QED
  BY <1>5, <1>7, <1>8, CountsMore

LEMMA ParentIsSetCounts ==
  ASSUME IInv, NEW t \in Threads, ParentIsSet(t)
  PROVE  CountInv'
<1> DEFINE f == file(t)
           p == call[t].parent
<1>1. \A x : Callers(x)' = Callers(x)
  <2>1. (Refers(t)' <=> Refers(t)) /\ call'[t] = call[t] /\ TypeThreads /\ Steps(t)
    BY CallGoesOn DEF Steps, IInv
  <2> QED
    BY <2>1, CallersSame
<1>2. at[t] = "parent_set" /\ f \in Files /\ p \in Files
  BY FileOfCall DEF ParentIsSet, Refers, IInv, CallInv
<1>3. parent_file_object[f] = NoFile
  BY <1>2 DEF IInv, ParentInv, SettingParent
<1>4. /\ \A g \in Files \ {f} : parent_file_object'[g] = parent_file_object[g]
      /\ parent_file_object'[f] = p
      /\ references' = More(references, {p})
      /\ UNCHANGED <<held, handles>>
  BY <1>2 DEF ParentIsSet, Refer, IInv, TypeFiles
<1>5. ASSUME NEW x \in Files \cup Objects
      PROVE  Count(x)' = IF x \in {p} THEN Count(x) + 1 ELSE Count(x)
  <2>1. /\ f \notin Children(x)
        /\ x = p => Children(x)' = Children(x) \cup {f}
        /\ x # p => Children(x)' = Children(x)
    BY <1>2, <1>3, <1>4, PyqcowConstants DEF Children
  <2>2. /\ IsFiniteSet(Children(x)) /\ Variables(x) \in Nat
        /\ Cardinality(Callers(x)) \in Nat /\ Cardinality(Children(x)) \in Nat
        /\ Cardinality(ReadBy(x)) \in Nat
    BY CountsAreNumbers
  <2>3. x = p => Cardinality(Children(x)') = Cardinality(Children(x)) + 1
    BY <2>1, <2>2, OneMore
  <2>4. /\ Variables(x)' = Variables(x) /\ ReadBy(x)' = ReadBy(x)
        /\ Callers(x)' = Callers(x)
    BY <1>1, <1>4 DEF Variables, ReadBy
  <2> HIDE DEF p
  <2> QED
    BY <2>1, <2>2, <2>3, <2>4 DEF Count
<1>6. CountInv
  BY DEF IInv
<1> QED
  BY <1>4, <1>5, <1>6, CountsMore

LEMMA FreeParentCounts ==
  ASSUME IInv, NEW t \in Threads, FreeParent(t)
  PROVE  CountInv'
<1> DEFINE f == file(t)
           p == parent_file_object[f]
<1>1. at[t] = "freed" /\ f \in Files /\ at'[t] \in {"idle", "free_library"}
  BY DEF FreeParent, Goto, IInv, FreeInv, TypeThreads
<1>2. \A x : Callers(x)' = Callers(x)
  <2>1. (Refers(t)' <=> Refers(t)) /\ ~Refers(t) /\ TypeThreads /\ Steps(t)
    BY <1>1 DEF Refers, Steps, IInv
  <2> QED
    BY <2>1, CallersSame
<1>3. /\ references' = Less(references, {p} \ {NoFile})
      /\ \A g \in Files \ {f} : parent_file_object'[g] = parent_file_object[g]
      /\ parent_file_object'[f] = NoFile
      /\ UNCHANGED <<held, handles>>
  BY <1>1 DEF FreeParent, IInv, TypeFiles
<1>4. ASSUME NEW x \in Files \cup Objects
      PROVE  Count(x)' = IF x \in {p} \ {NoFile} THEN Count(x) - 1 ELSE Count(x)
  <2>1. /\ x # NoFile
        /\ x = p => f \in Children(x) /\ Children(x)' = Children(x) \ {f}
        /\ x # p => Children(x)' = Children(x)
    BY <1>1, <1>3, PyqcowConstants DEF Children
  <2>2. /\ IsFiniteSet(Children(x)) /\ Variables(x) \in Nat
        /\ Cardinality(Callers(x)) \in Nat /\ Cardinality(Children(x)) \in Nat
        /\ Cardinality(ReadBy(x)) \in Nat
    BY CountsAreNumbers
  <2>3. x = p => Cardinality(Children(x)') = Cardinality(Children(x)) - 1
    BY <2>1, <2>2, OneLess
  <2>4. /\ Variables(x)' = Variables(x) /\ ReadBy(x)' = ReadBy(x)
        /\ Callers(x)' = Callers(x)
    BY <1>2, <1>3 DEF Variables, ReadBy
  <2> HIDE DEF p
  <2> QED
    BY <2>1, <2>2, <2>3, <2>4 DEF Count
<1>5. CountInv
  BY DEF IInv
<1> HIDE DEF p
<1> QED
  BY <1>3, <1>4, <1>5, CountsLess

LEMMA StepCounts ==
  ASSUME IInv, NEW t \in Threads, Steps(t)
  PROVE  CountInv'
<1>1. CASE \/ AllowThreads(t) \/ AlreadyOpen(t) \/ StartOpen(t) \/ GetSize(t)
           \/ Open(t) \/ OpenEnds(t) \/ StartRead(t) \/ Seek(t) \/ Read(t)
           \/ ReadReturns(t) \/ Looking(t) \/ Close(t) \/ Closed(t) \/ SetParent(t)
  <2>1. /\ (Refers(t)' <=> Refers(t)) /\ UNCHANGED <<call, held>>
        /\ TypeThreads /\ CountInv
    BY <1>1, CallGoesOn DEF IInv
  <2>2. \A x : Callers(x)' = Callers(x)
    BY <2>1, CallersSame
  <2>3. UNCHANGED <<references, parent_file_object, handles>>
    <3>1. CASE Looking(t)
      BY <3>1, LookingMoves DEF Moves, pythonVars
    <3>2. CASE \/ AllowThreads(t) \/ AlreadyOpen(t) \/ StartOpen(t) \/ GetSize(t)
               \/ Open(t) \/ OpenEnds(t)
      BY <3>2 DEF AllowThreads, AlreadyOpen, StartOpen, GetSize, Open, OpenEnds,
         pythonVars
    <3>3. CASE \/ StartRead(t) \/ Seek(t) \/ Read(t)
               \/ ReadReturns(t) \/ Close(t) \/ Closed(t) \/ SetParent(t)
      BY <3>3 DEF StartRead, Seek, Read, ReadReturns, Close, Closed, SetParent,
         pythonVars
    <3> QED
      BY <1>1, <3>1, <3>2, <3>3
  <2> QED
    BY <2>1, <2>2, <2>3, SameCounts
<1>2. CASE OnError(t) \/ FreeHandle(t)
  <2>1. /\ Refers(t) /\ Refers(t)' /\ UNCHANGED <<call, held>>
        /\ TypeThreads /\ at[t] # "return"
    BY <1>2, CallGoesOn DEF IInv, OnError, FreeHandle
  <2>2. \A x : Callers(x)' = Callers(x)
    BY <2>1, CallersSame
  <2>3. file(t) \in Files
    BY <2>1, FileOfCall
  <2>4. FreeHandleOf(file(t)) /\ UNCHANGED <<held, parent_file_object>>
    BY <1>2 DEF OnError, FreeHandle
  <2> QED
    BY <2>2, <2>3, <2>4, HandleCounts
<1>3. CASE FreeLibrary(t)
  <2>1. /\ (Refers(t)' <=> Refers(t)) /\ ~Refers(t) /\ TypeThreads
    BY <1>3 DEF IInv, FreeLibrary, Goto, Refers, TypeThreads
  <2>2. \A x : Callers(x)' = Callers(x)
    BY <2>1, CallersSame
  <2>3. PICK f \in dying[t] : FreeHandleOf(f)
    BY <1>3 DEF FreeLibrary
  <2>4. f \in Files
    BY DEF IInv, TypeThreads
  <2>5. UNCHANGED <<held, parent_file_object>>
    BY <1>3 DEF FreeLibrary
  <2> QED
    BY <2>2, <2>3, <2>4, <2>5, HandleCounts
<1> QED
  BY <1>1, <1>2, <1>3, EnterCounts, LeaveCounts, OpenFileObjectCounts,
     ParentIsSetCounts, FreeParentCounts DEF Steps

-----------------------------------------------------------------------------
(* Which file of the library, and which handle, a step changes.            *)

LEMMA NoThreadIsNone == \A t \in Threads : t # NoThread
BY PyqcowConstants

SameFile(g) ==
  /\ library'[g].parent_file = library[g].parent_file
  /\ library'[g].file_io_handle = library[g].file_io_handle
  /\ library'[g].state = library[g].state

(* How the library's file g changes, which nobody else has locked. *)
LibraryStep(t, g) ==
  /\ lock[g] \in {NoThread, t}
  /\ \A f \in Files \ {g} : library'[f] = library[f]
  /\ \/ GetSize(t) /\ g = file(t) /\ SameFile(g)
     \/ /\ Open(t) /\ g = file(t)
        /\ library[g].state = "closed" /\ library'[g].state = "open"
        /\ library'[g].parent_file = library[g].parent_file
        /\ library'[g].file_io_handle = library[g].file_io_handle
     \/ /\ OpenEnds(t) /\ g = file(t) /\ library'[g].state = "open"
        /\ library'[g].parent_file = library[g].parent_file
        /\ library'[g].file_io_handle = file_io_handle[g]
     \/ /\ Close(t) /\ g = file(t) /\ library'[g].state = "closed"
        /\ library'[g].parent_file = library[g].parent_file
        /\ library'[g].file_io_handle = NoHandle
     \/ /\ SetParent(t) /\ g = file(t) /\ library'[g].state = library[g].state
        /\ library[g].parent_file = NoFile
        /\ library'[g].parent_file = call[t].parent
        /\ library'[g].file_io_handle = library[g].file_io_handle
        /\ at'[t] = "parent_set"
     \/ /\ FreeLibrary(t) /\ g \in dying[t] /\ library'[g].state = "freed"
        /\ library'[g].parent_file = library[g].parent_file
        /\ library'[g].file_io_handle = NoHandle

LEMMA LibrarySteps ==
  ASSUME IInv, NEW t \in Threads, Steps(t)
  PROVE  UNCHANGED library \/ \E g \in Files : LibraryStep(t, g)
<1>0. library \in [Files -> LibraryFile] /\ at \in [Threads -> Labels]
  BY DEF IInv, TypeFiles, TypeThreads
<1>1. CASE \/ Enter(t) \/ AllowThreads(t) \/ Leave(t) \/ OpenFileObject(t)
           \/ OnError(t) \/ AlreadyOpen(t) \/ StartOpen(t)
           \/ StartRead(t) \/ Seek(t) \/ Read(t) \/ ReadReturns(t)
  BY <1>1 DEF Enter, AllowThreads, Leave, OpenFileObject, OnError, AlreadyOpen,
     StartOpen, StartRead, Seek, Read, ReadReturns
<1>2. CASE Looking(t)
  BY <1>2, LookingMoves DEF Moves
<1>3. CASE Closed(t) \/ FreeHandle(t) \/ ParentIsSet(t) \/ FreeParent(t)
  BY <1>3 DEF Closed, FreeHandle, ParentIsSet, FreeParent
<1>4. CASE GetSize(t)
  <2>1. file(t) \in Files
    BY <1>4, FileOfCall DEF GetSize, Refers
  <2>2. lock[file(t)] = t
    BY <1>4, UsedHandleType DEF GetSize, IInv, CallInv
  <2>3. \E s : library' = [library EXCEPT ![file(t)].size = s]
    BY <1>4 DEF GetSize
  <2>4. LibraryStep(t, file(t))
    BY <1>0, <1>4, <2>1, <2>2, <2>3 DEF LibraryStep, SameFile, LibraryFile
  <2> QED
    BY <2>1, <2>4
<1>5. CASE Open(t) /\ ~UNCHANGED library
  <2>1. file(t) \in Files
    BY <1>5, FileOfCall DEF Open, Refers
  <2>2. /\ lock[file(t)] = NoThread /\ library[file(t)].state = "closed"
        /\ library' = [library EXCEPT ![file(t)].state = "open"]
    BY <1>5 DEF Open
  <2>3. LibraryStep(t, file(t))
    BY <1>0, <1>5, <2>1, <2>2 DEF LibraryStep, SameFile, LibraryFile
  <2> QED
    BY <2>1, <2>3
<1>6. CASE OpenEnds(t) /\ ~UNCHANGED library
  <2>1. file(t) \in Files
    BY <1>6, FileOfCall DEF OpenEnds, Refers
  <2>2. lock[file(t)] = t
    <3>1. chain[t] = <<file(t)>>
      BY <1>6 DEF OpenEnds, IInv, ChainInv, IoLabels
    <3>2. \A i \in 1..Len(chain[t]) : lock[chain[t][i]] = t
      BY DEF IInv, ChainInv
    <3>3. Len(<<file(t)>>) = 1 /\ <<file(t)>>[1] = file(t)
      OBVIOUS
    <3> QED
      BY <3>1, <3>2, <3>3
  <2>3. library' = [library EXCEPT ![file(t)].state = "open",
                      ![file(t)].file_io_handle = file_io_handle[file(t)]]
    BY <1>6 DEF OpenEnds
  <2>4. LibraryStep(t, file(t))
    BY <1>0, <1>6, <2>1, <2>2, <2>3 DEF LibraryStep, LibraryFile
  <2> QED
    BY <2>1, <2>4
<1>7. CASE Close(t) /\ ~UNCHANGED library
  <2>1. file(t) \in Files
    BY <1>7, FileOfCall DEF Close, Refers
  <2>2. /\ lock[file(t)] = NoThread
        /\ library' = [library EXCEPT ![file(t)].state = "closed",
                         ![file(t)].file_io_handle = NoHandle]
    BY <1>7 DEF Close, ClosedLibrary
  <2>3. LibraryStep(t, file(t))
    BY <1>0, <1>7, <2>1, <2>2 DEF LibraryStep, LibraryFile
  <2> QED
    BY <2>1, <2>3
<1>8. CASE SetParent(t) /\ ~UNCHANGED library
  <2>1. file(t) \in Files
    BY <1>8, FileOfCall DEF SetParent, Refers
  <2>2. /\ lock[file(t)] = NoThread /\ library[file(t)].parent_file = NoFile
        /\ library' = [library EXCEPT ![file(t)].parent_file = call[t].parent]
        /\ at' = [at EXCEPT ![t] = "parent_set"]
    BY <1>8 DEF SetParent, TakesParent, Goto
  <2>3. LibraryStep(t, file(t))
    BY <1>0, <1>8, <2>1, <2>2 DEF LibraryStep, LibraryFile
  <2> QED
    BY <2>1, <2>3
<1>9. CASE FreeLibrary(t)
  <2>1. PICK f \in dying[t] :
          /\ lock[f] = NoThread
          /\ library' = [library EXCEPT ![f].state = "freed",
                                        ![f].file_io_handle = NoHandle]
    BY <1>9 DEF FreeLibrary
  <2>2. f \in Files
    BY DEF IInv, TypeThreads
  <2>3. LibraryStep(t, f)
    BY <1>0, <1>9, <2>1, <2>2 DEF LibraryStep, LibraryFile
  <2> QED
    BY <2>2, <2>3
<1> QED
  BY <1>1, <1>2, <1>3, <1>4, <1>5, <1>6, <1>7, <1>8, <1>9 DEF Steps

(* What every step keeps of the library's file f. *)
LEMMA LibraryKept ==
  ASSUME IInv, NEW t \in Threads, Steps(t), NEW f \in Files
  PROVE  /\ library[f].parent_file # NoFile =>
              library'[f].parent_file = library[f].parent_file
         /\ library[f].state = "freed" => library'[f].state = "freed"
         /\ lock[f] \notin {NoThread, t} => library'[f] = library[f]
         /\ \/ library'[f].file_io_handle = library[f].file_io_handle
            \/ library'[f].file_io_handle = NoHandle
            \/ /\ OpenEnds(t) /\ f = file(t)
               /\ library'[f].file_io_handle = file_io_handle[f]
<1>1. CASE UNCHANGED library
  BY <1>1
<1>2. CASE \E g \in Files : LibraryStep(t, g)
  <2>1. PICK g \in Files : LibraryStep(t, g)
    BY <1>2
  <2>2. CASE f # g
    BY <2>1, <2>2 DEF LibraryStep
  <2>3. CASE f = g
    <3>1. OpenEnds(t) \/ Close(t) => library[file(t)].state # "freed"
      BY FileOfCall DEF OpenEnds, Close, Refers
    <3> QED
      BY <2>1, <2>3, <3>1 DEF LibraryStep, SameFile
  <2> QED
    BY <2>2, <2>3
<1> QED
  BY <1>1, <1>2, LibrarySteps

(* How the handles change when g gives its one up. *)
GivesUp(g) ==
  /\ file_io_handle'[g] = NoHandle
  /\ \A f \in Files \ {g} : file_io_handle'[f] = file_io_handle[f]
  /\ \A h \in Handles \ {file_io_handle[g]} : handles'[h] = handles[h]
  /\ file_io_handle[g] # NoHandle => handles'[file_io_handle[g]].state = "freed"

LEMMA FreeHandleGivesUp ==
  ASSUME IInv, NEW g \in Files, FreeHandleOf(g)
  PROVE  GivesUp(g)
<1>1. /\ file_io_handle' = [file_io_handle EXCEPT ![g] = NoHandle]
      /\ file_io_handle \in [Files -> Handles \cup {NoHandle}]
  BY DEF FreeHandleOf, IInv, TypeFiles
<1>2. CASE file_io_handle[g] = NoHandle
  BY <1>1, <1>2 DEF FreeHandleOf, GivesUp
<1>3. CASE file_io_handle[g] # NoHandle
  <2>1. /\ handles' = Freed(file_io_handle[g])
        /\ handles[file_io_handle[g]].state = "live"
        /\ file_io_handle[g] \in Handles
        /\ handles \in [Handles -> BfioHandle]
    BY <1>1, <1>3 DEF FreeHandleOf, IInv, HandleInv, TypeFiles
  <2> QED
    BY <1>1, <2>1, FreedHandleType DEF GivesUp
<1> QED
  BY <1>2, <1>3

LEMMA HandleSteps ==
  ASSUME IInv, NEW t \in Threads, Steps(t)
  PROVE  \/ UNCHANGED <<file_io_handle, handles>>
         \/ /\ OpenFileObject(t) /\ at[t] = "entered"
            /\ call[t].operation = "open_file_object"
            /\ file_io_handle[file(t)] = NoHandle
            /\ \E h \in FreeHandles :
                 /\ file_io_handle' = [file_io_handle EXCEPT ![file(t)] = h]
                 /\ handles' = [handles EXCEPT ![h] =
                                  [state |-> "live", object |-> call[t].object]]
         \/ /\ OnError(t) \/ FreeHandle(t)
            /\ GivesUp(file(t)) /\ library[file(t)].file_io_handle = NoHandle
         \/ /\ FreeLibrary(t)
            /\ \E g \in dying[t] : /\ g \in Files /\ GivesUp(g) /\ lock[g] = NoThread
                                   /\ library'[g].file_io_handle = NoHandle
<1>1. CASE OpenFileObject(t)
  <2>1. file_io_handle[file(t)] = NoHandle
    BY <1>1 DEF OpenFileObject, IInv, OpenInv
  <2> QED
    BY <1>1, <2>1 DEF OpenFileObject
<1>2. CASE OnError(t) \/ FreeHandle(t)
  <2>1. file(t) \in Files
    BY <1>2, FileOfCall DEF OnError, FreeHandle, Refers
  <2>2. library[file(t)].file_io_handle = NoHandle
    BY <1>2 DEF OnError, FreeHandle, IInv, OpenInv
  <2> QED
    BY <1>2, <2>1, <2>2, FreeHandleGivesUp DEF OnError, FreeHandle
<1>3. CASE FreeLibrary(t)
  <2>1. PICK f \in dying[t] :
          /\ lock[f] = NoThread /\ FreeHandleOf(f)
          /\ library' = [library EXCEPT ![f].state = "freed",
                                        ![f].file_io_handle = NoHandle]
    BY <1>3 DEF FreeLibrary
  <2>2. f \in Files
    BY DEF IInv, TypeThreads
  <2>3. library'[f].file_io_handle = NoHandle
    BY <2>1, <2>2 DEF IInv, TypeFiles, LibraryFile
  <2> QED
    BY <1>3, <2>1, <2>2, <2>3, FreeHandleGivesUp
<1>4. CASE \/ Enter(t) \/ AllowThreads(t) \/ Leave(t)
           \/ AlreadyOpen(t) \/ StartOpen(t) \/ GetSize(t) \/ Open(t) \/ OpenEnds(t)
           \/ StartRead(t) \/ Seek(t) \/ Read(t) \/ ReadReturns(t)
  BY <1>4 DEF Enter, AllowThreads, Leave, AlreadyOpen, GetSize, Open, OpenEnds,
     StartOpen, StartRead, Seek, Read, ReadReturns, pythonVars
<1>5. CASE Looking(t)
  BY <1>5, LookingMoves DEF Moves, pythonVars
<1>6. CASE Close(t) \/ Closed(t) \/ SetParent(t) \/ ParentIsSet(t) \/ FreeParent(t)
  BY <1>6 DEF Close, Closed, SetParent, ParentIsSet, FreeParent, pythonVars
<1> QED
  BY <1>1, <1>2, <1>3, <1>4, <1>5, <1>6 DEF Steps

-----------------------------------------------------------------------------
(* What threads are at.                                                    *)

LEMMA CallKept ==
  ASSUME IInv, NEW t \in Threads, Steps(t), NEW u \in Threads
  PROVE  CallInv(u)'
<1> USE DEF IInv, TypeThreads, Goto
<1>1. CASE u # t
  <2>1. at'[u] = at[u] /\ call'[u] = call[u]
    BY <1>1, OthersStay
  <2>2. CallInv(u)
    OBVIOUS
  <2> QED
    BY <2>1, <2>2 DEF CallInv, Refers
<1> SUFFICES ASSUME u = t PROVE CallInv(t)'
  BY <1>1
<1>2. CallInv(t)
  OBVIOUS
<1>3. CASE Enter(t)
  <2>1. PICK c \in Program[t][calls[t] + 1] :
          /\ call' = [call EXCEPT ![t] = c]
          /\ \/ at' = [at EXCEPT ![t] = "return"]
             \/ at' = [at EXCEPT ![t] = "entered"] /\ c.operation \notin Drops
    BY <1>3 DEF Enter
  <2>2. c \in CallsOf(t)
    BY <1>3, CallsOfPrograms DEF Enter
  <2>3. c \in Calls
    BY <2>2, CallsOfThreads
  <2> QED
    BY <2>1, <2>2, <2>3 DEF CallInv, Refers, IoLabels
<1>4. CASE AllowThreads(t)
  <2>1. /\ call'[t] = call[t] /\ at'[t] = call[t].operation
        /\ call[t].operation \in Operations \ Drops
        /\ call[t] \in CallsOf(t) /\ call[t] \in Calls
        /\ call[t].operation # "open_file_object"
    BY <1>2, <1>4 DEF AllowThreads, CallInv, Refers, Calls, threadVars
  <2> QED
    BY <2>1 DEF CallInv, IoLabels, Operations, FieldCalls, Drops
<1>5. CASE Leave(t) \/ FreeLibrary(t) \/ FreeParent(t)
  <2>1. at'[t] \in {"idle", "free_library", "freed"}
    BY <1>5 DEF Leave, FreeLibrary, FreeParent
  <2> QED
    BY <2>1 DEF CallInv, Refers, IoLabels
<1>6. CASE Looking(t)
  BY <1>2, <1>6, CallGoesOn, LookingMoves DEF Moves, CallInv, IoLabels, Refers
<1>7. CASE StartRead(t)
  <2>1. at'[t] \in {"io_failed", "io_done", "io_seek", "read"}
    BY <1>7 DEF StartRead, AfterGrab
  <2>2. call'[t] = call[t] /\ at[t] = "read"
    BY <1>7 DEF StartRead
  <2> QED
    BY <1>2, <2>1, <2>2 DEF CallInv, Refers, IoLabels
<1>8. CASE \/ OpenFileObject(t) \/ OnError(t) \/ AlreadyOpen(t) \/ StartOpen(t)
           \/ GetSize(t) \/ Open(t) \/ OpenEnds(t)
  <2>1. call'[t] = call[t] /\ Refers(t) /\ Refers(t)'
    BY <1>8, CallGoesOn
  <2>2. at[t] # "return"
    BY <1>8 DEF OpenFileObject, OnError, AlreadyOpen, StartOpen, GetSize, Open,
       OpenEnds
  <2>3. \/ at'[t] = "return"
        \/ /\ call[t].operation = "open_file_object"
           /\ at'[t] \in {"open_file_object", "on_error", "get_size", "io_failed",
                          "io_seek"}
    BY <1>2, <1>8 DEF OpenFileObject, OnError, AlreadyOpen, StartOpen, GetSize,
       Open, OpenEnds, CallInv
  <2> QED
    BY <1>2, <2>1, <2>2, <2>3 DEF CallInv, IoLabels
<1>9. CASE Seek(t) \/ Read(t) \/ ReadReturns(t)
  <2>1. call'[t] = call[t] /\ Refers(t) /\ Refers(t)'
    BY <1>9, CallGoesOn
  <2>2. at[t] \in IoLabels /\ (at'[t] \in IoLabels \/ at'[t] = "return")
    BY <1>9 DEF Seek, Read, ReadReturns, IoLabels
  <2> QED
    BY <1>2, <2>1, <2>2 DEF CallInv, IoLabels
<1>10. CASE Close(t) \/ Closed(t) \/ FreeHandle(t) \/ SetParent(t) \/ ParentIsSet(t)
  <2>1. call'[t] = call[t] /\ Refers(t) /\ Refers(t)'
    BY <1>10, CallGoesOn
  <2>2. at[t] # "return"
    BY <1>10 DEF Close, Closed, FreeHandle, SetParent, ParentIsSet
  <2>3. \/ at'[t] = "return"
        \/ call[t].operation = "close" /\ at'[t] \in {"closed", "free_handle"}
        \/ call[t].operation = "set_parent" /\ at'[t] = "parent_set"
    BY <1>2, <1>10 DEF Close, Closed, FreeHandle, SetParent, ParentIsSet, CallInv
  <2> QED
    BY <1>2, <2>1, <2>2, <2>3 DEF CallInv, IoLabels
<1> QED
  BY <1>3, <1>4, <1>5, <1>6, <1>7, <1>8, <1>9, <1>10 DEF Steps

(* Locks of others are not touched. *)
LEMMA LocksKept ==
  ASSUME IInv, NEW t \in Threads, Steps(t), NEW f \in Files,
         lock[f] \notin {NoThread, t}
  PROVE  lock'[f] = lock[f]
<1>1. CASE StartOpen(t) \/ StartRead(t)
  <2>1. \E g : Grab(t, g)
    BY <1>1 DEF StartOpen, StartRead
  <2> QED
    BY <2>1 DEF Grab, IInv, TypeFiles
<1>2. CASE OpenEnds(t) \/ ReadReturns(t)
  <2>1. ReleaseLast(t) /\ at[t] \in IoLabels
    BY <1>2 DEF OpenEnds, ReadReturns, IoLabels
  <2>2. /\ Current(t) \in Files
        /\ lock' = [lock EXCEPT ![Current(t)] = NoThread]
    BY <2>1, ReleaseTypes
  <2>3. lock[Current(t)] = t
    <3>1. /\ chain[t] \in Seq(Files) /\ chain[t] # <<>>
          /\ \A i \in 1..Len(chain[t]) : lock[chain[t][i]] = t
      BY <2>1 DEF IInv, TypeThreads, ChainInv
    <3> QED
      BY <3>1, CurrentType
  <2> QED
    BY <2>2, <2>3 DEF IInv, TypeFiles
<1>3. CASE \/ Enter(t) \/ AllowThreads(t) \/ Leave(t) \/ OpenFileObject(t)
           \/ OnError(t) \/ AlreadyOpen(t) \/ GetSize(t) \/ Open(t) \/ Seek(t)
           \/ Read(t)
  BY <1>3 DEF Enter, AllowThreads, Leave, OpenFileObject, OnError, AlreadyOpen,
     GetSize, Open, Seek, Read
<1>4. CASE Looking(t)
  BY <1>4, LookingMoves DEF Moves
<1>5. CASE \/ Close(t) \/ Closed(t) \/ FreeHandle(t) \/ SetParent(t)
           \/ ParentIsSet(t) \/ FreeLibrary(t) \/ FreeParent(t)
  BY <1>5 DEF Close, Closed, FreeHandle, SetParent, ParentIsSet, FreeLibrary,
     FreeParent
<1> QED
  BY <1>1, <1>2, <1>3, <1>4, <1>5 DEF Steps

LEMMA OtherChains ==
  ASSUME IInv, NEW t \in Threads, Steps(t), NEW u \in Threads, u # t
  PROVE  ChainInv(u)'
<1>1. /\ at'[u] = at[u] /\ call'[u] = call[u] /\ chain'[u] = chain[u]
      /\ chain[u] \in Seq(Files) /\ ChainInv(u)
  BY OthersStay DEF IInv, TypeThreads
<1>2. ASSUME NEW i \in 1..Len(chain[u])
      PROVE  lock'[chain[u][i]] = u
  <2>1. chain[u][i] \in Files
    BY <1>1, ElementOfSeq
  <2>2. lock[chain[u][i]] = u /\ u \notin {NoThread, t}
    BY <1>1, NoThreadIsNone DEF ChainInv
  <2> QED
    BY <2>1, <2>2, LocksKept
<1>3. at[u] = "read" /\ chain[u] # <<>> => library'[Current(u)].parent_file # NoFile
  BY <1>1, CurrentType, LibraryKept DEF ChainInv
<1>4. Current(u)' = Current(u) /\ file(u)' = file(u)
  BY <1>1 DEF Current, file
<1> QED
  BY <1>1, <1>2, <1>3, <1>4 DEF ChainInv

LEMMA OwnChain ==
  ASSUME IInv, NEW t \in Threads, Steps(t), (TypeThreads /\ TypeFiles)', CallInv(t)'
  PROVE  ChainInv(t)'
<1>0. /\ ChainInv(t) /\ CallInv(t) /\ chain[t] \in Seq(Files)
      /\ chain \in [Threads -> Seq(Files)] /\ at \in [Threads -> Labels]
      /\ lock \in [Files -> Threads \cup {NoThread}]
  BY DEF IInv, TypeThreads, TypeFiles
<1>1. CASE UNCHANGED <<chain, lock>> /\ chain[t] = <<>> /\ at'[t] \notin {"get_size"} \cup IoLabels
  BY <1>1 DEF ChainInv
<1>2. CASE StartOpen(t)
  <2>1. /\ file(t) \in Files /\ at[t] = "open_file_object"
        /\ chain' = [chain EXCEPT ![t] = <<file(t)>>]
        /\ lock' = [lock EXCEPT ![file(t)] = t]
        /\ at'[t] = "get_size" /\ UNCHANGED call
    BY <1>0, <1>2, FileOfCall DEF StartOpen, Refers, Grab, Goto
  <2>2. chain'[t] = <<file(t)>> /\ lock'[file(t)] = t /\ file(t)' = file(t)
    BY <1>0, <2>1 DEF file
  <2>3. Len(<<file(t)>>) = 1 /\ <<file(t)>>[1] = file(t) /\ <<file(t)>> # <<>>
    OBVIOUS
  <2> QED
    BY <2>1, <2>2, <2>3 DEF ChainInv, IoLabels
<1>3. CASE StartRead(t)
  <2> DEFINE w == Wanted(t)
             s == chain[t]
  <2>1. /\ w \in Files /\ lock[w] = NoThread /\ lock' = [lock EXCEPT ![w] = t]
        /\ chain' = [chain EXCEPT ![t] = Append(s, w)]
        /\ UNCHANGED <<call, library>> /\ call[t].operation = "read"
    BY <1>0, <1>3, WantedType DEF StartRead, Grab, CallInv
  <2>2. /\ chain'[t] = Append(s, w)
        /\ Len(Append(s, w)) = Len(s) + 1 /\ Len(s) \in Nat
        /\ \A i \in 1..Len(s) : Append(s, w)[i] = s[i]
        /\ Append(s, w)[Len(s) + 1] = w
    BY <1>0, <2>1, AppendProperties, LenProperties
  <2>3. \A i \in 1..Len(s) : s[i] \in Files /\ lock[s[i]] = t /\ s[i] # w
    BY <1>0, <2>1, ElementOfSeq, NoThreadIsNone DEF ChainInv
  <2>4. \A i \in 1..(Len(s) + 1) : i \in 1..Len(s) \/ i = Len(s) + 1
    BY <2>2
  <2>5. \A i \in 1..Len(chain'[t]) : lock'[chain'[t][i]] = t
    BY <1>0, <2>1, <2>2, <2>3, <2>4
  <2>6. \A i, j \in 1..Len(chain'[t]) : chain'[t][i] = chain'[t][j] => i = j
    <3>1. \A i, j \in 1..Len(s) : s[i] = s[j] => i = j
      BY <1>0 DEF ChainInv
    <3> QED
      BY <2>2, <2>3, <2>4, <3>1
  <2>7. Current(t)' = w
    BY <2>2 DEF Current
  <2>8. at'[t] \in AfterGrab(library[w])
    BY <1>0, <1>3 DEF StartRead, Goto
  <2>9. /\ at'[t] \in {"io_failed", "io_done", "io_seek", "read"}
        /\ at'[t] = "read" => library[w].parent_file # NoFile
    BY <2>8 DEF AfterGrab
  <2>10. chain'[t] # <<>>
    <3>1. Len(s) + 1 # 0 /\ Len(<<>>) = 0
      BY <2>2
    <3> QED
      BY <2>2, <3>1
  <2> QED
    BY <2>1, <2>5, <2>6, <2>7, <2>9, <2>10 DEF ChainInv, IoLabels
<1>4. CASE OpenEnds(t) \/ ReadReturns(t)
  <2>1. ReleaseLast(t) /\ at[t] \in IoLabels /\ at[t] \in {"io_done", "io_failed"}
    BY <1>4 DEF OpenEnds, ReadReturns, IoLabels
  <2>2. /\ Current(t) \in Files
        /\ lock' = [lock EXCEPT ![Current(t)] = NoThread]
        /\ Len(chain'[t]) = Len(chain[t]) - 1
        /\ chain'[t] \in Seq(Files)
        /\ \A i \in 1..Len(chain'[t]) :
             /\ i \in 1..Len(chain[t])
             /\ chain'[t][i] = chain[t][i]
             /\ chain[t][i] # Current(t)
    BY <2>1, ReleaseTypes
  <2>3. /\ \A i \in 1..Len(chain'[t]) : lock'[chain'[t][i]] = t
        /\ \A i, j \in 1..Len(chain'[t]) : chain'[t][i] = chain'[t][j] => i = j
    BY <1>0, <2>2, ElementOfSeq DEF ChainInv
  <2>4. \A s \in Seq(Files) : Len(s) = 0 <=> s = <<>>
    BY EmptySeq
  <2>5. CASE OpenEnds(t)
    <3>1. chain[t] = <<file(t)>>
      BY <1>0, <2>1, <2>5 DEF OpenEnds, ChainInv
    <3>2. Len(chain'[t]) = 0
      BY <2>2, <3>1
    <3>3. at'[t] \in {"return", "on_error"}
      BY <1>0, <2>5 DEF OpenEnds, Goto
    <3> QED
      BY <2>2, <2>3, <2>4, <3>2, <3>3 DEF ChainInv, IoLabels
  <2>6. CASE ReadReturns(t) /\ Len(chain[t]) = 1
    <3>1. at'[t] = "return" /\ Len(chain'[t]) = 0
      BY <1>0, <2>2, <2>6 DEF ReadReturns, Goto
    <3> QED
      BY <2>2, <2>3, <2>4, <3>1 DEF ChainInv, IoLabels
  <2>7. CASE ReadReturns(t) /\ Len(chain[t]) # 1
    <3>1. at'[t] = at[t] /\ call'[t] = call[t] /\ call[t].operation = "read"
      BY <1>0, <2>7 DEF ReadReturns, Goto
    <3>2. Len(chain'[t]) # 0
      <4>1. Len(chain[t]) \in Nat
        BY <1>0, LenProperties
      <4> QED
        BY <2>2, <2>7, <4>1
    <3> QED
      BY <2>1, <2>2, <2>3, <2>4, <3>1, <3>2 DEF ChainInv, IoLabels
  <2> QED
    BY <1>4, <2>5, <2>6, <2>7
<1>5. CASE GetSize(t) \/ Seek(t) \/ Read(t)
  <2>1. /\ UNCHANGED <<chain, lock, call>>
        /\ at[t] \in {"get_size"} \cup IoLabels /\ at'[t] \in IoLabels
    BY <1>0, <1>5 DEF GetSize, Seek, Read, Goto, threadVars, IoLabels
  <2>2. file(t)' = file(t)
    BY <2>1 DEF file
  <2> QED
    BY <1>0, <2>1, <2>2 DEF ChainInv, IoLabels
<1>6. CASE \/ Enter(t) \/ AllowThreads(t) \/ Leave(t) \/ OpenFileObject(t)
           \/ OnError(t) \/ AlreadyOpen(t) \/ Open(t)
  <2>1. UNCHANGED <<chain, lock>>
    BY <1>6 DEF Enter, AllowThreads, Leave, OpenFileObject, OnError, AlreadyOpen,
       Open, threadVars
  <2>2. at[t] \notin {"read", "get_size"} \cup IoLabels
    BY <1>6 DEF Enter, AllowThreads, Leave, OpenFileObject, OnError, AlreadyOpen,
       Open, IoLabels
  <2>3. at'[t] \notin {"get_size"} \cup IoLabels
    <3>1. CASE AllowThreads(t)
      <4>1. call[t].operation \in Operations
        BY DEF IInv, TypeThreads, ThreadCall
      <4>2. at'[t] = call[t].operation
        BY <1>0, <3>1 DEF AllowThreads, Goto
      <4> QED
        BY <4>1, <4>2 DEF Operations, FieldCalls, Drops, IoLabels
    <3>2. CASE Enter(t) \/ Leave(t) \/ OpenFileObject(t) \/ OnError(t)
               \/ AlreadyOpen(t) \/ Open(t)
      BY <1>0, <3>2 DEF Enter, Leave, OpenFileObject, OnError, AlreadyOpen, Open,
         Goto, IoLabels
    <3> QED
      BY <1>6, <3>1, <3>2
  <2> QED
    BY <1>0, <1>1, <2>1, <2>2, <2>3 DEF ChainInv
<1>7. CASE Looking(t)
  <2>1. UNCHANGED <<chain, lock>> /\ at'[t] \in {"return", "filename_size", "backing_filename"}
    BY <1>0, <1>7, LookingMoves DEF Moves, threadVars, Goto
  <2>2. at[t] \notin {"read", "get_size"} \cup IoLabels
    BY <1>7, LookingMoves
  <2> QED
    BY <1>0, <1>1, <2>1, <2>2 DEF ChainInv, IoLabels
<1>8. CASE \/ Close(t) \/ Closed(t) \/ FreeHandle(t) \/ SetParent(t)
           \/ ParentIsSet(t) \/ FreeLibrary(t) \/ FreeParent(t)
  <2>1. UNCHANGED <<chain, lock>>
    BY <1>8 DEF Close, Closed, FreeHandle, SetParent, ParentIsSet, FreeLibrary,
       FreeParent, threadVars
  <2>2. at[t] \notin {"read", "get_size"} \cup IoLabels
    BY <1>8 DEF Close, Closed, FreeHandle, SetParent, ParentIsSet, FreeLibrary,
       FreeParent, IoLabels
  <2>3. at'[t] \notin {"get_size"} \cup IoLabels
    BY <1>0, <1>8 DEF Close, Closed, FreeHandle, SetParent, ParentIsSet,
       FreeLibrary, FreeParent, Goto, IoLabels
  <2> QED
    BY <1>0, <1>1, <2>1, <2>2, <2>3 DEF ChainInv
<1> QED
  BY <1>2, <1>3, <1>4, <1>5, <1>6, <1>7, <1>8 DEF Steps

-----------------------------------------------------------------------------
(* Handles.                                                                *)

(* Whoever opens a file with an object, or closes it, is the thread that   *)
(* opens and closes it.                                                     *)
LEMMA SameOwner ==
  ASSUME IInv, NEW t \in Threads, NEW u \in Threads, Refers(t), Refers(u),
         file(t) = file(u), call[t].operation \in OwningCalls,
         call[u].operation \in OwningCalls
  PROVE  t = u
<1>1. call[t] \in CallsOf(t) /\ call[u] \in CallsOf(u)
  BY DEF IInv, CallInv
<1> QED
  BY <1>1, OwnersAlone DEF file

LEMMA StepHandles ==
  ASSUME IInv, NEW t \in Threads, Steps(t)
  PROVE  HandleInv'
<1>0. /\ HandleInv /\ handles \in [Handles -> BfioHandle]
      /\ file_io_handle \in [Files -> Handles \cup {NoHandle}]
      /\ library \in [Files -> LibraryFile]
  BY DEF IInv, TypeFiles
<1>1. CASE UNCHANGED <<file_io_handle, handles>>
  <2>1. \A f \in Files : library'[f].file_io_handle # NoHandle =>
          library'[f].file_io_handle = file_io_handle[f]
    BY <1>0, LibraryKept DEF HandleInv
  <2> QED
    BY <1>0, <1>1, <2>1 DEF HandleInv
<1>2. ASSUME NEW h \in FreeHandles, OpenFileObject(t), at[t] = "entered",
             call[t].operation = "open_file_object",
             file_io_handle[file(t)] = NoHandle,
             file_io_handle' = [file_io_handle EXCEPT ![file(t)] = h],
             handles' = [handles EXCEPT ![h] =
                           [state |-> "live", object |-> call[t].object]]
      PROVE  HandleInv'
  <2>1. /\ file(t) \in Files /\ call[t].object \in Objects
        /\ call[t].object \in ObjectsOf(file(t))
    BY <1>2, FileOfCall DEF Refers
  <2>2. /\ h \in Handles /\ handles[h].state # "live"
        /\ \A f \in Files : file_io_handle[f] # h /\ library[f].file_io_handle # h
    BY DEF FreeHandles, Pointers
  <2>3. /\ \A g \in Handles \ {h} : handles'[g] = handles[g]
        /\ handles'[h].state = "live" /\ handles'[h].object = call[t].object
        /\ \A f \in Files \ {file(t)} : file_io_handle'[f] = file_io_handle[f]
        /\ file_io_handle'[file(t)] = h
    BY <1>0, <1>2, <2>1, <2>2
  <2>4. library' = library
    BY <1>2 DEF OpenFileObject
  <2>5. \A f \in Files : library[f].file_io_handle # NoHandle => f # file(t)
    BY <1>0, <1>2 DEF HandleInv
  <2>6. /\ \A g \in Handles : /\ handles'[g].state # "freed_twice"
                              /\ handles'[g].state = "live" => handles'[g].object \in Objects
        /\ \A f \in Files : file_io_handle'[f] # NoHandle =>
             /\ handles'[file_io_handle'[f]].state = "live"
             /\ handles'[file_io_handle'[f]].object \in ObjectsOf(f)
    BY <1>0, <2>1, <2>2, <2>3 DEF HandleInv
  <2>7. /\ \A f, g \in Files :
             file_io_handle'[f] = file_io_handle'[g] /\ file_io_handle'[f] # NoHandle => f = g
        /\ \A f \in Files : library'[f].file_io_handle # NoHandle =>
             library'[f].file_io_handle = file_io_handle'[f]
    BY <1>0, <2>2, <2>3, <2>4, <2>5 DEF HandleInv
  <2> QED
    BY <2>6, <2>7 DEF HandleInv
<1>3. ASSUME NEW g \in Files, GivesUp(g), library'[g].file_io_handle = NoHandle,
             ~OpenEnds(t)
      PROVE  HandleInv'
  <2>1. \A f \in Files : library'[f].file_io_handle # NoHandle =>
          library'[f].file_io_handle = library[f].file_io_handle /\ f # g
    BY <1>3, LibraryKept
  <2>2. \A f \in Files : library'[f].file_io_handle # NoHandle =>
          library'[f].file_io_handle = file_io_handle'[f]
    BY <1>0, <1>3, <2>1 DEF HandleInv, GivesUp
  <2>3. /\ file_io_handle'[g] = NoHandle
        /\ \A f \in Files \ {g} : file_io_handle'[f] = file_io_handle[f]
        /\ \A h \in Handles \ {file_io_handle[g]} : handles'[h] = handles[h]
        /\ file_io_handle[g] # NoHandle => handles'[file_io_handle[g]].state = "freed"
    BY <1>3 DEF GivesUp
  <2>4. \A f \in Files : file_io_handle'[f] # NoHandle =>
          /\ f # g /\ file_io_handle'[f] = file_io_handle[f]
          /\ file_io_handle[f] \in Handles \ {file_io_handle[g]}
    BY <1>0, <2>3 DEF HandleInv
  <2>5. \A h \in Handles : /\ handles'[h].state # "freed_twice"
                           /\ handles'[h].state = "live" => handles'[h].object \in Objects
    <3>1. NoHandle \notin Handles
      BY PyqcowConstants
    <3> QED
      BY <1>0, <2>3, <3>1 DEF HandleInv
  <2>6. /\ \A f \in Files : file_io_handle'[f] # NoHandle =>
             /\ handles'[file_io_handle'[f]].state = "live"
             /\ handles'[file_io_handle'[f]].object \in ObjectsOf(f)
        /\ \A f, e \in Files :
             file_io_handle'[f] = file_io_handle'[e] /\ file_io_handle'[f] # NoHandle => f = e
    BY <1>0, <2>3, <2>4 DEF HandleInv
  <2> QED
    BY <2>2, <2>5, <2>6 DEF HandleInv
<1>4. CASE OnError(t) \/ FreeHandle(t)
  <2>1. /\ file(t) \in Files /\ library' = library
        /\ at[t] \notin IoLabels
    BY <1>4, FileOfCall DEF OnError, FreeHandle, Refers, IoLabels
  <2>2. ~OpenEnds(t)
    BY <2>1 DEF OpenEnds, IoLabels
  <2>3. ASSUME GivesUp(file(t)), library[file(t)].file_io_handle = NoHandle
        PROVE  HandleInv'
    BY <1>3, <2>1, <2>2, <2>3
  <2>4. ~OpenFileObject(t) /\ ~FreeLibrary(t)
    BY <1>4 DEF OnError, FreeHandle, OpenFileObject, FreeLibrary
  <2> QED
    BY <1>1, <2>3, <2>4, HandleSteps
<1>5. CASE FreeLibrary(t)
  <2>1. ~OpenEnds(t) /\ ~OpenFileObject(t) /\ ~OnError(t) /\ ~FreeHandle(t)
    BY <1>5 DEF FreeLibrary, OpenEnds, OpenFileObject, OnError, FreeHandle
  <2> QED
    BY <1>1, <1>3, <2>1, HandleSteps
<1> QED
  BY <1>1, <1>2, <1>4, <1>5, HandleSteps

LEMMA OtherHandles ==
  ASSUME IInv, NEW t \in Threads, Steps(t), NEW u \in Threads, u # t, OpenInv(u)
  PROVE  OpenInv(u)'
<1> DEFINE f == file(u)
           o == call[u].operation
           In == \/ at[u] \in {"open_file_object", "on_error", "get_size"}
                 \/ at[u] \in IoLabels /\ o = "open_file_object"
<1>1. /\ at'[u] = at[u] /\ call'[u] = call[u] /\ chain'[u] = chain[u]
      /\ chain[u] \in Seq(Files) /\ TypeThreads /\ CallInv(u) /\ ChainInv(u)
  BY OthersStay DEF IInv, TypeThreads
<1>2. f' = f /\ Current(u)' = Current(u)
  BY <1>1 DEF Current, file
<1>3. ASSUME o \in {"open_file_object", "close"}, Refers(u), at[u] # "return"
      PROVE  /\ f \in Files
             /\ ~(OpenFileObject(t) /\ f = file(t))
             /\ ~((OnError(t) \/ FreeHandle(t)) /\ f = file(t))
             /\ ~(OpenEnds(t) /\ f = file(t))
             /\ \A g \in dying[t] : g # f
  <2>1. f \in Files /\ \A g \in dying[t] : g # f
    BY <1>3, FileOfCall
  <2>2. OpenFileObject(t) \/ OnError(t) \/ FreeHandle(t) \/ OpenEnds(t) =>
          Refers(t) /\ call[t].operation \in {"open_file_object", "close"}
    BY DEF OpenFileObject, OnError, FreeHandle, OpenEnds, Refers, IInv, CallInv
  <2> QED
    BY <1>3, <2>1, <2>2, SameOwner DEF OwningCalls
<1>4. ASSUME o \in {"open_file_object", "close"}, Refers(u), at[u] # "return"
      PROVE  /\ file_io_handle'[f] = file_io_handle[f]
             /\ library[f].file_io_handle = NoHandle => library'[f].file_io_handle = NoHandle
  <2>1. file_io_handle'[f] = file_io_handle[f]
    <3>1. CASE UNCHANGED <<file_io_handle, handles>>
      BY <3>1
    <3>2. CASE OpenFileObject(t) /\ \E h \in FreeHandles :
                 file_io_handle' = [file_io_handle EXCEPT ![file(t)] = h]
      BY <1>3, <1>4, <3>2 DEF IInv, TypeFiles
    <3>3. CASE (OnError(t) \/ FreeHandle(t)) /\ GivesUp(file(t))
      BY <1>3, <1>4, <3>3 DEF GivesUp
    <3>4. CASE \E g \in dying[t] : g \in Files /\ GivesUp(g)
      BY <1>3, <1>4, <3>4 DEF GivesUp
    <3> QED
      BY <3>1, <3>2, <3>3, <3>4, HandleSteps
  <2>2. library[f].file_io_handle = NoHandle => library'[f].file_io_handle = NoHandle
    BY <1>3, <1>4, LibraryKept
  <2> QED
    BY <2>1, <2>2
<1>5. at[u] = "entered" /\ o = "open_file_object" => file_io_handle'[f] = NoHandle
  BY <1>4 DEF OpenInv, Refers
<1>6. In => file_io_handle'[f] # NoHandle /\ library'[f].file_io_handle = NoHandle
  <2>1. In => o = "open_file_object" /\ Refers(u) /\ at[u] # "return"
    BY <1>1 DEF CallInv, Refers, IoLabels
  <2> QED
    BY <1>4, <2>1 DEF OpenInv
<1>7. at[u] \in {"closed", "free_handle"} => library'[f].file_io_handle = NoHandle
  <2>1. at[u] \in {"closed", "free_handle"} => o = "close" /\ Refers(u) /\ at[u] # "return"
    BY <1>1 DEF CallInv, Refers
  <2> QED
    BY <1>4, <2>1 DEF OpenInv
<1>8. at[u] \in {"io_seek", "io_read"} /\ o = "read" =>
        library'[Current(u)].file_io_handle # NoHandle
  <2>1. ASSUME at[u] \in {"io_seek", "io_read"}, o = "read"
        PROVE  library'[Current(u)].file_io_handle # NoHandle
    <3>1. Current(u) \in Files /\ lock[Current(u)] = u
      BY <2>1, UsedHandleType
    <3>2. library'[Current(u)] = library[Current(u)]
      BY <3>1, LibraryKept, NoThreadIsNone
    <3> QED
      BY <2>1, <3>2 DEF OpenInv
  <2> QED
    BY <2>1
<1> QED
  BY <1>1, <1>2, <1>5, <1>6, <1>7, <1>8 DEF OpenInv

LEMMA OwnHandles ==
  ASSUME IInv, ~Reopens, NEW t \in Threads, Steps(t), OpenInv(t)
  PROVE  OpenInv(t)'
<1>0. /\ CallInv(t) /\ HandleInv /\ at \in [Threads -> Labels]
      /\ call \in [Threads -> ThreadCall] /\ chain \in [Threads -> Seq(Files)]
      /\ file_io_handle \in [Files -> Handles \cup {NoHandle}]
      /\ library \in [Files -> LibraryFile]
  BY DEF IInv, TypeThreads, TypeFiles
<1>1. CASE Enter(t)
  <2>1. PICK c : /\ call' = [call EXCEPT ![t] = c]
                 /\ c.operation = "open_file_object" => file_io_handle[c.file] = NoHandle
    BY <1>1 DEF Enter
  <2>2. at'[t] \in {"return", "entered"} /\ UNCHANGED file_io_handle /\ call'[t] = c
    BY <1>0, <1>1, <2>1 DEF Enter, Goto
  <2> QED
    BY <2>1, <2>2 DEF OpenInv, IoLabels, file
<1>2. CASE AllowThreads(t)
  <2>1. /\ at'[t] = call[t].operation /\ call[t].operation \in Operations
        /\ call[t].operation # "open_file_object"
    BY <1>0, <1>2 DEF AllowThreads, Goto, ThreadCall
  <2> QED
    BY <2>1 DEF OpenInv, IoLabels, Operations, FieldCalls, Drops
<1>3. CASE \/ Leave(t) \/ OnError(t) \/ Open(t) \/ FreeHandle(t)
           \/ SetParent(t) \/ ParentIsSet(t) \/ FreeLibrary(t) \/ FreeParent(t)
  <2>1. at'[t] \in {"return", "idle", "free_library", "parent_set", "freed"}
    BY <1>0, <1>3 DEF Leave, OnError, Open, FreeHandle, SetParent, ParentIsSet,
       FreeLibrary, FreeParent, Goto
  <2> QED
    BY <2>1 DEF OpenInv, IoLabels
<1>4. CASE Looking(t)
  <2>1. at'[t] \in {"return", "filename_size", "backing_filename"}
    BY <1>0, <1>4, LookingMoves DEF Moves, Goto
  <2> QED
    BY <2>1 DEF OpenInv, IoLabels
<1>5. CASE OpenFileObject(t)
  <2>1. /\ file(t) \in Files /\ call[t].operation = "open_file_object"
        /\ file_io_handle[file(t)] = NoHandle
        /\ UNCHANGED <<call, library>>
    BY <1>5, FileOfCall DEF OpenFileObject, Refers, OpenInv, threadVars
  <2>2. PICK h \in FreeHandles : file_io_handle' = [file_io_handle EXCEPT ![file(t)] = h]
    BY <1>5, <2>1 DEF OpenFileObject
  <2>3. file_io_handle'[file(t)] # NoHandle
    BY <1>0, <2>1, <2>2, PyqcowConstants DEF FreeHandles
  <2>4. library'[file(t)].file_io_handle = NoHandle
    BY <1>0, <2>1 DEF HandleInv
  <2>5. at'[t] = "open_file_object" /\ file(t)' = file(t)
    BY <1>0, <1>5, <2>1 DEF OpenFileObject, Goto, file
  <2> QED
    BY <2>3, <2>4, <2>5 DEF OpenInv, IoLabels
<1>6. CASE AlreadyOpen(t) \/ StartOpen(t) \/ OpenEnds(t)
  <2>1. /\ UNCHANGED <<call, file_io_handle>>
        /\ at'[t] \in {"on_error", "get_size", "return"}
        /\ at'[t] # "return" => UNCHANGED library
        /\ at[t] = "open_file_object" \/
             (at[t] \in IoLabels /\ call[t].operation = "open_file_object")
    BY <1>0, <1>6 DEF AlreadyOpen, StartOpen, OpenEnds, Goto, pythonVars, threadVars,
       IoLabels
  <2>2. file(t)' = file(t)
    BY <2>1 DEF file
  <2>3. file_io_handle[file(t)] # NoHandle /\ library[file(t)].file_io_handle = NoHandle
    BY <2>1 DEF OpenInv
  <2> QED
    BY <2>1, <2>2, <2>3 DEF OpenInv, IoLabels
<1>7. CASE GetSize(t)
  <2>1. /\ UNCHANGED <<call, file_io_handle>> /\ at'[t] \in {"io_failed", "io_seek"}
        /\ call[t].operation = "open_file_object"
        /\ \E s : library' = [library EXCEPT ![file(t)].size = s]
    BY <1>0, <1>7 DEF GetSize, Goto, pythonVars, threadVars, CallInv
  <2>2. file(t)' = file(t) /\ file(t) \in Files
    BY <1>7, <2>1, FileOfCall DEF file, GetSize, Refers
  <2>3. file_io_handle[file(t)] # NoHandle /\ library[file(t)].file_io_handle = NoHandle
    BY <1>7 DEF OpenInv, GetSize
  <2>4. library'[file(t)].file_io_handle = library[file(t)].file_io_handle
    BY <1>0, <2>1, <2>2 DEF LibraryFile
  <2> QED
    BY <2>1, <2>2, <2>3, <2>4 DEF OpenInv, IoLabels
<1>8. CASE Seek(t) \/ Read(t)
  <2>1. /\ UNCHANGED <<call, file_io_handle, library, chain>>
        /\ at[t] \in {"io_seek", "io_read"} /\ at'[t] \in IoLabels
        /\ at'[t] \in {"io_seek", "io_read"} => at[t] = "io_seek"
    BY <1>0, <1>8 DEF Seek, Read, Goto, pythonVars, threadVars, IoLabels
  <2>2. file(t)' = file(t) /\ Current(t)' = Current(t)
    BY <2>1 DEF file, Current
  <2> QED
    BY <2>1, <2>2 DEF OpenInv, IoLabels
<1>9. CASE StartRead(t)
  <2>1. /\ Wanted(t) \in Files /\ call[t].operation = "read"
        /\ UNCHANGED <<call, library>>
        /\ chain' = [chain EXCEPT ![t] = Append(@, Wanted(t))]
        /\ at'[t] \in AfterGrab(library[Wanted(t)])
    BY <1>0, <1>9, WantedType DEF StartRead, CallInv, Goto
  <2>2. chain'[t] = Append(chain[t], Wanted(t))
    BY <1>0, <2>1
  <2>3. Current(t)' = Wanted(t)
    BY <1>0, <2>1, <2>2, AppendProperties DEF Current
  <2>4. /\ at'[t] \in {"io_failed", "io_done", "io_seek", "read"}
        /\ at'[t] = "io_seek" => library[Wanted(t)].file_io_handle # NoHandle
    BY <2>1 DEF AfterGrab
  <2> QED
    BY <2>1, <2>3, <2>4 DEF OpenInv, IoLabels
<1>10. CASE ReadReturns(t)
  <2>1. /\ call[t].operation = "read" /\ UNCHANGED call
        /\ at'[t] \in {"return", "io_done", "io_failed"}
    BY <1>0, <1>10 DEF ReadReturns, Goto
  <2> QED
    BY <2>1 DEF OpenInv, IoLabels
<1>11. CASE Close(t)
  <2>1. /\ file(t) \in Files /\ UNCHANGED call
        /\ \/ at'[t] = "return"
           \/ at'[t] = "closed" /\ library' = ClosedLibrary(file(t))
    BY <1>0, <1>11, FileOfCall DEF Close, Refers, Goto, threadVars
  <2>2. file(t)' = file(t)
    BY <2>1 DEF file
  <2>3. at'[t] = "closed" => library'[file(t)].file_io_handle = NoHandle
    BY <1>0, <2>1 DEF ClosedLibrary, LibraryFile
  <2> QED
    BY <2>1, <2>2, <2>3 DEF OpenInv, IoLabels
<1>12. CASE Closed(t)
  <2>1. /\ UNCHANGED <<call, library>> /\ at'[t] \in {"free_handle", "return"}
        /\ at[t] = "closed"
    BY <1>0, <1>12 DEF Closed, Goto, threadVars
  <2>2. file(t)' = file(t)
    BY <2>1 DEF file
  <2> QED
    BY <2>1, <2>2 DEF OpenInv, IoLabels
<1> QED
  BY <1>1, <1>2, <1>3, <1>4, <1>5, <1>6, <1>7, <1>8, <1>9, <1>10, <1>11, <1>12
     DEF Steps

-----------------------------------------------------------------------------
(* What is freed.                                                          *)

(* Nobody refers again to what has no reference left. *)
LEMMA ZeroStays ==
  ASSUME IInv, NEW t \in Threads, Steps(t), CountInv', NEW f \in Files,
         references[f] = 0
  PROVE  references'[f] = 0
<1>0. /\ CountInv /\ f \in Files \cup Objects
      /\ references \in [Files \cup Objects -> Nat]
      /\ references'[f] \in Nat
  <2>1. CountInv
    BY DEF IInv
  <2>2. references \in [Files \cup Objects -> Nat]
    BY <2>1, ReferencesType
  <2>3. /\ Cardinality(Callers(f))' \in Nat /\ Cardinality(Children(f))' \in Nat
        /\ Cardinality(ReadBy(f))' \in Nat /\ Variables(f)' \in Nat
    <3>1. /\ IsFiniteSet(Callers(f)') /\ IsFiniteSet(Children(f)')
          /\ IsFiniteSet(ReadBy(f)')
      BY PyqcowConstants, FS_Subset DEF Callers, Children, ReadBy
    <3> QED
      BY <3>1, FS_CardinalityType DEF Variables
  <2>4. references'[f] = Count(f)'
    BY DEF CountInv
  <2>5. references'[f] \in Nat
    BY <2>3, <2>4 DEF Count
  <2> QED
    BY <2>1, <2>2, <2>5
<1>1. ASSUME NEW S, references' = More(references, S), f \notin S
      PROVE  references'[f] = 0
  BY <1>0, <1>1 DEF More
<1>2. ASSUME NEW S, references' = Less(references, S)
      PROVE  references'[f] = 0
  <2>1. references'[f] = IF f \in S THEN references[f] - 1 ELSE references[f]
    BY <1>0, <1>2 DEF Less
  <2> QED
    BY <1>0, <2>1
<1>3. CASE UNCHANGED references
  BY <1>3
<1>4. CASE Enter(t)
  <2>1. f \notin held
    BY <1>0, CountedWhenReferred
  <2> QED
    BY <1>1, <1>4, <2>1 DEF Enter
<1>5. CASE Leave(t) \/ FreeParent(t)
  <2>1. \E S : references' = Less(references, S)
    BY <1>5 DEF Leave, FreeParent
  <2> QED
    BY <1>2, <2>1
<1>6. CASE \E g : FreeHandleOf(g)
  BY <1>2, <1>6 DEF FreeHandleOf
<1>7. CASE OpenFileObject(t)
  <2>1. call[t].object \in Objects
    BY <1>7, FileOfCall DEF OpenFileObject, Refers
  <2>2. f \notin {call[t].object}
    BY <2>1, PyqcowConstants
  <2> QED
    BY <1>1, <1>6, <1>7, <2>2 DEF OpenFileObject, Refer
<1>8. CASE ParentIsSet(t)
  <2>1. references[call[t].parent] # 0
    BY <1>8, FileOfCall DEF ParentIsSet, Refers, IInv, CallInv
  <2> QED
    BY <1>1, <1>8, <2>1 DEF ParentIsSet, Refer
<1>9. CASE OnError(t) \/ FreeHandle(t) \/ FreeLibrary(t)
  BY <1>6, <1>9 DEF OnError, FreeHandle, FreeLibrary
<1>10. CASE \/ AllowThreads(t) \/ AlreadyOpen(t) \/ StartOpen(t) \/ GetSize(t)
            \/ Open(t) \/ OpenEnds(t) \/ StartRead(t) \/ Seek(t) \/ Read(t)
            \/ ReadReturns(t) \/ Close(t) \/ Closed(t) \/ SetParent(t)
  BY <1>10 DEF AllowThreads, AlreadyOpen, StartOpen, GetSize, Open, OpenEnds,
     StartRead, Seek, Read, ReadReturns, Close, Closed, SetParent, pythonVars
<1>11. CASE Looking(t)
  BY <1>11, LookingMoves DEF Moves, pythonVars
<1> QED
  BY <1>4, <1>5, <1>7, <1>8, <1>9, <1>10, <1>11 DEF Steps

LEMMA StepFrees ==
  ASSUME IInv, NEW t \in Threads, Steps(t), CountInv', TypeThreads'
  PROVE  FreeInv'
<1>0. /\ FreeInv /\ TypeThreads
  BY DEF IInv
<1>1. ASSUME NEW f \in Files, library'[f].state = "freed"
      PROVE  references'[f] = 0
  <2>1. references[f] = 0
    <3>1. CASE library[f].state = "freed"
      BY <1>0, <3>1 DEF FreeInv
    <3>2. CASE library[f].state # "freed"
      <4>1. PICK g \in Files : LibraryStep(t, g)
        BY <1>1, <3>2, LibrarySteps
      <4>2. f = g
        BY <1>1, <3>2, <4>1 DEF LibraryStep
      <4>3. f \in dying[t]
        BY <1>1, <3>2, <4>1, <4>2 DEF LibraryStep, SameFile
      <4> QED
        BY <1>0, <4>3 DEF FreeInv
    <3> QED
      BY <3>1, <3>2
  <2> QED
    BY <2>1, ZeroStays
<1>2. ASSUME NEW u \in Threads, NEW f \in dying'[u]
      PROVE  references'[f] = 0
  <2>1. f \in Files
    BY DEF TypeThreads
  <2>2. CASE f \in dying[u]
    BY <1>0, <2>1, <2>2, ZeroStays DEF FreeInv
  <2>3. CASE f \notin dying[u]
    <3>1. u = t
      BY <1>0, <2>3, OthersStay
    <3>2. Leave(t) \/ FreeParent(t)
      <4>1. CASE FreeLibrary(t) \/ Enter(t)
        BY <2>3, <3>1, <4>1 DEF FreeLibrary, Enter
      <4>2. CASE ~(Leave(t) \/ FreeParent(t) \/ FreeLibrary(t) \/ Enter(t))
        BY <2>3, <3>1, <4>2, CallGoesOn DEF Steps
      <4> QED
        BY <4>1, <4>2
    <3>3. CASE Leave(t)
      <4>1. f \in Unreferenced(references', Arguments(call[t]))
        BY <1>0, <3>1, <3>3 DEF Leave, TypeThreads
      <4> QED
        BY <4>1 DEF Unreferenced
    <3>4. CASE FreeParent(t)
      <4>1. f \in (dying[t] \ {file(t)})
                    \cup Unreferenced(references', {parent_file_object[file(t)]} \ {NoFile})
        BY <1>0, <3>1, <3>4 DEF FreeParent, TypeThreads
      <4> QED
        BY <2>3, <3>1, <4>1 DEF Unreferenced
    <3> QED
      BY <3>2, <3>3, <3>4
  <2> QED
    BY <2>2, <2>3
<1>3. ASSUME NEW u \in Threads, at'[u] = "freed"
      PROVE  file(u)' \in Files /\ library'[file(u)'].state = "freed"
  <2>1. CASE u # t
    <3>1. at[u] = "freed" /\ file(u)' = file(u)
      BY <1>0, <1>3, <2>1, OthersStay DEF file
    <3>2. file(u) \in Files /\ library[file(u)].state = "freed"
      BY <1>0, <3>1 DEF FreeInv
    <3> QED
      BY <3>1, <3>2, LibraryKept
  <2>2. CASE u = t
    <3>1. FreeLibrary(t)
      <4>1. CASE Enter(t) \/ Leave(t) \/ FreeParent(t)
        BY <1>0, <1>3, <2>2, <4>1 DEF Enter, Leave, FreeParent, Goto, TypeThreads
      <4>2. CASE ~(Leave(t) \/ FreeParent(t) \/ FreeLibrary(t) \/ Enter(t))
        BY <1>3, <2>2, <4>2, CallGoesOn DEF Steps, Refers
      <4> QED
        BY <4>1, <4>2
    <3>2. PICK f \in dying[t] :
            /\ library' = [library EXCEPT ![f].state = "freed",
                                          ![f].file_io_handle = NoHandle]
            /\ call' = [call EXCEPT ![t] = [NoCall EXCEPT !.file = f]]
      BY <3>1 DEF FreeLibrary
    <3>3. f \in Files /\ call'[t].file = f
      BY <1>0, <3>2 DEF TypeThreads, NoCall
    <3>4. library'[f].state = "freed"
      BY <3>2, <3>3 DEF IInv, TypeFiles, LibraryFile
    <3> QED
      BY <2>2, <3>3, <3>4 DEF file
  <2> QED
    BY <2>1, <2>2
<1> QED
  BY <1>1, <1>2, <1>3 DEF FreeInv

-----------------------------------------------------------------------------
(* Parents.                                                                *)

LEMMA ParentSteps ==
  ASSUME NEW t \in Threads, Steps(t)
  PROVE  \/ UNCHANGED parent_file_object
         \/ /\ ParentIsSet(t) /\ at[t] = "parent_set"
            /\ parent_file_object' = [parent_file_object EXCEPT ![file(t)] = call[t].parent]
         \/ /\ FreeParent(t) /\ at[t] = "freed"
            /\ parent_file_object' = [parent_file_object EXCEPT ![file(t)] = NoFile]
<1>1. CASE \/ Enter(t) \/ AllowThreads(t) \/ Leave(t) \/ OpenFileObject(t)
           \/ OnError(t) \/ AlreadyOpen(t) \/ StartOpen(t) \/ GetSize(t) \/ Open(t)
           \/ OpenEnds(t) \/ StartRead(t) \/ Seek(t) \/ Read(t) \/ ReadReturns(t)
  BY <1>1 DEF Enter, AllowThreads, Leave, OpenFileObject, OnError, AlreadyOpen,
     StartOpen, GetSize, Open, OpenEnds, StartRead, Seek, Read, ReadReturns,
     pythonVars
<1>2. CASE Looking(t)
  BY <1>2, LookingMoves DEF Moves, pythonVars
<1>3. CASE Close(t) \/ Closed(t) \/ FreeHandle(t) \/ SetParent(t) \/ FreeLibrary(t)
  BY <1>3 DEF Close, Closed, FreeHandle, SetParent, FreeLibrary, pythonVars
<1>4. CASE ParentIsSet(t) \/ FreeParent(t)
  BY <1>4 DEF ParentIsSet, FreeParent
<1> QED
  BY <1>1, <1>2, <1>3, <1>4 DEF Steps

(* A call is between the two halves of set_parent from the one step to the  *)
(* other.                                                                   *)
LEMMA SettingSteps ==
  ASSUME IInv, NEW t \in Threads, Steps(t)
  PROVE  /\ at[t] = "parent_set" => ParentIsSet(t)
         /\ at'[t] = "parent_set" =>
              /\ TakesParent(file(t)) /\ UNCHANGED <<call, parent_file_object>>
              /\ library' = [library EXCEPT ![file(t)].parent_file = call[t].parent]
<1>0. at \in [Threads -> Labels] /\ call \in [Threads -> ThreadCall]
  BY DEF IInv, TypeThreads
<1>1. CASE Looking(t)
  BY <1>0, <1>1, LookingMoves DEF Moves, Goto
<1>2. CASE AllowThreads(t)
  <2>1. at[t] = "entered" /\ at'[t] = call[t].operation /\ call[t].operation \in Operations
    BY <1>0, <1>2 DEF AllowThreads, Goto, ThreadCall
  <2> QED
    BY <2>1 DEF Operations, FieldCalls, Drops
<1>3. CASE StartRead(t)
  BY <1>0, <1>3 DEF StartRead, Goto, AfterGrab
<1>4. CASE \/ Enter(t) \/ Leave(t) \/ OpenFileObject(t) \/ OnError(t)
           \/ AlreadyOpen(t) \/ StartOpen(t) \/ GetSize(t) \/ Open(t) \/ OpenEnds(t)
  BY <1>0, <1>4 DEF Enter, Leave, OpenFileObject, OnError, AlreadyOpen, StartOpen,
     GetSize, Open, OpenEnds, Goto
<1>5. CASE \/ Seek(t) \/ Read(t) \/ ReadReturns(t) \/ Close(t) \/ Closed(t)
           \/ FreeHandle(t) \/ ParentIsSet(t) \/ FreeLibrary(t) \/ FreeParent(t)
  BY <1>0, <1>5 DEF Seek, Read, ReadReturns, Close, Closed, FreeHandle, ParentIsSet,
     FreeLibrary, FreeParent, Goto
<1>6. CASE SetParent(t)
  BY <1>0, <1>6 DEF SetParent, Goto, threadVars, pythonVars
<1> QED
  BY <1>1, <1>2, <1>3, <1>4, <1>5, <1>6 DEF Steps

LEMMA StepParents ==
  ASSUME IInv, NEW t \in Threads, Steps(t)
  PROVE  ParentInv'
<1>0. /\ ParentInv /\ FreeInv /\ TypeThreads
      /\ parent_file_object \in [Files -> Files \cup {NoFile}]
      /\ library \in [Files -> LibraryFile]
  BY DEF IInv, TypeFiles
<1>1. ASSUME NEW u \in Threads, NEW f \in Files, SettingParent(u, f)
      PROVE  /\ Refers(u) /\ at[u] # "return" /\ call[u].operation = "set_parent"
             /\ call[u].parent \in Files /\ call[u].parent # NoFile
             /\ file(u) = f /\ parent_file_object[f] = NoFile
             /\ library[f].parent_file = call[u].parent
  <2>1. at[u] = "parent_set" /\ file(u) = f
    BY <1>1 DEF SettingParent
  <2>2. /\ Refers(u) /\ at[u] # "return" /\ call[u].operation = "set_parent"
    BY <2>1 DEF Refers, IInv, CallInv
  <2>3. call[u].parent \in Files
    BY <2>2, FileOfCall
  <2> QED
    BY <1>0, <1>1, <2>1, <2>2, <2>3, PyqcowConstants DEF ParentInv
<1>2. at[t] = "parent_set" => SettingParent(t, file(t)) /\ file(t) \in Files
  BY FileOfCall DEF SettingParent, Refers
<1>3. ASSUME NEW f \in Files, library'[f].parent_file = NoFile
      PROVE  parent_file_object'[f] = NoFile
  <2>1. library[f].parent_file = NoFile
    BY <1>3, LibraryKept
  <2>2. parent_file_object[f] = NoFile
    BY <1>0, <2>1 DEF ParentInv
  <2>3. ~(at[t] = "parent_set" /\ file(t) = f)
    BY <1>1, <1>2, <2>1
  <2> QED
    BY <1>0, <2>2, <2>3, ParentSteps
<1>4. ASSUME NEW f \in Files, library'[f].state # "freed",
             library'[f].parent_file # NoFile
      PROVE  \/ parent_file_object'[f] = library'[f].parent_file
             \/ \E u \in Threads : /\ SettingParent(u, f)'
                                   /\ call'[u].parent = library'[f].parent_file
  <2>1. library[f].state # "freed"
    BY <1>4, LibraryKept
  <2>2. CASE library[f].parent_file = NoFile
    <3>1. PICK g \in Files : LibraryStep(t, g)
      BY <1>4, <2>2, LibrarySteps
    <3>2. /\ SetParent(t) /\ f = file(t) /\ library'[f].parent_file = call[t].parent
          /\ at'[t] = "parent_set"
      BY <1>4, <2>2, <3>1 DEF LibraryStep, SameFile
    <3>3. call' = call
      BY <3>2, SettingSteps
    <3> QED
      BY <3>2, <3>3 DEF SettingParent, file
  <2>3. CASE library[f].parent_file # NoFile
    <3>1. library'[f].parent_file = library[f].parent_file
      BY <2>3, LibraryKept
    <3>2. CASE parent_file_object[f] = library[f].parent_file
      <4>1. ~(at[t] = "parent_set" /\ file(t) = f)
        BY <1>1, <1>2, <2>3, <3>2
      <4>2. ~(at[t] = "freed" /\ file(t) = f)
        BY <1>0, <2>1 DEF FreeInv
      <4> QED
        BY <1>0, <3>1, <3>2, <4>1, <4>2, ParentSteps
    <3>3. ASSUME NEW u \in Threads, SettingParent(u, f),
                 call[u].parent = library[f].parent_file
          PROVE  \/ parent_file_object'[f] = library'[f].parent_file
                 \/ SettingParent(u, f)' /\ call'[u].parent = library'[f].parent_file
      <4>1. CASE u # t
        <5>1. at'[u] = at[u] /\ call'[u] = call[u]
          BY <1>0, <4>1, OthersStay
        <5> QED
          BY <3>1, <3>3, <5>1 DEF SettingParent, file
      <4>2. CASE u = t
        <5>1. ParentIsSet(t)
          BY <3>3, <4>2, SettingSteps DEF SettingParent
        <5>2. parent_file_object'[f] = call[t].parent
          BY <1>0, <3>3, <4>2, <5>1 DEF ParentIsSet, SettingParent
        <5> QED
          BY <3>1, <3>3, <4>2, <5>2
      <4> QED
        BY <4>1, <4>2
    <3> QED
      BY <1>0, <2>1, <2>3, <3>2, <3>3 DEF ParentInv
  <2> QED
    BY <2>2, <2>3
<1>5. ASSUME NEW u \in Threads, NEW f \in Files, SettingParent(u, f)'
      PROVE  parent_file_object'[f] = NoFile /\ library'[f].parent_file = call'[u].parent
  <2>1. CASE u = t
    <3>1. /\ TakesParent(file(t)) /\ UNCHANGED <<call, parent_file_object>>
          /\ library' = [library EXCEPT ![file(t)].parent_file = call[t].parent]
      BY <1>5, <2>1, SettingSteps DEF SettingParent
    <3>2. f = file(t)
      BY <1>5, <2>1, <3>1 DEF SettingParent, file
    <3>3. parent_file_object[f] = NoFile
      BY <1>0, <3>1, <3>2 DEF ParentInv, TakesParent
    <3>4. library'[f].parent_file = call[t].parent
      BY <1>0, <3>1, <3>2 DEF LibraryFile
    <3> QED
      BY <2>1, <3>1, <3>3, <3>4
  <2>2. CASE u # t
    <3>1. at'[u] = at[u] /\ call'[u] = call[u]
      BY <1>0, <2>2, OthersStay
    <3>2. SettingParent(u, f)
      BY <1>5, <3>1 DEF SettingParent, file
    <3>3. /\ parent_file_object[f] = NoFile
          /\ library[f].parent_file = call[u].parent /\ library[f].parent_file # NoFile
      BY <1>1, <3>2
    <3>4. ~(at[t] = "parent_set" /\ file(t) = f)
      <4>1. ASSUME at[t] = "parent_set", file(t) = f PROVE FALSE
        <5>1. SettingParent(t, f)
          BY <4>1 DEF SettingParent
        <5>2. /\ Refers(u) /\ Refers(t) /\ file(t) = file(u)
              /\ call[u].operation = "set_parent" /\ call[t].operation = "set_parent"
          BY <1>1, <3>2, <5>1
        <5> QED
          BY <2>2, <5>2, SameOwner DEF OwningCalls
      <4> QED
        BY <4>1
    <3>5. library'[f].parent_file = library[f].parent_file
      BY <3>3, LibraryKept
    <3> QED
      BY <1>0, <3>1, <3>3, <3>4, <3>5, ParentSteps
  <2> QED
    BY <2>1, <2>2
<1> QED
  BY <1>3, <1>4, <1>5 DEF ParentInv

-----------------------------------------------------------------------------
(* The invariant.                                                          *)

LEMMA InitInv ==
  ASSUME Init
  PROVE  IInv
<1>1. TypeThreads
  <2>1. NoCall \in ThreadCall
    BY DEF NoCall, ThreadCall, Operations, Drops
  <2>2. at \in [Threads -> Labels]
    BY LabelTypes DEF Init
  <2>3. chain \in [Threads -> Seq(Files)]
    BY EmptySeq DEF Init
  <2> QED
    BY <2>1, <2>2, <2>3 DEF Init, TypeThreads
<1>2. TypeFiles
  BY DEF Init, TypeFiles, BfioHandle, LibraryFile
<1>3. CountInv
  <2>1. ASSUME NEW x \in Files \cup Objects
        PROVE  Count(x) = 1
    <3>1. Callers(x) = {}
      BY DEF Init, Callers, Refers
    <3>2. Children(x) = {}
      BY PyqcowConstants DEF Init, Children
    <3>3. ReadBy(x) = {}
      BY DEF Init, ReadBy
    <3>4. Variables(x) = 1
      BY DEF Init, Variables
    <3> QED
      BY <3>1, <3>2, <3>3, <3>4, FS_EmptySet DEF Count
  <2>2. references = [x \in Files \cup Objects |-> 1]
    BY DEF Init
  <2> QED
    BY <2>1, <2>2 DEF CountInv
<1>4. ASSUME NEW t \in Threads
      PROVE  CallInv(t) /\ ChainInv(t) /\ OpenInv(t)
  <2>1. at[t] = "idle" /\ chain[t] = <<>>
    BY DEF Init
  <2>2. 1..Len(chain[t]) = {}
    BY <2>1
  <2> QED
    BY <2>1, <2>2 DEF CallInv, ChainInv, OpenInv, Refers, IoLabels
<1>5. HandleInv /\ FreeInv /\ ParentInv
  BY DEF Init, HandleInv, FreeInv, ParentInv, SettingParent
<1> QED
  BY <1>1, <1>2, <1>3, <1>4, <1>5 DEF IInv

LEMMA StepInv ==
  ASSUME IInv, ~Reopens, NEW t \in Threads, Enter(t) \/ Step(t)
  PROVE  IInv'
<1>1. Steps(t)
  BY NextSteps
<1>2. TypeThreads' /\ TypeFiles'
  BY StepTypes
<1>3. CountInv'
  BY <1>1, StepCounts
<1>4. \A u \in Threads : CallInv(u)'
  BY <1>1, CallKept
<1>5. \A u \in Threads : ChainInv(u)'
  BY <1>1, <1>2, <1>4, OwnChain, OtherChains
<1>6. \A u \in Threads : OpenInv(u)'
  <2>1. \A u \in Threads : OpenInv(u)
    BY DEF IInv
  <2> QED
    BY <1>1, <2>1, OwnHandles, OtherHandles
<1>7. HandleInv' /\ ParentInv'
  BY <1>1, StepHandles, StepParents
<1>8. FreeInv'
  BY <1>1, <1>2, <1>3, StepFrees
<1> QED
  BY <1>2, <1>3, <1>4, <1>5, <1>6, <1>7, <1>8 DEF IInv

LEMMA SameInv ==
  ASSUME IInv, UNCHANGED vars
  PROVE  IInv'
<1>1. /\ UNCHANGED <<calls, held, references, file_io_handle, parent_file_object,
                     position, handles, library, lock, at, call, chain, sought,
                     got, dying>>
  BY DEF vars, pythonVars, threadVars
<1>2. TypeThreads' /\ TypeFiles' /\ CountInv'
  BY <1>1 DEF IInv, TypeThreads, TypeFiles, CountInv, Count, Variables, Callers,
     Children, ReadBy, Refers
<1>3. \A t \in Threads : CallInv(t)' /\ ChainInv(t)' /\ OpenInv(t)'
  BY <1>1 DEF IInv, CallInv, ChainInv, OpenInv, Refers, Current, file
<1>4. HandleInv' /\ FreeInv' /\ ParentInv'
  BY <1>1 DEF IInv, HandleInv, FreeInv, ParentInv, SettingParent, file
<1> QED
  BY <1>2, <1>3, <1>4 DEF IInv

(* The invariant holds of every program that opens a file with an object    *)
(* only when it has none (pyqcow_file.c:752 fails, and frees the handle    *)
(* that is set, when it does).                                              *)
THEOREM Invariance ==
  ASSUME ~Reopens
  PROVE  Spec => []IInv
<1>1. Init => IInv
  BY InitInv
<1>2. IInv /\ [Next]_vars => IInv'
  BY StepInv, SameInv DEF Next
<1> QED
  BY <1>1, <1>2, PTL DEF Spec

-----------------------------------------------------------------------------
(* Handles and parents live.                                               *)

LEMMA HandlesAreLive ==
  ASSUME IInv
  PROVE  HandlesLive
<1>1. ASSUME NEW f \in Files, library[f].file_io_handle # NoHandle
      PROVE  handles[library[f].file_io_handle].state = "live"
  BY <1>1 DEF IInv, HandleInv
<1>2. ASSUME NEW t \in Threads, at[t] \in {"get_size", "io_seek", "io_read"}
      PROVE  handles[UsedHandle(t)].state = "live"
  BY <1>2, UsedHandleType
<1>3. ASSUME NEW h \in Handles, handles[h].state = "live"
      PROVE  references[handles[h].object] > 0
  <2>1. handles[h].object \in Objects /\ h \in ReadBy(handles[h].object)
    BY <1>3 DEF IInv, HandleInv, ReadBy
  <2>2. references[handles[h].object] \in Nat \ {0}
    BY <2>1, CountedWhenReferred DEF IInv
  <2> QED
    BY <2>2
<1> QED
  BY <1>1, <1>2, <1>3 DEF HandlesLive, IInv, HandleInv

LEMMA ParentsAreLive ==
  ASSUME IInv
  PROVE  ParentsLive
<1>1. ASSUME NEW f \in Files, library[f].state # "freed",
             library[f].parent_file # NoFile
      PROVE  library[library[f].parent_file].state # "freed"
  <2> DEFINE p == library[f].parent_file
  <2>0. p \in Files
    BY <1>1 DEF IInv, TypeFiles, LibraryFile
  <2>1. CASE parent_file_object[f] = p
    <3>1. f \in Children(p)
      BY <2>1 DEF Children
    <3>2. references[p] # 0
      BY <2>0, <3>1, CountedWhenReferred DEF IInv
    <3> QED
      BY <2>0, <3>2 DEF IInv, FreeInv
  <2>2. ASSUME NEW t \in Threads, SettingParent(t, f), call[t].parent = p
        PROVE  library[p].state # "freed"
    <3>1. Refers(t) /\ at[t] # "return" /\ call[t].operation = "set_parent"
      BY <2>2 DEF SettingParent, Refers, IInv, CallInv
    <3>2. references[p] # 0
      BY <2>2, <3>1, FileOfCall
    <3> QED
      BY <2>0, <3>2 DEF IInv, FreeInv
  <2> QED
    BY <1>1, <2>1, <2>2 DEF IInv, ParentInv
<1>2. ASSUME NEW t \in Threads, at[t] \in InLibrary \ {"free_library"}
      PROVE  library[file(t)].state # "freed"
  <2>1. Refers(t) /\ at[t] # "return"
    BY <1>2 DEF InLibrary, FieldCalls, Refers
  <2> QED
    BY <2>1, FileOfCall
<1> QED
  BY <1>1, <1>2 DEF ParentsLive

(* For any number of threads, files, objects and handles: the library only  *)
(* has and reads from handles that are not freed, none is freed twice, and  *)
(* the object of a handle has a reference, whatever the program drops.      *)
THEOREM HandlesCorrect ==
  ASSUME ~Reopens
  PROVE  Spec => []HandlesLive
<1>1. IInv => HandlesLive
  BY HandlesAreLive
<1> QED
  BY <1>1, Invariance, PTL

(* For any number of threads and files: the parent the library points to is *)
(* not freed while the file is not, nor is a file with a thread in it.      *)
THEOREM ParentsCorrect ==
  ASSUME ~Reopens
  PROVE  Spec => []ParentsLive
<1>1. IInv => ParentsLive
  BY ParentsAreLive
<1> QED
  BY <1>1, Invariance, PTL

-----------------------------------------------------------------------------
(* Places.                                                                 *)

LEMMA PositionSteps ==
  ASSUME IInv, NEW t \in Threads, Steps(t)
  PROVE  \/ UNCHANGED position
         \/ /\ at[t] \in {"get_size", "io_seek", "io_read"}
            /\ \E p : position' = [position EXCEPT ![ObjectOf(UsedHandle(t))] = p]
<1>1. CASE \/ Enter(t) \/ AllowThreads(t) \/ Leave(t) \/ OpenFileObject(t)
           \/ OnError(t) \/ AlreadyOpen(t) \/ StartOpen(t) \/ Open(t) \/ OpenEnds(t)
           \/ StartRead(t) \/ ReadReturns(t)
  BY <1>1 DEF Enter, AllowThreads, Leave, OpenFileObject, OnError, AlreadyOpen,
     StartOpen, Open, OpenEnds, StartRead, ReadReturns
<1>2. CASE Looking(t)
  BY <1>2, LookingMoves DEF Moves
<1>3. CASE \/ Close(t) \/ Closed(t) \/ FreeHandle(t) \/ SetParent(t)
           \/ ParentIsSet(t) \/ FreeLibrary(t) \/ FreeParent(t)
  BY <1>3 DEF Close, Closed, FreeHandle, SetParent, ParentIsSet, FreeLibrary,
     FreeParent
<1>4. CASE GetSize(t)
  <2>1. call[t].operation = "open_file_object"
    BY <1>4 DEF GetSize, IInv, CallInv
  <2> QED
    BY <1>4, <2>1 DEF GetSize, UsedHandle
<1>5. CASE Seek(t) \/ Read(t)
  BY <1>5 DEF Seek, Read
<1> QED
  BY <1>1, <1>2, <1>3, <1>4, <1>5 DEF Steps

(* The handle that another thread reads from stays, and so does its object: *)
(* the thread has the lock of the file, or opens it, and is its only owner. *)
LEMMA OtherHandleStays ==
  ASSUME IInv, NEW t \in Threads, Steps(t), NEW u \in Threads, u # t,
         at[u] = "io_read"
  PROVE  /\ UsedHandle(u)' = UsedHandle(u)
         /\ ObjectOf(UsedHandle(u))' = ObjectOf(UsedHandle(u))
<1> DEFINE g == Current(u)
           h == UsedHandle(u)
           Owner == call[u].operation = "open_file_object"
<1>1. /\ at'[u] = at[u] /\ call'[u] = call[u] /\ chain'[u] = chain[u]
      /\ handles \in [Handles -> BfioHandle]
      /\ file_io_handle \in [Files -> Handles \cup {NoHandle}]
  BY OthersStay DEF IInv, TypeThreads, TypeFiles
<1>2. /\ g \in Files /\ lock[g] = u /\ h = file_io_handle[g] /\ h \in Handles
      /\ handles[h].state = "live"
      /\ Owner => g = file(u)
      /\ ~Owner => library[g].file_io_handle # NoHandle
  BY UsedHandleType
<1>3. library'[g] = library[g]
  BY <1>2, LibraryKept, NoThreadIsNone
<1>4. h # NoHandle
  BY <1>2, PyqcowConstants
<1>5. ASSUME \/ OpenFileObject(t)
             \/ (OnError(t) \/ FreeHandle(t)) /\ library[file(t)].file_io_handle = NoHandle
      PROVE  /\ Owner => file(t) # g
             /\ OnError(t) \/ FreeHandle(t) => file(t) # g
  <2>1. Refers(t) /\ call[t].operation \in OwningCalls
    BY <1>5 DEF OpenFileObject, OnError, FreeHandle, Refers, IInv, CallInv, OwningCalls
  <2>2. Owner => file(t) # g
    <3>1. ASSUME Owner, file(t) = g PROVE FALSE
      <4>1. Refers(u) /\ file(u) = file(t) /\ call[u].operation \in OwningCalls
        BY <1>2, <3>1 DEF Refers, OwningCalls
      <4> QED
        BY <2>1, <4>1, SameOwner
    <3> QED
      BY <3>1
  <2>3. OnError(t) \/ FreeHandle(t) => ~OpenFileObject(t)
    BY DEF OnError, FreeHandle, OpenFileObject
  <2>4. OnError(t) \/ FreeHandle(t) => Owner \/ file(t) # g
    BY <1>2, <1>5, <2>3
  <2> QED
    BY <2>2, <2>4
<1>6. ASSUME NEW f \in Files, GivesUp(f), f # g
      PROVE  handles'[h] = handles[h] /\ file_io_handle'[g] = h
  <2>1. h # file_io_handle[f]
    BY <1>2, <1>4, <1>6 DEF IInv, HandleInv
  <2> QED
    BY <1>2, <1>6, <2>1 DEF GivesUp
<1>7. handles'[h] = handles[h] /\ (Owner => file_io_handle'[g] = h)
  <2>1. CASE UNCHANGED <<file_io_handle, handles>>
    BY <1>2, <2>1
  <2>2. ASSUME OpenFileObject(t), NEW e \in FreeHandles,
               file_io_handle' = [file_io_handle EXCEPT ![file(t)] = e],
               handles' = [handles EXCEPT ![e] =
                             [state |-> "live", object |-> call[t].object]]
        PROVE  handles'[h] = handles[h] /\ (Owner => file_io_handle'[g] = h)
    <3>1. e # h
      BY <1>2 DEF FreeHandles
    <3> QED
      BY <1>1, <1>2, <1>5, <2>2, <3>1
  <2>3. ASSUME OnError(t) \/ FreeHandle(t), GivesUp(file(t)),
               library[file(t)].file_io_handle = NoHandle
        PROVE  handles'[h] = handles[h] /\ (Owner => file_io_handle'[g] = h)
    <3>1. file(t) # g
      BY <1>5, <2>3
    <3>2. file(t) \in Files
      BY <2>3, FileOfCall DEF OnError, FreeHandle, Refers
    <3> QED
      BY <1>6, <2>3, <3>1, <3>2
  <2>4. ASSUME NEW f \in Files, GivesUp(f), lock[f] = NoThread
        PROVE  handles'[h] = handles[h] /\ (Owner => file_io_handle'[g] = h)
    <3>1. f # g
      BY <1>2, <2>4, NoThreadIsNone
    <3> QED
      BY <1>6, <2>4, <3>1
  <2> QED
    BY <2>1, <2>2, <2>3, <2>4, HandleSteps
<1>8. UsedHandle(u)' = h
  <2>1. CASE Owner
    BY <1>1, <1>2, <1>7, <2>1 DEF UsedHandle, file
  <2>2. CASE ~Owner
    <3>1. Current(u)' = g
      BY <1>1 DEF Current
    <3>2. UsedHandle(u)' = library'[g].file_io_handle
      BY <1>1, <2>2, <3>1 DEF UsedHandle
    <3>3. h = library[g].file_io_handle
      BY <2>2 DEF UsedHandle
    <3> QED
      BY <1>3, <3>2, <3>3
  <2> QED
    BY <2>1, <2>2
<1> QED
  BY <1>7, <1>8 DEF ObjectOf

LEMMA OtherPlaces ==
  ASSUME IInv, PlaceInv, ObjectsApart, NEW t \in Threads, Steps(t),
         NEW u \in Threads, u # t
  PROVE  /\ at'[u] = "io_read" => position'[ObjectOf(UsedHandle(u))'] = sought'[u]
         /\ at'[u] = "io_done" => got'[u] = sought'[u]
<1>1. /\ at'[u] = at[u] /\ sought'[u] = sought[u] /\ got'[u] = got[u]
      /\ position \in [Objects -> Nat]
  BY OthersStay DEF IInv, TypeFiles
<1>2. ASSUME at[u] = "io_read"
      PROVE  position'[ObjectOf(UsedHandle(u))'] = sought[u]
  <2> DEFINE o == ObjectOf(UsedHandle(u))
  <2>1. /\ Current(u) \in Files /\ lock[Current(u)] = u
        /\ o \in Objects /\ o \in ObjectsOf(Current(u))
    BY <1>2, UsedHandleType
  <2>2. ASSUME at[t] \in {"get_size", "io_seek", "io_read"}
        PROVE  ObjectOf(UsedHandle(t)) # o
    <3>1. /\ Current(t) \in Files /\ lock[Current(t)] = t
          /\ ObjectOf(UsedHandle(t)) \in ObjectsOf(Current(t))
      BY <2>2, UsedHandleType
    <3>2. Current(t) # Current(u)
      BY <2>1, <3>1
    <3> QED
      BY <2>1, <3>1, <3>2 DEF ObjectsApart
  <2>3. position'[o] = position[o]
    BY <1>1, <2>1, <2>2, PositionSteps
  <2>4. ObjectOf(UsedHandle(u))' = o
    BY <1>2, OtherHandleStays
  <2> QED
    BY <1>2, <2>3, <2>4 DEF PlaceInv
<1> QED
  BY <1>1, <1>2 DEF PlaceInv

LEMMA OwnPlace ==
  ASSUME IInv, PlaceInv, NEW t \in Threads, Steps(t)
  PROVE  /\ at'[t] = "io_read" => position'[ObjectOf(UsedHandle(t))'] = sought'[t]
         /\ at'[t] = "io_done" => got'[t] = sought'[t]
<1>0. /\ at \in [Threads -> Labels] /\ call \in [Threads -> ThreadCall]
      /\ position \in [Objects -> Nat] /\ chain \in [Threads -> Seq(Files)]
      /\ got \in [Threads -> Nat] /\ sought \in [Threads -> Nat]
  BY DEF IInv, TypeThreads, TypeFiles
<1>1. CASE \/ Enter(t) \/ Leave(t) \/ OpenFileObject(t) \/ OnError(t)
           \/ AlreadyOpen(t) \/ StartOpen(t) \/ GetSize(t) \/ Open(t) \/ OpenEnds(t)
  <2>1. at'[t] \notin {"io_read", "io_done"}
    BY <1>0, <1>1 DEF Enter, Leave, OpenFileObject, OnError, AlreadyOpen, StartOpen,
       GetSize, Open, OpenEnds, Goto
  <2> QED
    BY <2>1
<1>2. CASE AllowThreads(t)
  <2>1. at'[t] = call[t].operation /\ call[t].operation \in Operations
    BY <1>0, <1>2 DEF AllowThreads, Goto, ThreadCall
  <2> QED
    BY <2>1 DEF Operations, FieldCalls, Drops
<1>3. CASE Looking(t)
  <2>1. \E label \in {"return", "filename_size", "backing_filename"} :
          at' = [at EXCEPT ![t] = label]
    BY <1>3, LookingMoves DEF Moves, Goto
  <2>2. at'[t] \notin {"io_read", "io_done"}
    BY <1>0, <2>1
  <2> QED
    BY <2>2
<1>4. CASE \/ Close(t) \/ Closed(t) \/ FreeHandle(t) \/ SetParent(t)
           \/ ParentIsSet(t) \/ FreeLibrary(t) \/ FreeParent(t)
  <2>1. at'[t] \notin {"io_read", "io_done"}
    BY <1>0, <1>4 DEF Close, Closed, FreeHandle, SetParent, ParentIsSet, FreeLibrary,
       FreeParent, Goto
  <2> QED
    BY <2>1
<1>5. CASE StartRead(t)
  <2>1. at'[t] # "io_read"
    BY <1>0, <1>5 DEF StartRead, Goto, AfterGrab
  <2>2. PICK p : sought' = [sought EXCEPT ![t] = p] /\ got' = [got EXCEPT ![t] = p]
    BY <1>5 DEF StartRead
  <2>3. got'[t] = sought'[t]
    BY <1>0, <2>2
  <2> QED
    BY <2>1, <2>3
<1>6. CASE Seek(t)
  <2>1. /\ at[t] = "io_seek" /\ UNCHANGED <<file_io_handle, library, handles, call, chain, sought>>
        /\ at'[t] \in {"io_read", "io_failed"}
        /\ at'[t] = "io_read" =>
             position' = [position EXCEPT ![ObjectOf(UsedHandle(t))] = sought[t]]
    BY <1>0, <1>6 DEF Seek, Goto, pythonVars, threadVars
  <2>2. ObjectOf(UsedHandle(t)) \in Objects
    BY <2>1, UsedHandleType
  <2>3. ObjectOf(UsedHandle(t))' = ObjectOf(UsedHandle(t))
    BY <2>1 DEF ObjectOf, UsedHandle, Current, file
  <2> QED
    BY <1>0, <2>1, <2>2, <2>3
<1>7. CASE Read(t)
  <2>1. /\ at[t] = "io_read" /\ UNCHANGED sought
        /\ at'[t] \in {"io_done", "io_failed"}
        /\ at'[t] = "io_done" =>
             got' = [got EXCEPT ![t] = position[ObjectOf(UsedHandle(t))]]
    BY <1>0, <1>7 DEF Read, Goto
  <2>2. position[ObjectOf(UsedHandle(t))] = sought[t]
    BY <2>1 DEF PlaceInv
  <2> QED
    BY <1>0, <2>1, <2>2
<1>8. CASE ReadReturns(t)
  <2>1. /\ UNCHANGED <<sought, got>> /\ at'[t] \in {"return", at[t]}
        /\ at[t] \in {"io_done", "io_failed"}
    BY <1>0, <1>8 DEF ReadReturns, Goto
  <2> QED
    BY <2>1 DEF PlaceInv
<1> QED
  BY <1>1, <1>2, <1>3, <1>4, <1>5, <1>6, <1>7, <1>8 DEF Steps

(* For any number of threads, files and objects no two files are opened on: *)
(* a read of an object gets the place that it sought, between whatever      *)
(* callbacks of other threads its two callbacks fall.                       *)
THEOREM PlacesCorrect ==
  ASSUME ~Reopens, ObjectsApart
  PROVE  Spec => []ReadsOwnPlace
<1>1. Init => PlaceInv
  BY DEF Init, PlaceInv
<1>2. IInv /\ PlaceInv /\ [Next]_vars => PlaceInv'
  <2>1. ASSUME IInv, PlaceInv, NEW t \in Threads, Enter(t) \/ Step(t)
        PROVE  PlaceInv'
    <3>1. Steps(t)
      BY <2>1, NextSteps
    <3> QED
      BY <2>1, <3>1, OwnPlace, OtherPlaces DEF PlaceInv
  <2>2. PlaceInv /\ UNCHANGED vars => PlaceInv'
    BY DEF vars, pythonVars, threadVars, PlaceInv, ObjectOf, UsedHandle, Current, file
  <2> QED
    BY <2>1, <2>2 DEF Next
<1>3. PlaceInv => ReadsOwnPlace
  BY DEF PlaceInv, ReadsOwnPlace
<1> QED
  BY <1>1, <1>2, <1>3, Invariance, PTL DEF Spec
=============================================================================
