------------------------------ MODULE PyqcowFile ------------------------------
(***************************************************************************)
(* pyqcow.file objects in a Python program with threads.  A call of the    *)
(* binding enters with the global interpreter lock (gil), releases it      *)
(* around every call of the library and takes it back after; the library   *)
(* grabs the lock of its file (QcowFile) and, when the image was opened    *)
(* with open_file_object, calls back into Python for every seek, read and  *)
(* size, for which the binding takes the gil again.                        *)
(*                                                                         *)
(* What keeps all of it alive are reference counts, of file objects and of *)
(* the Python objects that are read, and the libbfio handle between them,  *)
(* which the binding makes in open_file_object and frees in close.         *)
(***************************************************************************)
EXTENDS Naturals, Sequences, FiniteSets, SequencesExt

CONSTANTS
  Threads, NoThread,
  Files, NoFile,       \* pyqcow.file objects
  Objects, NoObject,   \* Python objects with read and seek
  Handles, NoHandle,   \* libbfio handles on them
  Program,             \* Program[t][i]: what the i-th call of thread t may be
  Backed,              \* the files whose image has a backing file
  End,                 \* the place after the last byte of an object
  Reopens              \* open_file_object is called when there is a handle

(* The calls of the methods; drop and drop_object are no calls but variables *)
(* of the program that go away.                                             *)
FieldCalls == {"is_locked", "seek_offset", "get_offset", "set_password",
               "get_media_size"}
Drops == {"drop", "drop_object"}
Operations == FieldCalls \cup Drops \cup
  {"open", "open_file_object", "close", "read", "set_parent",
   "get_backing_filename"}

Calls == [operation : Operations, file : Files, parent : Files \cup {NoFile},
          object : Objects \cup {NoObject}]

ASSUME PyqcowConstants ==
  /\ IsFiniteSet(Threads) /\ IsFiniteSet(Files) /\ IsFiniteSet(Handles)
  /\ DOMAIN Program = Threads
  /\ \A t \in Threads : Program[t] \in Seq(SUBSET Calls)
  /\ Backed \subseteq Files
  /\ End \in Nat \ {0}
  /\ Reopens \in BOOLEAN
  /\ Files \cap Objects = {}
  /\ NoThread \notin Threads /\ NoHandle \notin Handles
  /\ {NoFile, NoObject} \cap (Files \cup Objects) = {}

CallsOf(t) == UNION Range(Program[t])

(* What a call needs for its arguments: set_parent has a parent that is     *)
(* another file, open_file_object and drop_object have an object.           *)
ASSUME CallsHaveArguments == \A t \in Threads : \A c \in CallsOf(t) :
  /\ c.operation = "set_parent" <=> c.parent # NoFile
  /\ c.operation \in {"open_file_object", "drop_object"} <=> c.object # NoObject
  /\ c.parent # c.file

(* A file is opened, closed and given its parent by one thread.  Where two  *)
(* do, what the library tests before it waits for the lock may no longer    *)
(* hold when it has it, which QcowFile models; here the test and the lock   *)
(* are one step.                                                            *)
OwningCalls == {"open", "open_file_object", "close", "set_parent"}

ASSUME FilesHaveOneOwner ==
  \A t, u \in Threads : \A c \in CallsOf(t), d \in CallsOf(u) :
    {c.operation, d.operation} \subseteq OwningCalls /\ c.file = d.file => t = u

VARIABLES
  gil,
  calls,               \* made by each thread so far
  (* Python objects *)
  held,                \* the files and objects the program has variables for
  references,          \* reference counts of files and objects
  file_io_handle, parent_file_object,      \* fields of the file objects
  position,            \* of each object
  handles,             \* libbfio handles
  (* the library's files *)
  library, lock,
  (* the threads *)
  at, call, chain, sought, got, dying

pythonVars == <<held, references, file_io_handle, parent_file_object>>
threadVars == <<call, chain, sought, got, dying>>
vars == <<gil, calls, pythonVars, position, handles, library, lock, at,
          threadVars>>

LibraryFile == [state : {"closed", "open", "freed"},
                file_io_handle : Handles \cup {NoHandle},
                parent_file : Files \cup {NoFile},
                size : Objects \cup {NoObject}]

BfioHandle == [state : {"live", "freed", "freed_twice"},
               object : Objects \cup {NoObject}]

NoCall == [operation |-> "drop", file |-> NoFile, parent |-> NoFile,
           object |-> NoObject]

(* Labels where the thread has the gil, where it waits for it, and where it *)
(* is in the library without it.                                            *)
InPython == {"entered"}
Returning == {"return", "on_error", "closed", "parent_set", "filename_size",
              "freed"}
InLibrary == FieldCalls \cup
  {"open", "open_file_object", "close", "read", "set_parent",
   "get_backing_filename", "backing_filename", "get_size", "io_seek", "io_read",
   "io_done", "io_failed", "free_handle", "free_library"}
Labels == {"idle"} \cup InPython \cup Returning \cup InLibrary

Init ==
  /\ gil = NoThread
  /\ calls = [t \in Threads |-> 0]
  /\ held = Files \cup Objects
  /\ references = [x \in Files \cup Objects |-> 1]
  /\ file_io_handle = [f \in Files |-> NoHandle]
  /\ parent_file_object = [f \in Files |-> NoFile]
  /\ position = [o \in Objects |-> 0]
  /\ handles = [h \in Handles |-> [state |-> "freed", object |-> NoObject]]
  /\ library = [f \in Files |-> [state |-> "closed", file_io_handle |-> NoHandle,
                                 parent_file |-> NoFile, size |-> NoObject]]
  /\ lock = [f \in Files |-> NoThread]
  /\ at = [t \in Threads |-> "idle"]
  /\ call = [t \in Threads |-> NoCall]
  /\ chain = [t \in Threads |-> <<>>]
  /\ sought = [t \in Threads |-> 0]
  /\ got = [t \in Threads |-> 0]
  /\ dying = [t \in Threads |-> {}]

-----------------------------------------------------------------------------
(* Building blocks of the actions.                                         *)

Goto(t, label) == at' = [at EXCEPT ![t] = label]

file(t) == call[t].file

(* Py_BEGIN_ALLOW_THREADS and Py_END_ALLOW_THREADS. *)
ReleaseGil(t) == gil = t /\ gil' = NoThread

(* Between PyGILState_Ensure and PyGILState_Release: taken and given back.  *)
WithGil == gil = NoThread /\ UNCHANGED gil

(* The references to what is in this set are counted once less. *)
Less(counts, set) ==
  [x \in DOMAIN counts |-> IF x \in set THEN counts[x] - 1 ELSE counts[x]]
More(counts, set) ==
  [x \in DOMAIN counts |-> IF x \in set THEN counts[x] + 1 ELSE counts[x]]

(* Mutant: the pointer is kept and no reference is counted. *)
ReferNot(x) == UNCHANGED references

(* Py_IncRef. *)
Refer(x) == references' = More(references, {x})

(* libbfio_handle_free frees the handle that a field points to, and with it *)
(* the reference to the object.                                             *)
Freed(h) == [handles EXCEPT ![h] =
  [state |-> IF @.state = "live" THEN "freed" ELSE "freed_twice",
   object |-> NoObject]]
ObjectOf(h) == handles[h].object

(* Memory of a handle is used again once nothing points to it. *)
Pointers ==
  {file_io_handle[f] : f \in Files} \cup {library[f].file_io_handle : f \in Files}
FreeHandles == {h \in Handles : handles[h].state # "live" /\ h \notin Pointers}

-----------------------------------------------------------------------------
(* Entering a call, and leaving it.  The arguments are referred to while it *)
(* lasts.                                                                   *)

Arguments(c) ==
  IF c.operation = "drop_object" THEN {c.object}
  ELSE {c.file, c.parent, c.object} \ {NoFile, NoObject}

(* A thread gets the gil and makes its next call, or does without it.  A    *)
(* variable that goes away takes its reference along when the thread leaves.*)
Enter(t) ==
  /\ at[t] = "idle"
  /\ calls[t] < Len(Program[t])
  /\ gil = NoThread
  /\ calls' = [calls EXCEPT ![t] = @ + 1]
  /\ \E c \in Program[t][calls[t] + 1] :
       /\ Arguments(c) \subseteq held
       /\ c.operation = "open_file_object" /\ ~Reopens =>
            file_io_handle[c.file] = NoHandle
       /\ call' = [call EXCEPT ![t] = c]
       /\ \/ /\ c.operation \in Drops
             /\ held' = held \ Arguments(c)
             /\ Goto(t, "return")
             /\ UNCHANGED <<gil, references>>
          \/ /\ c.operation \notin Drops
             /\ references' = More(references, Arguments(c))
             /\ gil' = t
             /\ Goto(t, "entered")
             /\ UNCHANGED held
  /\ UNCHANGED <<file_io_handle, parent_file_object, position, handles, library,
                 lock, chain, sought, got, dying>>

(* Mutant: get_offset waits for the lock of the file with the gil. *)
CallWithGil(t) ==
  /\ at[t] = "entered"
  /\ call[t].operation # "open_file_object"
  /\ call[t].operation = "get_offset" => lock[file(t)] = NoThread
  /\ ReleaseGil(t)
  /\ Goto(t, IF call[t].operation = "get_offset" THEN "return"
             ELSE call[t].operation)
  /\ UNCHANGED <<calls, pythonVars, position, handles, library, lock,
                 threadVars>>

(* Calls that do nothing before they release the gil. *)
AllowThreads(t) ==
  /\ at[t] = "entered"
  /\ call[t].operation # "open_file_object"
  /\ ReleaseGil(t)
  /\ Goto(t, call[t].operation)
  /\ UNCHANGED <<calls, pythonVars, position, handles, library, lock,
                 threadVars>>

(* The file objects that nothing refers to any more. *)
Unreferenced(counts, set) == {x \in set \cap Files : counts[x] = 0}

(* Ends a call, or starts to free the files of which this was the last      *)
(* reference.                                                               *)
Leave(t) ==
  LET counts == Less(references, Arguments(call[t]))
      unreferenced == Unreferenced(counts, Arguments(call[t]))
  IN  /\ at[t] = "return"
      /\ WithGil
      /\ references' = counts
      /\ dying' = [dying EXCEPT ![t] = unreferenced]
      /\ call' = [call EXCEPT ![t] = NoCall]
      /\ Goto(t, IF unreferenced = {} THEN "idle" ELSE "free_library")
      /\ sought' = [sought EXCEPT ![t] = 0]
      /\ got' = [got EXCEPT ![t] = 0]
      /\ UNCHANGED <<calls, held, file_io_handle, parent_file_object, position,
                     handles, library, lock, chain>>

-----------------------------------------------------------------------------
(* Opening.                                                                *)

(* Frees the handle of the file, whoever has set it. *)
FreeHandleOf(f) ==
  LET h == file_io_handle[f]
  IN  /\ handles' = IF h = NoHandle THEN handles ELSE Freed(h)
      /\ references' = IF h = NoHandle THEN references
                       ELSE Less(references, {ObjectOf(h)})
      /\ file_io_handle' = [file_io_handle EXCEPT ![f] = NoHandle]

(* The handle refers to the object.  "File IO handle already set" is an     *)
(* error like those of the library, and frees the handle that is set.       *)
OpenFileObject(t) ==
  /\ at[t] = "entered"
  /\ call[t].operation = "open_file_object"
  /\ ReleaseGil(t)
  /\ IF file_io_handle[file(t)] # NoHandle
     THEN FreeHandleOf(file(t)) /\ Goto(t, "return")
     ELSE /\ \E h \in FreeHandles :
               /\ handles' = [handles EXCEPT ![h] =
                                [state |-> "live", object |-> call[t].object]]
               /\ file_io_handle' = [file_io_handle EXCEPT ![file(t)] = h]
          /\ Refer(call[t].object)
          /\ Goto(t, "open_file_object")
  /\ UNCHANGED <<calls, held, parent_file_object, position, library, lock,
                 threadVars>>

OnError(t) ==
  /\ at[t] = "on_error"
  /\ WithGil
  /\ FreeHandleOf(file(t))
  /\ Goto(t, "return")
  /\ UNCHANGED <<calls, held, parent_file_object, position, library, lock,
                 threadVars>>

(* libqcow_file_open_file_io_handle, when the file is open already. *)
AlreadyOpen(t) ==
  /\ at[t] = "open_file_object"
  /\ library[file(t)].state = "open"
  /\ Goto(t, "on_error")
  /\ UNCHANGED <<gil, calls, pythonVars, position, handles, library, lock,
                 threadVars>>

(* Mutant: the lock does not keep the other out. *)
GrabShared(t, f) == lock' = [lock EXCEPT ![f] = t]
Grab(t, f) == lock[f] = NoThread /\ lock' = [lock EXCEPT ![f] = t]
Release(f) == lock' = [lock EXCEPT ![f] = NoThread]

StartOpen(t) ==
  /\ at[t] = "open_file_object"
  /\ library[file(t)].state = "closed"
  /\ Grab(t, file(t))
  /\ chain' = [chain EXCEPT ![t] = <<file(t)>>]
  /\ Goto(t, "get_size")
  /\ UNCHANGED <<gil, calls, pythonVars, position, handles, library, call,
                 sought, got, dying>>

(* Where an object can be after it was asked for its size, by its get_size  *)
(* or by a seek to its end and one back: an exception leaves it at the end. *)
Positions(o) == {position[o], End}

(* The size that is returned: that of the object, or, after an exception,   *)
(* what the library had before, as the callback returns 1 all the same.     *)
SizesReturned(f) == {ObjectOf(file_io_handle[f]), library[f].size}

(* A size of zero is refused; else the header is read, at 0. *)
GetSize(t) ==
  LET o == ObjectOf(file_io_handle[file(t)])
  IN  /\ at[t] = "get_size"
      /\ WithGil
      /\ \E p \in Positions(o) : position' = [position EXCEPT ![o] = p]
      /\ \E s \in SizesReturned(file(t)) :
           /\ library' = [library EXCEPT ![file(t)].size = s]
           /\ Goto(t, IF s = NoObject THEN "io_failed" ELSE "io_seek")
      /\ UNCHANGED <<calls, pythonVars, handles, lock, threadVars>>

(* The image is opened by its name; no handle of Handles is in use. *)
Open(t) ==
  /\ at[t] = "open"
  /\ lock[file(t)] = NoThread
  /\ \/ /\ library[file(t)].state = "closed"
        /\ library' = [library EXCEPT ![file(t)].state = "open"]
     \/ UNCHANGED library
  /\ Goto(t, "return")
  /\ UNCHANGED <<gil, calls, pythonVars, position, handles, lock, threadVars>>

-----------------------------------------------------------------------------
(* Reading, of an image or of its header.                                  *)

(* The file whose turn it is: the last of the chain, or its parent. *)
Current(t) == chain[t][Len(chain[t])]
Wanted(t) ==
  IF chain[t] = <<>> THEN file(t) ELSE library[Current(t)].parent_file

(* Where a read goes on: to the object, or to the parent for a hole.  A     *)
(* file that was opened by its name is read by the library alone.           *)
AfterGrab(f) ==
  IF f.state # "open" THEN {"io_failed"}
  ELSE (IF f.file_io_handle = NoHandle THEN {"io_done", "io_failed"}
        ELSE {"io_seek"})
         \cup (IF f.parent_file # NoFile THEN {"read"} ELSE {})

StartRead(t) ==
  /\ at[t] = "read"
  /\ Grab(t, Wanted(t))
  /\ chain' = [chain EXCEPT ![t] = Append(@, Wanted(t))]
  /\ \E p \in 0..(End - 1) :
       /\ sought' = [sought EXCEPT ![t] = p]
       /\ got' = [got EXCEPT ![t] = p]
  /\ \E label \in AfterGrab(library[Wanted(t)]) : Goto(t, label)
  /\ UNCHANGED <<gil, calls, pythonVars, position, handles, library, call,
                 dying>>

(* The handle the library reads from. *)
UsedHandle(t) ==
  IF call[t].operation = "open_file_object" THEN file_io_handle[file(t)]
  ELSE library[Current(t)].file_io_handle

(* A callback may end in an exception, or deliver less than was asked for,  *)
(* which the library takes for an error.                                    *)
Seek(t) ==
  /\ at[t] = "io_seek"
  /\ WithGil
  /\ \/ /\ position' = [position EXCEPT ![ObjectOf(UsedHandle(t))] = sought[t]]
        /\ Goto(t, "io_read")
     \/ UNCHANGED position /\ Goto(t, "io_failed")
  /\ UNCHANGED <<calls, pythonVars, handles, library, lock, threadVars>>

Read(t) ==
  LET o == ObjectOf(UsedHandle(t))
  IN  /\ at[t] = "io_read"
      /\ WithGil
      /\ \/ /\ position[o] < End
            /\ position' = [position EXCEPT ![o] = @ + 1]
            /\ got' = [got EXCEPT ![t] = position[o]]
            /\ Goto(t, "io_done")
         \/ UNCHANGED <<position, got>> /\ Goto(t, "io_failed")
      /\ UNCHANGED <<calls, pythonVars, handles, library, lock, call, chain,
                     sought, dying>>

(* The locks are released, the parent's first. *)
ReleaseLast(t) ==
  /\ Release(Current(t))
  /\ chain' = [chain EXCEPT ![t] = SubSeq(@, 1, Len(@) - 1)]

ReadReturns(t) ==
  /\ at[t] \in {"io_done", "io_failed"}
  /\ call[t].operation = "read"
  /\ ReleaseLast(t)
  /\ Goto(t, IF Len(chain[t]) = 1 THEN "return" ELSE at[t])
  /\ UNCHANGED <<gil, calls, pythonVars, position, handles, library, call,
                 sought, got, dying>>

OpenEnds(t) ==
  /\ at[t] \in {"io_done", "io_failed"}
  /\ call[t].operation = "open_file_object"
  /\ ReleaseLast(t)
  /\ \/ /\ at[t] = "io_done"
        /\ library' = [library EXCEPT ![file(t)].state = "open",
                          ![file(t)].file_io_handle = file_io_handle[file(t)]]
        /\ Goto(t, "return")
     \/ UNCHANGED library /\ Goto(t, "on_error")
  /\ UNCHANGED <<gil, calls, pythonVars, position, handles, call, sought, got,
                 dying>>

(* Calls that look at a field of the library's file, or set one, while they *)
(* have its lock.                                                           *)
Looks(t, operation) ==
  /\ at[t] = operation
  /\ lock[file(t)] = NoThread
  /\ Goto(t, "return")
  /\ UNCHANGED <<gil, calls, pythonVars, position, handles, library, lock,
                 threadVars>>

IsLocked(t) == Looks(t, "is_locked")
SeekOffset(t) == Looks(t, "seek_offset")
GetOffset(t) == Looks(t, "get_offset")
SetPassword(t) == Looks(t, "set_password")
GetMediaSize(t) == Looks(t, "get_media_size")

(* The size of the name is asked for first, then, with the gil in between,  *)
(* the name; a file that is closed has none.                                *)
GetBackingFilenameSize(t) ==
  /\ at[t] = "get_backing_filename"
  /\ lock[file(t)] = NoThread
  /\ Goto(t, IF library[file(t)].state = "open" /\ file(t) \in Backed
             THEN "filename_size" ELSE "return")
  /\ UNCHANGED <<gil, calls, pythonVars, position, handles, library, lock,
                 threadVars>>

AllocateFilename(t) ==
  /\ at[t] = "filename_size"
  /\ WithGil
  /\ Goto(t, "backing_filename")
  /\ UNCHANGED <<calls, pythonVars, position, handles, library, lock,
                 threadVars>>

GetBackingFilename(t) == Looks(t, "backing_filename")

-----------------------------------------------------------------------------
(* Closing, and the parent.                                                *)

(* Mutant: the library keeps its pointer to the handle. *)
ClosedPointing(f) == [library EXCEPT ![f].state = "closed"]

(* A close gives up what it used; the parent and the size stay. *)
ClosedLibrary(f) ==
  [library EXCEPT ![f].state = "closed", ![f].file_io_handle = NoHandle]

Close(t) ==
  /\ at[t] = "close"
  /\ lock[file(t)] = NoThread
  /\ IF library[file(t)].state = "open"
     THEN library' = ClosedLibrary(file(t)) /\ Goto(t, "closed")
     ELSE UNCHANGED library /\ Goto(t, "return")
  /\ UNCHANGED <<gil, calls, pythonVars, position, handles, lock, threadVars>>

(* Back with the gil, and away again when there is a handle to free. *)
Closed(t) ==
  /\ at[t] = "closed"
  /\ WithGil
  /\ Goto(t, IF file_io_handle[file(t)] # NoHandle THEN "free_handle"
             ELSE "return")
  /\ UNCHANGED <<calls, pythonVars, position, handles, library, lock,
                 threadVars>>

FreeHandle(t) ==
  /\ at[t] = "free_handle"
  /\ WithGil
  /\ FreeHandleOf(file(t))
  /\ Goto(t, "return")
  /\ UNCHANGED <<calls, held, parent_file_object, position, library, lock,
                 threadVars>>

(* The library takes one parent for a file, if its image has one. *)
TakesParent(f) ==
  /\ library[f].state = "open"
  /\ f \in Backed
  /\ library[f].parent_file = NoFile

SetParent(t) ==
  /\ at[t] = "set_parent"
  /\ lock[file(t)] = NoThread
  /\ IF TakesParent(file(t))
     THEN /\ library' = [library EXCEPT ![file(t)].parent_file = call[t].parent]
          /\ Goto(t, "parent_set")
     ELSE UNCHANGED library /\ Goto(t, "return")
  /\ UNCHANGED <<gil, calls, pythonVars, position, handles, lock, threadVars>>

ParentIsSet(t) ==
  /\ at[t] = "parent_set"
  /\ WithGil
  /\ parent_file_object' = [parent_file_object EXCEPT ![file(t)] = call[t].parent]
  /\ Refer(call[t].parent)
  /\ Goto(t, "return")
  /\ UNCHANGED <<calls, held, file_io_handle, position, handles, library, lock,
                 threadVars>>

-----------------------------------------------------------------------------
(* Freeing a file object: nothing refers to it, so that closing it, freeing *)
(* its handle and freeing the library's file, which closes a file that was  *)
(* opened by its name, is one step for the others.  Then goes the reference *)
(* to the parent, which may be the last.                                    *)

FreeLibrary(t) ==
  /\ at[t] = "free_library"
  /\ WithGil
  /\ \E f \in dying[t] :
       /\ lock[f] = NoThread
       /\ library' = [library EXCEPT ![f].state = "freed",
                                     ![f].file_io_handle = NoHandle]
       /\ FreeHandleOf(f)
       /\ call' = [call EXCEPT ![t] = [NoCall EXCEPT !.file = f]]
  /\ Goto(t, "freed")
  /\ UNCHANGED <<calls, held, parent_file_object, position, lock, chain, sought,
                 got, dying>>

FreeParent(t) ==
  LET parents == {parent_file_object[file(t)]} \ {NoFile}
      counts == Less(references, parents)
      rest == (dying[t] \ {file(t)}) \cup Unreferenced(counts, parents)
  IN  /\ at[t] = "freed"
      /\ WithGil
      /\ references' = counts
      /\ parent_file_object' = [parent_file_object EXCEPT ![file(t)] = NoFile]
      /\ dying' = [dying EXCEPT ![t] = rest]
      /\ call' = [call EXCEPT ![t] = NoCall]
      /\ Goto(t, IF rest = {} THEN "idle" ELSE "free_library")
      /\ UNCHANGED <<calls, held, file_io_handle, position, handles, library,
                     lock, chain, sought, got>>

-----------------------------------------------------------------------------
Opening(t) ==
  \/ OpenFileObject(t) \/ OnError(t) \/ AlreadyOpen(t) \/ StartOpen(t)
  \/ GetSize(t) \/ Open(t) \/ OpenEnds(t)

Reading(t) ==
  StartRead(t) \/ Seek(t) \/ Read(t) \/ ReadReturns(t)

Looking(t) ==
  \/ IsLocked(t) \/ SeekOffset(t) \/ GetOffset(t) \/ SetPassword(t)
  \/ GetMediaSize(t) \/ GetBackingFilenameSize(t) \/ AllocateFilename(t)
  \/ GetBackingFilename(t)

Closing(t) == Close(t) \/ Closed(t) \/ FreeHandle(t)

Parents(t) == SetParent(t) \/ ParentIsSet(t)

Freeing(t) == FreeLibrary(t) \/ FreeParent(t)

(* A step of a call that has begun. *)
Step(t) ==
  \/ AllowThreads(t) \/ Leave(t)
  \/ Opening(t) \/ Reading(t) \/ Looking(t)
  \/ Closing(t) \/ Parents(t) \/ Freeing(t)

Next == \E t \in Threads : Enter(t) \/ Step(t)

Spec == Init /\ [][Next]_vars /\ \A t \in Threads : WF_vars(Step(t))

-----------------------------------------------------------------------------
(* The library never has a handle that was freed, nor is one freed twice,   *)
(* and what a handle reads from has not been collected, whatever variables  *)
(* the program has dropped: the binding frees a handle only when the        *)
(* library has closed the file, and keeps a reference with the handle.      *)
HandlesLive ==
  /\ \A f \in Files : library[f].file_io_handle # NoHandle =>
       handles[library[f].file_io_handle].state = "live"
  /\ \A t \in Threads : at[t] \in {"get_size", "io_seek", "io_read"} =>
       handles[UsedHandle(t)].state = "live"
  /\ \A h \in Handles :
       /\ handles[h].state # "freed_twice"
       /\ handles[h].state = "live" => references[handles[h].object] > 0

(* The library keeps a pointer to the parent file and counts nothing: the   *)
(* binding has a reference for as long as the pointer is there, and no      *)
(* thread is in a file that is freed.                                       *)
ParentsLive ==
  /\ \A f \in Files :
       library[f].state # "freed" /\ library[f].parent_file # NoFile =>
         library[library[f].parent_file].state # "freed"
  /\ \A t \in Threads : at[t] \in InLibrary \ {"free_library"} =>
       library[file(t)].state # "freed"

(* A seek and a read are two callbacks, and every thread may run between    *)
(* them: what is read is still what was sought, because the lock of the     *)
(* file is held across both.                                                *)
ReadsOwnPlace ==
  \A t \in Threads : at[t] = "io_done" => got[t] = sought[t]

(* Every call returns: no thread waits for the lock of a file and has the   *)
(* gil, which a callback of the thread that has the lock waits for.         *)
CallsReturn == \A t \in Threads : at[t] # "idle" ~> at[t] = "idle"
=============================================================================
