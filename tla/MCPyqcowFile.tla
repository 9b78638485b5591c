----------------------------- MODULE MCPyqcowFile -----------------------------
(***************************************************************************)
(* Instances of PyqcowFile for TLC: a program that opens, chains, closes   *)
(* and drops its files in one thread and reads them in another.            *)
(***************************************************************************)
EXTENDS PyqcowFile

CONSTANTS owner, reader, base, child, object1, object2

Call(operation, f) ==
  [operation |-> operation, file |-> f, parent |-> NoFile, object |-> NoObject]
OpensObject(f, o) == [Call("open_file_object", f) EXCEPT !.object = o]
DropsObject(f, o) == [Call("drop_object", f) EXCEPT !.object = o]
SetsParent == [Call("set_parent", child) EXCEPT !.parent = base]

OwnerCalls ==
  <<{OpensObject(base, object1), Call("open", base)},
    {OpensObject(child, object2)},
    {SetsParent, OpensObject(base, object1)},
    {Call("drop", base), Call("close", base), DropsObject(child, object2)},
    {Call("close", child), Call("drop", child), Call("read", child)}>>

(* Reads, and then whatever else a thread may ask of a file. *)
ReaderCalls ==
  LET reads == {Call("read", base), Call("read", child)}
      looks == {Call(c, child) : c \in FieldCalls \cup {"get_backing_filename"}}
  IN  <<reads, reads \cup looks>>

MCProgram == [t \in Threads |-> IF t = owner THEN OwnerCalls ELSE ReaderCalls]
=============================================================================
