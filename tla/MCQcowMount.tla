----------------------------- MODULE MCQcowMount -----------------------------
(***************************************************************************)
(* Chains for QcowMount: "base" <- "middle" <- "top"; "short", whose base  *)
(* has less media; "lost", whose base does not exist; "loop", which is its *)
(* own base.                                                               *)
(***************************************************************************)
EXTENDS QcowMount

MCBackingName ==
  [n \in Names |->
    CASE n = "middle" -> "base"
      [] n = "top"    -> "middle"
      [] n = "short"  -> "base"
      [] n = "lost"   -> "nowhere"
      [] n = "loop"   -> "loop"
      [] OTHER        -> NoName]

MCOpenable == Names \ {"nowhere"}

MCMediaSize == [n \in Names |-> IF n = "short" THEN 3 ELSE 2]

MCBlock ==
  [n \in Names |->
    CASE n = "base"   -> <<"data", "data">>
      [] n = "middle" -> <<"hole", "bad">>
      [] n = "top"    -> <<"hole", "hole">>
      [] n = "short"  -> <<"data", "hole", "hole">>
      [] OTHER        -> <<"hole", "data">>]

MCBlockAt == [n \in Names |-> [c \in 0..(MCMediaSize[n] - 1) |-> MCBlock[n][c + 1]]]

(* The root directory, numbers with and without a leading zero, the number *)
(* of no file, and what is no digit.                                       *)
MCPaths == {RootPath, <<1>>, <<1, 0>>, <<0, 1, 1>>, <<0>>, <<2>>}
=============================================================================
