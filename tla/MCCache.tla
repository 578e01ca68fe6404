------------------------------ MODULE MCCache ------------------------------
(***************************************************************************)
(* A tree of two directories with one name in each.                        *)
(***************************************************************************)
EXTENDS Cache, TLC

WorkerSymmetry == Permutations(Workers)

MCPaths  == {"/", "/d", "/e", "/d/x", "/e/x"}
MCParent == [p \in MCPaths |-> CASE p = "/d/x" -> "/d" [] p = "/e/x" -> "/e"
                                 [] OTHER -> "/"]
MCName   == [p \in MCPaths |-> CASE p \in {"/d/x", "/e/x"} -> "x"
                                 [] p = "/d" -> "d" [] p = "/e" -> "e"
                                 [] OTHER -> ""]

\* The second directory is missing, or empty.
Tree(d, dx, e, ex) ==
  [p \in MCPaths |-> CASE p = "/d" -> d [] p = "/d/x" -> dx [] p = "/e" -> e
                       [] p = "/e/x" -> ex [] OTHER -> "f1"]
MCTrees == {Tree("f1", "f2", "absent", "absent"),
            Tree("f1", "l1", "f1", "absent")}

\* A directory with two files.
FlatPaths  == {"/", "/a", "/b"}
FlatParent == [p \in FlatPaths |-> "/"]
FlatName   == [p \in FlatPaths |-> p]
FlatTrees  == {[p \in FlatPaths |-> IF p = "/a" THEN a ELSE "f1"] :
                 a \in {"f1", "l1", "absent"}}

\* A directory with two links.
LinkTrees  == {[p \in FlatPaths |-> CASE p = "/a" -> "l1" [] p = "/b" -> "l2"
                                     [] OTHER -> "f1"]}
=============================================================================
