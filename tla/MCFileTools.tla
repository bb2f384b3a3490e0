----------------------------- MODULE MCFileTools -----------------------------
(* An instance of FileTools for TLC: paths in every zone, in two zones, at  *)
(* the root, in the way of one another, with dots and parent segments.  *)
EXTENDS FileTools, TLC

Plain(segments) == [segments |-> segments, drive |-> FALSE]

SomePaths ==
  { Plain(<<"app", "docs", ".", "API_CONTRACT.md">>),
    Plain(<<".", "docs", "backend", "x">>),
    Plain(<<"docs", "backend", "x">>),
    Plain(<<"app", "docs", "API_CONTRACT.md">>),
    Plain(<<"app", "README.md">>),
    Plain(<<"app", "frontend", "docs">>),
    Plain(<<"app", "frontend", "docs", "x">>),
    Plain(<<"app", "docs", "..", "..", "..", "session", "app", "README.md">>),
    Plain(<<"app", "docs", "..", "..", "..", "x">>),
    [segments |-> <<"app", "docs", "x">>, drive |-> TRUE] }

(* The threads are alike.                                                   *)
Symmetry == Permutations(Threads)
=============================================================================
