-------------------------- MODULE MCDirectoryWalk --------------------------
(* A small instance of DirectoryWalk.                                      *)
EXTENDS DirectoryWalk, WalkTrees
=============================================================================
