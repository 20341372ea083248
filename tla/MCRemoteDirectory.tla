------------------------- MODULE MCRemoteDirectory -------------------------
(***************************************************************************)
(* Small instances of RemoteDirectory and of DirectoryWalk, the walk that  *)
(* its scans make, checked in one run: a behaviour is of one of them, and  *)
(* the other does not start.                                               *)
(***************************************************************************)
EXTENDS RemoteDirectory, WalkTrees

CONSTANTS FileSystems, Root, Hidden, MaxDepth

(* A name is that of one entry of a directory, and a file is no directory. *)
ASSUME TreeAssumption ==
    /\ MaxDepth \in Nat \ {0}
    /\ \A t \in FileSystems :
          /\ "file" \notin DOMAIN t.entries
          /\ \A node \in DOMAIN t.entries : \A e, d \in t.entries[node] : e.name = d.name => e = d

VARIABLES part,          \* what the behaviour is of
          fs, follows, walk, stack, directories, visited, logged

W == INSTANCE DirectoryWalk

walkVars == <<fs, follows, walk, stack, directories, visited, logged>>

DirectoryInit == /\ Init /\ W!Init
                 /\ \/ part = "directory" /\ fs = NoTree /\ follows
                    \/ part = "walk"
DirectoryNext ==
    /\ UNCHANGED part
    /\ \/ part = "directory" /\ UNCHANGED walkVars /\ Next
       \/ part = "walk" /\ UNCHANGED vars /\ W!Next

(* The walk may only wait while it is not the part.                        *)
DirectorySpec == /\ DirectoryInit /\ [][DirectoryNext]_<<part, vars, walkVars>>
                 /\ Fairness
                 /\ WF_walkVars(part = "walk" /\ UNCHANGED <<part, vars>> /\ W!Next)

(* The types of both modules.                                              *)
TypesOK == TypeOK /\ W!TypeOK

(* DirectoryWalk: the listing a walk returns is the tree, ...              *)
ListingIsTree == W!ListingIsTree
(* ... and every walk ends.                                                *)
WalkEnds == part = "walk" => W!WalkEnds
=============================================================================
