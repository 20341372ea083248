---------------------------- MODULE DirectoryWalk ----------------------------
(***************************************************************************)
(* scan_directory.py: the walk that lists the remote directory, in one     *)
(* thread, with a stack of open directories instead of a recursion.        *)
(* RemoteDirectory takes it as one step.                                   *)
(*                                                                         *)
(* The file system is external.  A directory is a node; an entry has a     *)
(* name, is a symbolic link or is not, and leads to a directory, a file or *)
(* nothing.  Entries come in any order.  The tree does not change during a *)
(* walk, but a directory may be unreadable, and inode() may fail.  Inode   *)
(* numbers are unique on each mount only, and the device is not looked at. *)
(***************************************************************************)
EXTENDS Naturals, Sequences, SequencesExt

CONSTANTS FileSystems,   \* trees: the entries of each directory, the directories
                         \* that are unreadable, names whose inode() fails, and
                         \* what has the number of something on another mount
          Root,          \* the directory of root_path
          Hidden,        \* names that start with a dot
          MaxDepth       \* max_depth

VARIABLES fs,            \* the file system; fixed
          follows,       \* inode() follows links, as the DirEntry of this module
                         \* does, but not that of the standard library; fixed
          walk,          \* "none", "walking", "done" or "raised"
          stack,         \* open directories: a path, and the entries left
          directories,   \* what is listed, by path
          visited,       \* visited_directories: inodes
          logged         \* paths with an error in scandir or in inode

vars == <<fs, follows, walk, stack, directories, visited, logged>>

File    == "file"
Entries(node) == fs.entries[node]
IsDir(e)  == e.to \in DOMAIN fs.entries
IsFile(e) == e.to = File
Visible(node) == {e \in Entries(node) : e.name \notin Hidden}

(* The directory a path leads to in a tree, "nowhere" if there is none.    *)
Nowhere == "nowhere"
Lookup(tree, node, name) ==
    IF node \in DOMAIN tree.entries /\ \E e \in tree.entries[node] : e.name = name
    THEN (CHOOSE e \in tree.entries[node] : e.name = name).to ELSE Nowhere
Find(tree, path) ==
    LET at[k \in 0..Len(path)] ==
            IF k = 0 THEN Root ELSE Lookup(tree, at[k - 1], path[k])
    IN at[Len(path)]
Node(path) == Find(fs, path)

(* A link has an inode of its own: the directory it is in and its name.    *)
(* The number of an inode is its own, or that of one on another mount.     *)
Number(inode) == IF inode \in DOMAIN fs.shared THEN fs.shared[inode] ELSE inode
Inode(path, e) == Number(IF e.link /\ ~follows THEN <<Node(path), e.name>> ELSE <<e.to, "">>)

Empty == [dirs |-> {}, files |-> {}]

Init == /\ fs \in FileSystems /\ follows \in BOOLEAN
        /\ walk = "none" /\ stack = <<>>
        /\ directories = [p \in {} |-> Empty] /\ visited = {} /\ logged = {}

-----------------------------------------------------------------------------
(* Plausible bugs of this code; each must break a property below.          *)
JoinForgotten(path, name) == <<name>>     \* push_directory(dir_entry.name)
PopForgotten ==                           \* `continue` without pop()
    /\ walk = "walking" /\ stack # <<>> /\ Last(stack).left = {}
    /\ UNCHANGED vars
MarkForgotten(inode) == visited           \* no visited_directories.add

-----------------------------------------------------------------------------
Join(path, name) == Append(path, name)
Mark(inode) == visited \cup {inode}

(* push_directory, on a stack and a listing so far; errors are only logged.*)
Push(path, below, listed, errors) ==
    IF Node(path) \in DOMAIN fs.entries \ fs.unreadable
    THEN /\ stack' = Append(below, [path |-> path, left |-> Entries(Node(path))])
         /\ directories' = [p \in DOMAIN listed \cup {path} |->
                               IF p = path THEN Empty ELSE listed[p]]
         /\ logged' = logged \cup errors
    ELSE /\ stack' = below /\ directories' = listed
         /\ logged' = logged \cup errors \cup {path}

Start == /\ walk = "none" /\ Root \in DOMAIN fs.entries /\ walk' = "walking"
         /\ Push(<<>>, stack, directories, {})
         /\ UNCHANGED <<fs, follows, visited>>
NotADirectory == /\ walk = "none" /\ Root \notin DOMAIN fs.entries /\ walk' = "raised"
                 /\ UNCHANGED <<fs, follows, stack, directories, visited, logged>>

-----------------------------------------------------------------------------
Path == Last(stack).path

(* The next entry of the directory on top of the stack, and the stack when *)
(* it was taken.                                                           *)
Taken(e) == Append(Front(stack), [Last(stack) EXCEPT !.left = @ \ {e}])
Takes(e) == walk = "walking" /\ stack # <<>> /\ e \in Last(stack).left

Ignore(e) == /\ Takes(e) /\ stack' = Taken(e)
             /\ UNCHANGED <<fs, follows, walk, directories, visited, logged>>
Shown(e)  == e.name \notin Hidden
Deep      == Len(stack) >= MaxDepth

SkipHidden(e) == ~Shown(e) /\ Ignore(e)
SkipOther(e)  == Shown(e) /\ ~IsDir(e) /\ ~IsFile(e) /\ Ignore(e)
SkipDeep(e)   == Shown(e) /\ IsDir(e) /\ Deep /\ Ignore(e)

Enters(e)   == Takes(e) /\ Shown(e) /\ IsDir(e) /\ ~Deep
HasInode(e) == e.name \notin fs.failing
SkipVisited(e) == Enters(e) /\ HasInode(e) /\ Inode(Path, e) \in visited /\ Ignore(e)

ListDirectory(e) ==
    /\ Enters(e) /\ HasInode(e) /\ Inode(Path, e) \notin visited
    /\ visited' = Mark(Inode(Path, e))
    /\ Push(Join(Path, e.name), Taken(e),
            [directories EXCEPT ![Path].dirs = @ \cup {e.name}], {})
    /\ UNCHANGED <<fs, follows, walk>>

(* inode() fails: the directory is walked, but not named in its parent.    *)
InodeFails(e) ==
    /\ Enters(e) /\ ~HasInode(e)
    /\ Push(Join(Path, e.name), Taken(e), directories, {Join(Path, e.name)})
    /\ UNCHANGED <<fs, follows, walk, visited>>

ListFile(e) == /\ Takes(e) /\ Shown(e) /\ IsFile(e) /\ stack' = Taken(e)
               /\ directories' = [directories EXCEPT ![Path].files = @ \cup {e.name}]
               /\ UNCHANGED <<fs, follows, walk, visited, logged>>

Pop == /\ walk = "walking" /\ stack # <<>> /\ Last(stack).left = {}
       /\ stack' = Front(stack)
       /\ UNCHANGED <<fs, follows, walk, directories, visited, logged>>
Return == /\ walk = "walking" /\ stack = <<>> /\ walk' = "done"
          /\ UNCHANGED <<fs, follows, stack, directories, visited, logged>>

Entry(e) == \/ SkipHidden(e) \/ SkipOther(e) \/ SkipDeep(e) \/ SkipVisited(e)
            \/ ListDirectory(e) \/ InodeFails(e) \/ ListFile(e)
Next == \/ Start \/ NotADirectory \/ Pop \/ Return
        \/ stack # <<>> /\ \E e \in Last(stack).left : Entry(e)

(* The thread runs.                                                        *)
Spec == Init /\ [][Next]_vars /\ WF_vars(Next)

-----------------------------------------------------------------------------
Names == {e.name : e \in UNION {fs.entries[node] : node \in DOMAIN fs.entries}}

TypeOK == /\ fs \in FileSystems /\ follows \in BOOLEAN
          /\ walk \in {"none", "walking", "done", "raised"}
          /\ \A p \in DOMAIN directories : /\ directories[p].dirs \subseteq Names \ Hidden
                                           /\ directories[p].files \subseteq Names \ Hidden
          /\ \A k \in DOMAIN stack : stack[k].path \in DOMAIN directories
          /\ Len(stack) <= MaxDepth

NamesOf(entries) == {e.name : e \in entries}
VisibleDirs(p)  == {e \in Visible(Node(p)) : IsDir(e)}
VisibleFiles(p) == {e \in Visible(Node(p)) : IsFile(e)}

(* A path of the listing leads to a directory, and is not too deep.        *)
PathsAreThere == \A p \in DOMAIN directories :
    Node(p) \in DOMAIN fs.entries \ fs.unreadable /\ Len(p) < MaxDepth

(* A directory named in its parent is listed itself, and the other way     *)
(* around, unless an error was logged.                                     *)
ParentsNameThem == \A p \in DOMAIN directories :
    /\ directories[p].dirs \subseteq NamesOf(VisibleDirs(p))
    /\ \A n \in directories[p].dirs : Append(p, n) \in DOMAIN directories \cup logged
    /\ p # <<>> /\ p \notin logged =>
           Front(p) \in DOMAIN directories /\ Last(p) \in directories[Front(p)].dirs

(* An inode number is named once, so that a link to a directory above does *)
(* not repeat for ever.                                                    *)
Named(p) == {e \in VisibleDirs(p) : e.name \in directories[p].dirs}
NamesInode(p, inode) == \E e \in Named(p) : Inode(p, e) = inode
NamedOnce == \A p, q \in DOMAIN directories : \A e \in Named(p), d \in Named(q) :
    Inode(p, e) = Inode(q, d) => p = q /\ e = d

(* Nothing visible is missing: all files of a listed directory are there,  *)
(* and its directories, unless they are too deep, an error was logged, or  *)
(* another was named that has the same number: the same directory, under   *)
(* another path, or one of another mount.                                  *)
NothingMissing == \A p \in DOMAIN directories :
    /\ directories[p].files = NamesOf(VisibleFiles(p))
    /\ Len(p) + 1 < MaxDepth => \A e \in VisibleDirs(p) :
           Append(p, e.name) \in logged \/ \E q \in DOMAIN directories : NamesInode(q, Inode(p, e))

(* The listing that is returned is the tree: whatever the order of the     *)
(* entries, links and errors, nothing is in it that is not there, twice,   *)
(* or without its parent, and nothing is missing from it but what is taken *)
(* for something named by its inode number.                                *)
ListingIsTree ==
    walk = "done" => PathsAreThere /\ ParentsNameThem /\ NamedOnce /\ NothingMissing

(* Every walk ends, whatever the links.                                    *)
WalkEnds == <>(walk \in {"done", "raised"})

(* "Recursive links are detected and omitted": links, but no directory     *)
(* that is there on its own is missing.                                    *)
RealNode(node, name) ==
    IF node # Nowhere /\ \E e \in Visible(node) : e.name = name /\ ~e.link /\ IsDir(e)
    THEN (CHOOSE e \in Visible(node) : e.name = name).to ELSE Nowhere
RealDirectories ==
    {p \in BoundedSeq(Names, MaxDepth - 1) : FoldLeft(RealNode, Root, p) # Nowhere}
OnlyLinksOmitted ==
    walk = "done" /\ logged = {} /\ ~follows => RealDirectories \subseteq DOMAIN directories
=============================================================================
