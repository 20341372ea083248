---------------------- MODULE MCRemoteDirectory_proofs ----------------------
(***************************************************************************)
(* Proofs about RemoteDirectory and DirectoryWalk, as MCRemoteDirectory    *)
(* puts them together.  For any number of scans, uploads, chunks and       *)
(* versions, a listing is whole when it is reported, and an upload is a    *)
(* snapshot.  For any file systems, the listing of a walk is the tree.     *)
(***************************************************************************)
EXTENDS MCRemoteDirectory, SequenceTheorems, TLAPS

(* DirectoryWalk: the inductive invariant.                                 *)

(* An entry of a listed directory that the walk has not taken yet.         *)
PendsIn(frames, p, e) ==
    \E k \in 1..Len(frames) : frames[k].path = p /\ e \in frames[k].left
Pends(p, e) == PendsIn(stack, p, e)

Everything == UNION {fs.entries[node] : node \in DOMAIN fs.entries}
Frames == [path : Seq(W!Names), left : SUBSET Everything]

Phases == /\ fs \in FileSystems /\ follows \in BOOLEAN
          /\ walk \in {"none", "walking", "done", "raised"}
          /\ walk # "walking" => stack = <<>>
          /\ walk \in {"none", "raised"} => DOMAIN directories = {} /\ visited = {}

(* The stack is a branch of the tree: a directory of each depth, all of    *)
(* which are listed.                                                       *)
StackShape ==
    /\ stack \in Seq(Frames) /\ Len(stack) <= MaxDepth
    /\ \A k \in 1..Len(stack) :
          /\ Len(stack[k].path) = k - 1 /\ stack[k].path \in DOMAIN directories
          /\ stack[k].left \subseteq W!Entries(W!Node(stack[k].path))

(* What is listed is a directory that can be read, not too deep, and is    *)
(* named in its parent, unless an error was logged.                        *)
Listed == \A p \in DOMAIN directories :
    /\ p \in Seq(W!Names) /\ Len(p) < MaxDepth
    /\ W!Node(p) \in DOMAIN fs.entries \ fs.unreadable
    /\ directories[p] \in [dirs : SUBSET W!Names, files : SUBSET W!Names]
ParentsName == \A p \in DOMAIN directories :
    p = <<>> \/ \E q \in DOMAIN directories, n \in W!Names :
                   p = Append(q, n) /\ (p \in logged \/ n \in directories[q].dirs)

(* The files and directories that are named are visible entries that were  *)
(* taken; of the files, all of them.                                       *)
FilesTaken == \A p \in DOMAIN directories :
    directories[p].files = W!NamesOf({e \in W!VisibleFiles(p) : ~Pends(p, e)})
DirsTaken == \A p \in DOMAIN directories :
    directories[p].dirs \subseteq W!NamesOf({e \in W!VisibleDirs(p) : ~Pends(p, e)})

(* A directory is listed after its entry is taken, ...                     *)
NotAhead == \A p \in DOMAIN directories, e \in Everything :
    Pends(p, e) => Append(p, e.name) \notin DOMAIN directories
(* ... and at once.                                                        *)
DirsReached == \A p \in DOMAIN directories : \A n \in directories[p].dirs :
    Append(p, n) \in DOMAIN directories \cup logged

(* The inodes visited are those of the directories that are named, each    *)
(* named once.                                                             *)
VisitedAreNamed == \A i \in visited : \E q \in DOMAIN directories : W!NamesInode(q, i)
NamedAreVisited == \A p \in DOMAIN directories : \A e \in W!Named(p) : W!Inode(p, e) \in visited

(* A directory that was taken was visited, now or before, unless it is too *)
(* deep or an error was logged.                                            *)
TakenAreSeen == \A p \in DOMAIN directories : Len(p) + 1 < MaxDepth =>
    \A e \in W!VisibleDirs(p) :
        Pends(p, e) \/ Append(p, e.name) \in logged \/ W!Inode(p, e) \in visited

WalkInv == /\ Phases /\ StackShape /\ Listed /\ ParentsName /\ FilesTaken /\ DirsTaken
           /\ NotAhead /\ DirsReached /\ VisitedAreNamed /\ NamedAreVisited /\ W!NamedOnce
           /\ TakenAreSeen

(* The tree of a walk stays as it is.                                      *)
SameTree == fs' = fs /\ follows' = follows

LEMMA TreeStays ==
    ASSUME SameTree
    PROVE  /\ W!Names' = W!Names /\ Everything' = Everything
           /\ Frames' = Frames
           /\ \A p : /\ W!Node(p)' = W!Node(p) /\ W!VisibleDirs(p)' = W!VisibleDirs(p)
                     /\ W!VisibleFiles(p)' = W!VisibleFiles(p)
                     /\ W!Entries(W!Node(p))' = W!Entries(W!Node(p))
           /\ \A p, e : W!Inode(p, e)' = W!Inode(p, e)
<1>1. W!Names' = W!Names /\ Everything' = Everything
    BY DEF SameTree, W!Names, Everything
<1>2. Frames' = Frames
    BY <1>1 DEF Frames
<1>3. \A p : W!Node(p)' = W!Node(p)
    BY DEF SameTree, W!Node
<1>4. \A p : W!VisibleDirs(p)' = W!VisibleDirs(p) /\ W!VisibleFiles(p)' = W!VisibleFiles(p)
             /\ W!Entries(W!Node(p))' = W!Entries(W!Node(p))
    BY <1>3 DEF SameTree, W!VisibleDirs, W!VisibleFiles, W!Visible, W!Entries, W!IsDir, W!IsFile
<1>5. \A p, e : W!Inode(p, e)' = W!Inode(p, e)
    BY <1>3 DEF SameTree, W!Inode, W!Number
<1> QED BY <1>1, <1>2, <1>3, <1>4, <1>5

(* The entry that is taken is one of the directory on top of the stack.    *)
LEMMA TopEntry ==
    ASSUME WalkInv, NEW e, W!Takes(e)
    PROVE  /\ Len(stack) \in Nat \ {0} /\ W!Last(stack) = stack[Len(stack)]
           /\ W!Path = stack[Len(stack)].path /\ W!Path \in DOMAIN directories
           /\ W!Path \in Seq(W!Names) /\ Len(W!Path) = Len(stack) - 1
           /\ e \in W!Entries(W!Node(W!Path)) /\ W!Node(W!Path) \in DOMAIN fs.entries
           /\ e \in Everything /\ e.name \in W!Names
           /\ Append(W!Path, e.name) \in Seq(W!Names)
           /\ Len(Append(W!Path, e.name)) = Len(stack)
           /\ Pends(W!Path, e) /\ Append(W!Path, e.name) \notin DOMAIN directories
<1>1. /\ stack \in Seq(Frames) /\ Len(stack) \in Nat \ {0} /\ W!Last(stack) = stack[Len(stack)]
    BY EmptySeq, LenProperties DEF WalkInv, StackShape, W!Takes, W!Last
<1>2. Len(stack) \in 1..Len(stack)
    BY <1>1
<1>3. /\ W!Path = stack[Len(stack)].path /\ W!Path \in DOMAIN directories
      /\ Len(W!Path) = Len(stack) - 1 /\ e \in W!Entries(W!Node(W!Path))
    BY <1>1, <1>2 DEF WalkInv, StackShape, W!Takes, W!Path
<1>4. W!Path \in Seq(W!Names) /\ W!Node(W!Path) \in DOMAIN fs.entries
    BY <1>3 DEF WalkInv, Listed
<1>5. e \in Everything /\ e.name \in W!Names
    BY <1>3, <1>4 DEF W!Entries, Everything, W!Names
<1>6. Append(W!Path, e.name) \in Seq(W!Names) /\ Len(Append(W!Path, e.name)) = Len(stack)
    BY <1>1, <1>3, <1>4, <1>5, AppendProperties
<1>7. Pends(W!Path, e)
    BY <1>1, <1>2, <1>3 DEF W!Takes, Pends, PendsIn
<1> QED BY <1>1, <1>3, <1>4, <1>5, <1>6, <1>7 DEF WalkInv, NotAhead

(* The stack when the entry was taken.                                     *)
LEMMA TakenStack ==
    ASSUME WalkInv, NEW e, W!Takes(e)
    PROVE  /\ W!Taken(e) \in Seq(Frames) /\ Len(W!Taken(e)) = Len(stack)
           /\ \A k \in 1..Len(stack) :
                 /\ W!Taken(e)[k].path = stack[k].path
                 /\ W!Taken(e)[k].left = IF k = Len(stack) THEN stack[k].left \ {e}
                                       ELSE stack[k].left
<1>1. stack \in Seq(Frames) /\ Len(stack) \in Nat \ {0} /\ W!Last(stack) = stack[Len(stack)]
    BY TopEntry DEF WalkInv, StackShape
<1>2. PICK front : front = W!Front(stack)
    OBVIOUS
<1>3. PICK top : top = [W!Last(stack) EXCEPT !.left = @ \ {e}]
    OBVIOUS
<1>4. /\ front \in Seq(Frames) /\ Len(front) = Len(stack) - 1
      /\ \A k \in 1..Len(stack) - 1 : front[k] = stack[k]
    <2>1. PICK n \in Nat : n = Len(stack) - 1
        BY <1>1
    <2>2. \A k \in 1..n : stack[k] \in Frames
        BY <1>1, <2>1, ElementOfSeq
    <2>3. /\ front \in Seq(Frames) /\ Len(front) = IF 1 <= n THEN n - 1 + 1 ELSE 0
          /\ \A k \in 1..n - 1 + 1 : front[k] = stack[1 + k - 1]
        BY <1>2, <2>1, <2>2, SubSeqProperties DEF W!Front
    <2> QED BY <2>1, <2>3
<1>5. stack[Len(stack)] \in Frames
    BY <1>1, ElementOfSeq
<1>6. top \in Frames /\ top.path = stack[Len(stack)].path
      /\ top.left = stack[Len(stack)].left \ {e}
    BY <1>1, <1>3, <1>5 DEF Frames
<1>7. W!Taken(e) = Append(front, top)
    BY <1>2, <1>3 DEF W!Taken
<1>8. /\ W!Taken(e) \in Seq(Frames) /\ Len(W!Taken(e)) = Len(stack)
      /\ W!Taken(e)[Len(stack)] = top /\ \A k \in 1..Len(stack) - 1 : W!Taken(e)[k] = front[k]
    <2>1. /\ Append(front, top) \in Seq(Frames) /\ Len(Append(front, top)) = Len(front) + 1
          /\ Append(front, top)[Len(front) + 1] = top
          /\ \A k \in 1..Len(front) : Append(front, top)[k] = front[k]
        BY <1>4, <1>6, AppendProperties
    <2>2. Len(front) + 1 = Len(stack)
        BY <1>1, <1>4
    <2>3. W!Taken(e) \in Seq(Frames) /\ Len(W!Taken(e)) = Len(stack)
        BY <1>7, <2>1, <2>2
    <2>4. W!Taken(e)[Len(stack)] = top
        BY <1>7, <2>1, <2>2
    <2>5. \A k \in 1..Len(stack) - 1 : W!Taken(e)[k] = front[k]
        BY <1>4, <1>7, <2>1
    <2> QED BY <2>3, <2>4, <2>5
<1>9. ASSUME NEW k \in 1..Len(stack)
      PROVE  /\ W!Taken(e)[k].path = stack[k].path
             /\ W!Taken(e)[k].left = IF k = Len(stack) THEN stack[k].left \ {e}
                                   ELSE stack[k].left
    <2>1. CASE k = Len(stack)
        BY <1>6, <1>8, <2>1
    <2>2. CASE k # Len(stack)
        <3>1. k \in 1..Len(stack) - 1
            BY <1>1, <2>2
        <3> QED BY <1>4, <1>8, <2>2, <3>1
    <2> QED BY <2>1, <2>2
<1> QED BY <1>8, <1>9

(* What pends when the entry was taken, ...                                *)
LEMMA TakenPends ==
    ASSUME WalkInv, NEW e, W!Takes(e)
    PROVE  \A p, d : PendsIn(W!Taken(e), p, d) <=> Pends(p, d) /\ ~(p = W!Path /\ d = e)
<1>1. \A k \in 1..Len(stack) : stack[k].path = W!Path <=> k = Len(stack)
    <2>1. \A k \in 1..Len(stack) : Len(stack[k].path) = k - 1
        BY DEF WalkInv, StackShape
    <2> QED BY <2>1, TopEntry
<1>0. /\ W!Taken(e) \in Seq(Frames) /\ Len(W!Taken(e)) = Len(stack)
      /\ \A k \in 1..Len(stack) :
            /\ W!Taken(e)[k].path = stack[k].path
            /\ W!Taken(e)[k].left = IF k = Len(stack) THEN stack[k].left \ {e}
                                  ELSE stack[k].left
    BY TakenStack
<1>2. PICK s : /\ s = W!Taken(e) /\ Len(s) = Len(stack)
               /\ \A k \in 1..Len(stack) :
                     /\ s[k].path = stack[k].path
                     /\ s[k].left = IF k = Len(stack) THEN stack[k].left \ {e}
                                    ELSE stack[k].left
    BY <1>0
<1>3. Len(stack) \in 1..Len(stack)
    BY TopEntry
<1>4. ASSUME NEW p, NEW d
      PROVE  PendsIn(s, p, d) <=> PendsIn(stack, p, d) /\ ~(p = W!Path /\ d = e)
    <2>1. ASSUME NEW k \in 1..Len(stack)
          PROVE  s[k].path = p /\ d \in s[k].left
                     <=> stack[k].path = p /\ d \in stack[k].left /\ ~(p = W!Path /\ d = e)
        BY <1>1, <1>2
    <2> QED BY <1>2, <2>1 DEF PendsIn
<1> QED BY <1>2, <1>4 DEF Pends

(* ... and when a directory was pushed.                                    *)
LEMMA PushedPends ==
    ASSUME NEW S, NEW frames \in Seq(S), NEW frame \in S
    PROVE  \A p, d : PendsIn(Append(frames, frame), p, d)
                         <=> PendsIn(frames, p, d) \/ (frame.path = p /\ d \in frame.left)
<1> DEFINE longer == Append(frames, frame)
<1>1. /\ Len(longer) = Len(frames) + 1 /\ longer[Len(frames) + 1] = frame
      /\ \A k \in 1..Len(frames) : longer[k] = frames[k]
    BY AppendProperties
<1>2. Len(frames) \in Nat
    OBVIOUS
<1> HIDE DEF longer
<1>3. \A k : k \in 1..Len(longer) <=> k \in 1..Len(frames) \/ k = Len(frames) + 1
    BY <1>1, <1>2
<1>4. \A p, d : PendsIn(longer, p, d)
                    <=> PendsIn(frames, p, d) \/ (frame.path = p /\ d \in frame.left)
    <2> SUFFICES ASSUME NEW p, NEW d
                 PROVE  PendsIn(longer, p, d)
                            <=> PendsIn(frames, p, d) \/ (frame.path = p /\ d \in frame.left)
        OBVIOUS
    <2>1. ASSUME PendsIn(longer, p, d)
          PROVE  PendsIn(frames, p, d) \/ (frame.path = p /\ d \in frame.left)
        <3>1. PICK k \in 1..Len(longer) : longer[k].path = p /\ d \in longer[k].left
            BY <2>1 DEF PendsIn
        <3>2. CASE k \in 1..Len(frames)
            BY <1>1, <3>1, <3>2 DEF PendsIn
        <3>3. CASE k = Len(frames) + 1
            BY <1>1, <3>1, <3>3
        <3> QED BY <1>3, <3>2, <3>3
    <2>2. ASSUME PendsIn(frames, p, d) PROVE PendsIn(longer, p, d)
        <3>1. PICK k \in 1..Len(frames) : frames[k].path = p /\ d \in frames[k].left
            BY <2>2 DEF PendsIn
        <3>2. k \in 1..Len(longer) /\ longer[k] = frames[k]
            BY <1>1, <1>3
        <3> QED BY <3>1, <3>2 DEF PendsIn
    <2>3. ASSUME frame.path = p, d \in frame.left PROVE PendsIn(longer, p, d)
        <3>1. Len(frames) + 1 \in 1..Len(longer)
            BY <1>3
        <3> QED BY <1>1, <2>3, <3>1 DEF PendsIn
    <2> QED BY <2>1, <2>2, <2>3
<1> QED BY <1>4 DEF longer

(* What the walk does with an entry e: it lists the directories G, names   *)
(* the directories N and the files M, and visits the inodes I.             *)
Below(e) == Append(W!Path, e.name)
Effect(e, G, N, M, I) ==
    /\ SameTree /\ walk' = walk
    /\ stack' = IF G = {} THEN W!Taken(e)
                ELSE Append(W!Taken(e),
                            [path |-> Below(e), left |-> W!Entries(W!Node(Below(e)))])
    /\ DOMAIN directories' = DOMAIN directories \cup G
    /\ \A p \in DOMAIN directories \ {W!Path} : directories'[p] = directories[p]
    /\ directories'[W!Path] = [dirs |-> directories[W!Path].dirs \cup N,
                             files |-> directories[W!Path].files \cup M]
    /\ \A p \in G : directories'[p] = W!Empty
    /\ visited' = visited \cup I
    /\ logged \subseteq logged'

(* Why it is right to.                                                     *)
Reasons(e, G, N, M, I) ==
    /\ M = IF e \in W!VisibleFiles(W!Path) THEN {e.name} ELSE {}
    /\ \/ N = {} /\ I = {}
       \/ /\ N = {e.name} /\ I = {W!Inode(W!Path, e)} /\ W!Inode(W!Path, e) \notin visited
          /\ e \in W!VisibleDirs(W!Path) /\ Below(e) \in G \cup logged'
    /\ \/ G = {}
       \/ /\ G = {Below(e)} /\ Len(stack) < MaxDepth
          /\ W!Node(Below(e)) \in DOMAIN fs.entries \ fs.unreadable
          /\ Below(e) \in logged' \/ N = {e.name}
    /\ e \in W!VisibleDirs(W!Path) /\ Len(W!Path) + 1 < MaxDepth =>
           Below(e) \in logged' \/ W!Inode(W!Path, e) \in visited \cup I

(* An effect with a reason keeps the invariant.                            *)
LEMMA EffectKeeps ==
    ASSUME WalkInv, NEW e, NEW G, NEW N, NEW M, NEW I, W!Takes(e),
           Effect(e, G, N, M, I), Reasons(e, G, N, M, I)
    PROVE  WalkInv'
<1>1. PICK P : P = W!Path
    OBVIOUS
<1>2. PICK q : q = Below(e)
    OBVIOUS
<1>3. /\ Len(stack) \in Nat \ {0} /\ P \in DOMAIN directories /\ P \in Seq(W!Names)
      /\ Len(P) = Len(stack) - 1 /\ e \in W!Entries(W!Node(P))
      /\ W!Node(P) \in DOMAIN fs.entries
      /\ e \in Everything /\ e.name \in W!Names /\ q = Append(P, e.name)
      /\ q \in Seq(W!Names) /\ Len(q) = Len(stack) /\ Pends(P, e) /\ q \notin DOMAIN directories
    BY <1>1, <1>2, TopEntry DEF Below
<1>4. /\ W!Names' = W!Names /\ Everything' = Everything /\ Frames' = Frames /\ fs' = fs
      /\ \A p : /\ W!Node(p)' = W!Node(p) /\ W!VisibleDirs(p)' = W!VisibleDirs(p)
                /\ W!VisibleFiles(p)' = W!VisibleFiles(p)
                /\ W!Entries(W!Node(p))' = W!Entries(W!Node(p))
      /\ \A p, d : W!Inode(p, d)' = W!Inode(p, d)
    BY TreeStays DEF Effect, SameTree
<1>5. G \subseteq {q} /\ (q \in G => W!Node(q) \in DOMAIN fs.entries \ fs.unreadable)
      /\ (q \in G => Len(stack) < MaxDepth)
    BY <1>2 DEF Reasons
<1>6. q \in G => [path |-> q, left |-> W!Entries(W!Node(q))] \in Frames
    BY <1>3, <1>5 DEF Frames, W!Entries, Everything
<1>7. /\ q \in G => stack' = Append(W!Taken(e), [path |-> q, left |-> W!Entries(W!Node(q))])
      /\ q \notin G => stack' = W!Taken(e)
    BY <1>2, <1>5 DEF Effect
<1>8. \A p, d : Pends(p, d)' <=> \/ Pends(p, d) /\ ~(p = P /\ d = e)
                                 \/ q \in G /\ p = q /\ d \in W!Entries(W!Node(q))
    <2>1. \A p, d : Pends(p, d)' <=> PendsIn(stack', p, d)
        BY DEF Pends
    <2>2. \A p, d : PendsIn(W!Taken(e), p, d) <=> Pends(p, d) /\ ~(p = P /\ d = e)
        BY <1>1, TakenPends
    <2>3. CASE q \notin G
        BY <1>7, <2>1, <2>2, <2>3
    <2>4. CASE q \in G
        <3>1. PICK f : f = [path |-> q, left |-> W!Entries(W!Node(q))]
            OBVIOUS
        <3>2. \A p, d : PendsIn(Append(W!Taken(e), f), p, d)
                            <=> PendsIn(W!Taken(e), p, d) \/ (f.path = p /\ d \in f.left)
            BY <1>6, <2>4, <3>1, TakenStack, PushedPends
        <3>3. stack' = Append(W!Taken(e), f) /\ f.path = q /\ f.left = W!Entries(W!Node(q))
            BY <1>7, <2>4, <3>1
        <3> QED BY <2>1, <2>2, <2>4, <3>2, <3>3
    <2> QED BY <2>3, <2>4
<1>9. /\ DOMAIN directories' = DOMAIN directories \cup G
      /\ \A p \in DOMAIN directories :
            /\ directories'[p].dirs = IF p = P THEN directories[p].dirs \cup N
                                      ELSE directories[p].dirs
            /\ directories'[p].files = IF p = P THEN directories[p].files \cup M
                                       ELSE directories[p].files
      /\ q \in G => directories'[q].dirs = {} /\ directories'[q].files = {}
      /\ visited' = visited \cup I /\ logged \subseteq logged'
    <2>1. directories'[P].dirs = directories[P].dirs \cup N
          /\ directories'[P].files = directories[P].files \cup M
        BY <1>1 DEF Effect
    <2>2. \A p \in DOMAIN directories \ {P} : directories'[p] = directories[p]
        BY <1>1 DEF Effect
    <2>3. q \in G => directories'[q].dirs = {} /\ directories'[q].files = {}
        BY DEF Effect, W!Empty
    <2>4. /\ DOMAIN directories' = DOMAIN directories \cup G
          /\ visited' = visited \cup I /\ logged \subseteq logged'
        BY DEF Effect
    <2> QED BY <2>1, <2>2, <2>3, <2>4
<1>10. /\ \A p \in DOMAIN directories : p \in Seq(W!Names) /\ p # q /\ Len(p) < MaxDepth
       /\ \A p \in DOMAIN directories' : p \in DOMAIN directories \/ (p = q /\ q \in G)
       /\ G = {} \/ q \in G
    BY <1>3, <1>5, <1>9 DEF WalkInv, Listed
<1>11. \A p \in DOMAIN directories : \A d, f \in W!Entries(W!Node(p)) : d.name = f.name => d = f
    BY TreeAssumption DEF WalkInv, Phases, Listed, W!Entries, W!File
<1>12. \A p \in Seq(W!Names), n \in W!Names : Append(p, n) = q <=> p = P /\ n = e.name
    BY <1>3, AppendInjective
<1>13. \A p : /\ W!VisibleDirs(p) \subseteq W!Entries(W!Node(p))
              /\ W!VisibleFiles(p) \subseteq W!Entries(W!Node(p))
    BY DEF W!VisibleDirs, W!VisibleFiles, W!Visible
<1>14. N \subseteq {e.name} /\ M \subseteq {e.name}
    BY DEF Reasons
<1>15. /\ \A p \in DOMAIN directories :
             W!Named(p)' = IF p = P /\ N # {} THEN W!Named(p) \cup {e} ELSE W!Named(p)
       /\ q \in G => W!Named(q)' = {}
       /\ N # {} => N = {e.name} /\ e \in W!VisibleDirs(P)
    <2>1. N # {} => N = {e.name} /\ e \in W!VisibleDirs(P)
        BY <1>1 DEF Reasons
    <2>2. \A p : W!Named(p)' = {d \in W!VisibleDirs(p) : d.name \in directories'[p].dirs}
        BY <1>4 DEF W!Named
    <2>3. ASSUME NEW p \in DOMAIN directories
          PROVE  W!Named(p)' = IF p = P /\ N # {} THEN W!Named(p) \cup {e} ELSE W!Named(p)
        <3>1. CASE p = P /\ N # {}
            <4>1. \A d \in W!VisibleDirs(P) : d.name = e.name <=> d = e
                BY <1>3, <1>11, <1>13
            <4>2. /\ directories'[P].dirs = directories[P].dirs \cup {e.name}
                  /\ e \in W!VisibleDirs(P)
                BY <1>3, <1>9, <2>1, <3>1
            <4>3. \A d \in W!VisibleDirs(P) : d.name \in directories'[P].dirs
                                               <=> d.name \in directories[P].dirs \/ d = e
                BY <4>1, <4>2
            <4> QED BY <2>2, <3>1, <4>2, <4>3 DEF W!Named
        <3>2. CASE ~(p = P /\ N # {})
            BY <1>9, <2>2, <3>2 DEF W!Named
        <3> QED BY <3>1, <3>2
    <2> QED BY <1>9, <2>1, <2>2, <2>3
<1>20. Phases'
    BY DEF Effect, SameTree, WalkInv, Phases, W!Takes
<1>21. StackShape'
    <2>1. /\ W!Taken(e) \in Seq(Frames) /\ Len(W!Taken(e)) = Len(stack)
          /\ \A k \in 1..Len(stack) :
                /\ Len(W!Taken(e)[k].path) = k - 1 /\ W!Taken(e)[k].path \in DOMAIN directories'
                /\ W!Taken(e)[k].left \subseteq W!Entries(W!Node(W!Taken(e)[k].path))
        BY <1>9, TakenStack DEF WalkInv, StackShape
    <2>2. CASE q \notin G
        BY <1>4, <1>7, <2>1, <2>2 DEF WalkInv, StackShape
    <2>3. CASE q \in G
        <3>1. PICK f : f = [path |-> q, left |-> W!Entries(W!Node(q))]
            OBVIOUS
        <3>2. /\ f.path = q /\ f.left = W!Entries(W!Node(q)) /\ f \in Frames
              /\ stack' = Append(W!Taken(e), f)
            BY <1>6, <1>7, <2>3, <3>1
        <3>3. /\ stack' \in Seq(Frames) /\ Len(stack') = Len(stack) + 1
              /\ stack'[Len(stack) + 1] = f
              /\ \A k \in 1..Len(stack) : stack'[k] = W!Taken(e)[k]
            BY <2>1, <3>2, AppendProperties
        <3>4. Len(stack') <= MaxDepth
            BY <1>3, <1>5, <2>3, <3>3, TreeAssumption
        <3>5. ASSUME NEW k \in 1..Len(stack')
              PROVE  /\ Len(stack'[k].path) = k - 1 /\ stack'[k].path \in DOMAIN directories'
                     /\ stack'[k].left \subseteq W!Entries(W!Node(stack'[k].path))
            <4>1. CASE k \in 1..Len(stack)
                BY <2>1, <3>3, <4>1
            <4>2. CASE k = Len(stack) + 1
                <5>1. stack'[k] = f /\ Len(q) = k - 1
                    BY <1>3, <3>3, <4>2
                <5>2. q \in DOMAIN directories'
                    BY <1>9, <2>3
                <5> QED BY <3>2, <5>1, <5>2
            <4> QED BY <1>3, <3>3, <4>1, <4>2
        <3> QED BY <1>4, <3>3, <3>4, <3>5 DEF StackShape
    <2> QED BY <2>2, <2>3
<1>22. Listed'
    <2>1. ASSUME NEW p \in DOMAIN directories'
          PROVE  directories'[p] \in [dirs : SUBSET W!Names, files : SUBSET W!Names]
        <3>1. CASE p = q /\ q \in G
            BY <1>2, <3>1 DEF Effect, W!Empty
        <3>2. CASE p = P
            <4>1. /\ directories[P].dirs \subseteq W!Names
                  /\ directories[P].files \subseteq W!Names
                BY <1>3 DEF WalkInv, Listed
            <4> QED BY <1>1, <1>3, <1>14, <3>2, <4>1 DEF Effect
        <3>3. CASE p \in DOMAIN directories \ {P}
            BY <1>1, <3>3 DEF Effect, WalkInv, Listed
        <3> QED BY <1>10, <3>1, <3>2, <3>3
    <2> QED BY <1>3, <1>4, <1>5, <1>10, <2>1 DEF WalkInv, Listed
<1>23. ParentsName'
    <2>1. q \in G => q \in logged' \/ N = {e.name}
        BY <1>2 DEF Reasons
    <2>2. ASSUME NEW p \in DOMAIN directories
          PROVE  \/ p = <<>>
                 \/ \E r \in DOMAIN directories', n \in W!Names :
                       p = Append(r, n) /\ (p \in logged' \/ n \in directories'[r].dirs)
        BY <1>9 DEF WalkInv, ParentsName
    <2>3. ASSUME q \in G
          PROVE  \E r \in DOMAIN directories', n \in W!Names :
                    q = Append(r, n) /\ (q \in logged' \/ n \in directories'[r].dirs)
        BY <1>3, <1>9, <2>1, <2>3
    <2> QED BY <1>4, <1>10, <2>2, <2>3 DEF ParentsName
<1>24. FilesTaken'
    <2>1. M = IF e \in W!VisibleFiles(P) THEN {e.name} ELSE {}
        BY <1>1 DEF Reasons
    <2>2. \A p \in DOMAIN directories :
             directories[p].files = W!NamesOf({d \in W!VisibleFiles(p) : ~Pends(p, d)})
        BY DEF WalkInv, FilesTaken
    <2>3. ASSUME NEW p \in DOMAIN directories
          PROVE  directories'[p].files = W!NamesOf({d \in W!VisibleFiles(p) : ~Pends(p, d)'})
        <3>1. CASE p = P
            <4>1. {d \in W!VisibleFiles(P) : ~Pends(P, d)'}
                     = {d \in W!VisibleFiles(P) : ~Pends(P, d)}
                           \cup ({e} \cap W!VisibleFiles(P))
                BY <1>3, <1>8
            <4>2. W!NamesOf({d \in W!VisibleFiles(P) : ~Pends(P, d)}
                                \cup ({e} \cap W!VisibleFiles(P)))
                     = W!NamesOf({d \in W!VisibleFiles(P) : ~Pends(P, d)}) \cup M
                BY <2>1 DEF W!NamesOf
            <4> QED BY <1>9, <2>2, <3>1, <4>1, <4>2
        <3>2. CASE p # P
            <4>1. \A d : Pends(p, d)' <=> Pends(p, d)
                BY <1>8, <1>10, <3>2
            <4>2. {d \in W!VisibleFiles(p) : ~Pends(p, d)'}
                     = {d \in W!VisibleFiles(p) : ~Pends(p, d)}
                BY <4>1
            <4> QED BY <1>9, <2>2, <3>2, <4>2
        <3> QED BY <3>1, <3>2
    <2>4. ASSUME q \in G
          PROVE  directories'[q].files = W!NamesOf({d \in W!VisibleFiles(q) : ~Pends(q, d)'})
        <3>1. {d \in W!VisibleFiles(q) : ~Pends(q, d)'} = {}
            BY <1>8, <1>13, <2>4
        <3> QED BY <1>9, <2>4, <3>1 DEF W!NamesOf
    <2> QED BY <1>4, <1>10, <2>3, <2>4 DEF FilesTaken
<1>25. DirsTaken'
    <2>1. \A p \in DOMAIN directories : \A n \in directories[p].dirs :
             \E d \in W!VisibleDirs(p) : ~Pends(p, d) /\ n = d.name
        BY DEF WalkInv, DirsTaken, W!NamesOf
    <2>2. ASSUME NEW p \in DOMAIN directories, NEW n \in directories'[p].dirs
          PROVE  \E d \in W!VisibleDirs(p) : ~Pends(p, d)' /\ n = d.name
        <3>1. \A d : ~Pends(p, d) => ~Pends(p, d)'
            BY <1>8, <1>10
        <3>2. ~Pends(P, e)'
            BY <1>3, <1>8
        <3>3. CASE n \in directories[p].dirs
            BY <2>1, <3>1, <3>3
        <3>4. CASE n \notin directories[p].dirs
            <4>1. p = P /\ n \in N
                BY <1>9, <2>2, <3>4
            <4>2. n = e.name /\ e \in W!VisibleDirs(P)
                BY <1>15, <4>1
            <4> QED BY <3>2, <4>1, <4>2
        <3> QED BY <3>3, <3>4
    <2>3. q \in G => directories'[q].dirs = {}
        BY <1>9
    <2>4. ASSUME NEW p \in DOMAIN directories', NEW n \in directories'[p].dirs
          PROVE  \E d \in W!VisibleDirs(p) : ~Pends(p, d)' /\ n = d.name
        BY <1>10, <2>2, <2>3
    <2> QED BY <1>4, <2>4 DEF DirsTaken, W!NamesOf
<1>26. NotAhead'
    <2>1. ASSUME NEW p \in DOMAIN directories', NEW d \in Everything, Pends(p, d)'
          PROVE  Append(p, d.name) \notin DOMAIN directories'
        <3>1. d.name \in W!Names
            BY DEF Everything, W!Names
        <3>2. CASE Pends(p, d) /\ ~(p = P /\ d = e) /\ p \in DOMAIN directories
            <4>1. Append(p, d.name) \notin DOMAIN directories
                BY <3>2 DEF WalkInv, NotAhead
            <4>2. Append(p, d.name) # q
                <5>1. CASE p # P
                    BY <1>10, <1>12, <3>1, <3>2, <5>1
                <5>2. CASE p = P
                    <6>1. d \in W!Entries(W!Node(P))
                        BY <3>2, <5>2 DEF WalkInv, StackShape, Pends, PendsIn
                    <6>2. d.name # e.name
                        BY <1>3, <1>11, <3>2, <5>2, <6>1
                    <6> QED BY <1>10, <1>12, <3>1, <3>2, <6>2
                <5> QED BY <5>1, <5>2
            <4> QED BY <1>10, <4>1, <4>2
        <3>3. CASE p = q /\ q \in G
            <4>1. Append(q, d.name) # q
                <5>1. Len(Append(q, d.name)) = Len(q) + 1 /\ Len(q) \in Nat
                    BY <1>3, <3>1, AppendProperties
                <5> QED BY <5>1
            <4>2. ASSUME Append(q, d.name) \in DOMAIN directories PROVE FALSE
                <5>1. Append(q, d.name) # <<>>
                    BY <1>3, <3>1, AppendProperties
                <5>2. PICK r \in DOMAIN directories, n \in W!Names :
                         Append(q, d.name) = Append(r, n)
                    BY <4>2, <5>1 DEF WalkInv, ParentsName
                <5>3. r \in Seq(W!Names) /\ q \in Seq(W!Names) /\ d.name \in W!Names
                    BY <1>3, <1>10, <3>1
                <5>4. r = q
                    BY <5>2, <5>3, AppendInjective
                <5> QED BY <1>3, <5>4
            <4> QED BY <1>10, <3>3, <4>1, <4>2
        <3>4. p = q => p \notin DOMAIN directories
            BY <1>3
        <3> QED BY <1>8, <1>10, <2>1, <3>2, <3>3, <3>4
    <2> QED BY <1>4, <2>1 DEF NotAhead
<1>27. DirsReached'
    BY <1>1, <1>2, <1>3, <1>9, <1>10, <1>15 DEF WalkInv, DirsReached, Reasons
<1>28. VisitedAreNamed'
    <2>1. \A p, i : W!NamesInode(p, i)' <=> \E d \in W!Named(p)' : W!Inode(p, d) = i
        BY <1>4 DEF W!NamesInode
    <2>2. ASSUME NEW i \in visited PROVE \E p \in DOMAIN directories' : W!NamesInode(p, i)'
        <3>1. PICK p \in DOMAIN directories : W!NamesInode(p, i)
            BY DEF WalkInv, VisitedAreNamed
        <3>2. PICK d \in W!Named(p) : W!Inode(p, d) = i
            BY <3>1 DEF W!NamesInode
        <3>3. d \in W!Named(p)' /\ p \in DOMAIN directories'
            BY <1>9, <1>15
        <3> QED BY <2>1, <3>2, <3>3
    <2>3. ASSUME NEW i \in I PROVE \E p \in DOMAIN directories' : W!NamesInode(p, i)'
        <3>1. N # {} /\ i = W!Inode(P, e)
            BY <1>1 DEF Reasons
        <3>2. e \in W!Named(P)' /\ P \in DOMAIN directories'
            BY <1>3, <1>9, <1>15, <3>1
        <3> QED BY <2>1, <3>1, <3>2
    <2> QED BY <1>9, <2>2, <2>3 DEF VisitedAreNamed
<1>29. NamedAreVisited'
    <2>1. N # {} => W!Inode(P, e) \in I
        BY <1>1 DEF Reasons
    <2>2. \A p \in DOMAIN directories : \A d \in W!Named(p) : W!Inode(p, d) \in visited
        BY DEF WalkInv, NamedAreVisited
    <2>3. ASSUME NEW p \in DOMAIN directories', NEW d \in W!Named(p)'
          PROVE  W!Inode(p, d) \in visited \cup I
        BY <1>10, <1>15, <2>1, <2>2
    <2> QED BY <1>4, <1>9, <2>3 DEF NamedAreVisited
<1>30. W!NamedOnce'
    <2>1. N # {} => W!Inode(P, e) \notin visited
        BY <1>1 DEF Reasons
    <2>2. \A p \in DOMAIN directories : \A d \in W!Named(p) : W!Inode(p, d) \in visited
        BY DEF WalkInv, NamedAreVisited
    <2>3. ASSUME NEW p \in DOMAIN directories', NEW r \in DOMAIN directories',
                 NEW d \in W!Named(p)', NEW f \in W!Named(r)', W!Inode(p, d) = W!Inode(r, f)
          PROVE  p = r /\ d = f
        <3>1. p \in DOMAIN directories /\ r \in DOMAIN directories
            BY <1>10, <1>15
        <3>2. /\ d \in W!Named(p) \/ (p = P /\ d = e /\ N # {})
              /\ f \in W!Named(r) \/ (r = P /\ f = e /\ N # {})
            BY <1>15, <3>1
        <3>3. CASE d \in W!Named(p) /\ f \in W!Named(r)
            BY <2>3, <3>1, <3>3 DEF WalkInv, W!NamedOnce
        <3> QED BY <2>1, <2>2, <2>3, <3>1, <3>2, <3>3
    <2> QED BY <1>4, <2>3 DEF W!NamedOnce
<1>31. TakenAreSeen'
    <2>1. e \in W!VisibleDirs(P) /\ Len(P) + 1 < MaxDepth
              => q \in logged' \/ W!Inode(P, e) \in visited \cup I
        BY <1>1, <1>2 DEF Reasons
    <2>2. ASSUME NEW p \in DOMAIN directories, Len(p) + 1 < MaxDepth, NEW d \in W!VisibleDirs(p)
          PROVE  \/ Pends(p, d)' \/ Append(p, d.name) \in logged'
                 \/ W!Inode(p, d) \in visited \cup I
        <3>1. CASE p = P /\ d = e
            BY <1>3, <2>1, <2>2, <3>1
        <3>2. CASE ~(p = P /\ d = e)
            BY <1>8, <1>9, <2>2, <3>2 DEF WalkInv, TakenAreSeen
        <3> QED BY <3>1, <3>2
    <2>3. q \in G => \A d \in W!VisibleDirs(q) : Pends(q, d)'
        BY <1>8, <1>13
    <2> QED BY <1>4, <1>9, <1>10, <2>2, <2>3 DEF TakenAreSeen
<1> QED BY <1>20, <1>21, <1>22, <1>23, <1>24, <1>25, <1>26, <1>27, <1>28, <1>29, <1>30, <1>31
        DEF WalkInv

(* The invariant holds before the walk, ...                                *)
LEMMA InitWalk == W!Init => WalkInv
<1> SUFFICES ASSUME W!Init PROVE WalkInv
    OBVIOUS
<1>1. /\ stack = <<>> /\ Len(stack) = 0 /\ DOMAIN directories = {} /\ visited = {}
      /\ fs \in FileSystems /\ follows \in BOOLEAN /\ walk = "none"
    BY DEF W!Init
<1>2. Phases
    BY Zenon, <1>1 DEF Phases
<1>3. StackShape
    BY <1>1, TreeAssumption DEF StackShape
<1> QED BY <1>1, <1>2, <1>3 DEF WalkInv, Listed, ParentsName, FilesTaken, DirsTaken, NotAhead,
        DirsReached, VisitedAreNamed, NamedAreVisited, W!NamedOnce, TakenAreSeen

(* ... when it starts, with the root or with nothing on the stack, ...     *)
LEMMA WalkStarts == WalkInv /\ W!Start => WalkInv'
<1> SUFFICES ASSUME WalkInv, W!Start PROVE WalkInv'
    OBVIOUS
<1>1. /\ SameTree /\ walk = "none" /\ walk' = "walking" /\ visited' = {} /\ stack = <<>>
      /\ DOMAIN directories = {} /\ fs \in FileSystems /\ follows \in BOOLEAN
      /\ W!Push(<<>>, <<>>, directories, {})
    BY DEF W!Start, SameTree, WalkInv, Phases
<1>2. /\ W!Names' = W!Names /\ Everything' = Everything /\ Frames' = Frames /\ fs' = fs
      /\ \A p : /\ W!Node(p)' = W!Node(p) /\ W!VisibleDirs(p)' = W!VisibleDirs(p)
                /\ W!VisibleFiles(p)' = W!VisibleFiles(p)
                /\ W!Entries(W!Node(p))' = W!Entries(W!Node(p))
    BY <1>1, TreeStays DEF SameTree
<1>3. Phases'
    BY <1>1 DEF SameTree, Phases
<1>4. CASE W!Node(<<>>) \in DOMAIN fs.entries \ fs.unreadable
    <2>1. PICK f : f = [path |-> <<>>, left |-> W!Entries(W!Node(<<>>))]
        OBVIOUS
    <2>2. /\ f \in Frames /\ f.path = <<>> /\ f.left = W!Entries(W!Node(<<>>))
        BY <1>4, <2>1 DEF Frames, W!Entries, Everything
    <2>3. /\ stack' = <<f>> /\ stack' \in Seq(Frames) /\ Len(stack') = 1 /\ stack'[1] = f
        <3>1. stack' = Append(<<>>, f)
            BY <1>1, <1>4, <2>1 DEF W!Push
        <3> QED BY <2>2, <3>1
    <2>4. /\ DOMAIN directories' = {<<>>} /\ directories'[<<>>].dirs = {}
          /\ directories'[<<>>].files = {} /\ directories'[<<>>] = W!Empty
        BY <1>1, <1>4 DEF W!Push, W!Empty
    <2>5. \A d : PendsIn(stack', <<>>, d) <=> d \in W!Entries(W!Node(<<>>))
        BY <2>2, <2>3 DEF PendsIn
    <2>6. StackShape'
        BY <1>2, <2>2, <2>3, <2>4, TreeAssumption DEF StackShape
    <2>7. Listed' /\ ParentsName'
        BY <1>2, <1>4, <2>4, TreeAssumption DEF Listed, ParentsName, W!Empty
    <2>8. W!Named(<<>>)' = {}
        BY <1>2, <2>4 DEF W!Named
    <2>9. /\ W!VisibleDirs(<<>>) \subseteq W!Entries(W!Node(<<>>))
          /\ W!VisibleFiles(<<>>) \subseteq W!Entries(W!Node(<<>>))
        BY DEF W!VisibleDirs, W!VisibleFiles, W!Visible
    <2>10. FilesTaken' /\ DirsTaken' /\ TakenAreSeen'
        BY <1>2, <2>4, <2>5, <2>9 DEF FilesTaken, DirsTaken, TakenAreSeen, W!NamesOf, Pends
    <2>11. NotAhead' /\ DirsReached'
        <3>1. \A d \in Everything : Append(<<>>, d.name) # <<>>
            OBVIOUS
        <3> QED BY <1>2, <2>4, <3>1 DEF NotAhead, DirsReached
    <2>12. VisitedAreNamed' /\ NamedAreVisited' /\ W!NamedOnce'
        BY <1>1, <2>4, <2>8 DEF VisitedAreNamed, NamedAreVisited, W!NamedOnce
    <2> QED BY <1>3, <2>6, <2>7, <2>10, <2>11, <2>12 DEF WalkInv
<1>5. CASE W!Node(<<>>) \notin DOMAIN fs.entries \ fs.unreadable
    <2>1. stack' = <<>> /\ Len(stack') = 0 /\ DOMAIN directories' = {}
        BY <1>1, <1>5 DEF W!Push
    <2>2. StackShape'
        BY <2>1, TreeAssumption DEF StackShape
    <2> QED BY <1>1, <1>3, <2>1, <2>2 DEF WalkInv, Listed, ParentsName, FilesTaken, DirsTaken,
            NotAhead, DirsReached, VisitedAreNamed, NamedAreVisited, W!NamedOnce, TakenAreSeen
<1> QED BY <1>4, <1>5

(* ... when an empty frame is popped, since the same entries pend, ...     *)
LEMMA WalkPops == WalkInv /\ W!Pop => WalkInv'
<1> SUFFICES ASSUME WalkInv, W!Pop PROVE WalkInv'
    OBVIOUS
<1>1. /\ SameTree /\ walk = "walking" /\ walk' = walk /\ stack # <<>>
      /\ directories' = directories /\ visited' = visited /\ logged' = logged
      /\ stack' = W!Front(stack) /\ W!Last(stack).left = {}
    BY DEF W!Pop, SameTree
<1>2. /\ W!Names' = W!Names /\ Everything' = Everything /\ Frames' = Frames /\ fs' = fs
      /\ \A p : /\ W!Node(p)' = W!Node(p) /\ W!VisibleDirs(p)' = W!VisibleDirs(p)
                /\ W!VisibleFiles(p)' = W!VisibleFiles(p)
                /\ W!Entries(W!Node(p))' = W!Entries(W!Node(p))
      /\ \A p, d : W!Inode(p, d)' = W!Inode(p, d)
    BY <1>1, TreeStays DEF SameTree
<1>3. stack \in Seq(Frames) /\ Len(stack) \in Nat \ {0} /\ stack[Len(stack)].left = {}
    BY <1>1, EmptySeq, LenProperties DEF WalkInv, StackShape, W!Last
<1>4. PICK n \in Nat : n = Len(stack) - 1
    BY <1>3
<1>5. /\ stack' \in Seq(Frames) /\ Len(stack') = n /\ \A k \in 1..n : stack'[k] = stack[k]
    <2>1. \A k \in 1..n : stack[k] \in Frames
        BY <1>3, <1>4, ElementOfSeq
    <2>2. /\ stack' \in Seq(Frames) /\ Len(stack') = IF 1 <= n THEN n - 1 + 1 ELSE 0
          /\ \A k \in 1..n - 1 + 1 : stack'[k] = stack[1 + k - 1]
        BY <1>1, <1>4, <2>1, SubSeqProperties DEF W!Front
    <2> QED BY <1>4, <2>2
<1>6. \A p, d : PendsIn(stack', p, d) <=> PendsIn(stack, p, d)
    <2> SUFFICES ASSUME NEW p, NEW d
                 PROVE  PendsIn(stack', p, d) <=> PendsIn(stack, p, d)
        OBVIOUS
    <2>1. PendsIn(stack', p, d) => PendsIn(stack, p, d)
        BY <1>3, <1>4, <1>5 DEF PendsIn
    <2>2. ASSUME PendsIn(stack, p, d) PROVE PendsIn(stack', p, d)
        <3>1. PICK k \in 1..Len(stack) : stack[k].path = p /\ d \in stack[k].left
            BY <2>2 DEF PendsIn
        <3>2. k \in 1..n
            BY <1>3, <1>4, <3>1
        <3> QED BY <1>5, <3>1, <3>2 DEF PendsIn
    <2> QED BY <2>1, <2>2
<1>7. Phases' /\ Listed' /\ ParentsName' /\ DirsReached'
    BY <1>1, <1>2 DEF WalkInv, Phases, Listed, ParentsName, DirsReached, SameTree
<1>8. StackShape'
    <2>1. /\ Len(stack) <= MaxDepth
          /\ \A k \in 1..Len(stack) :
                /\ Len(stack[k].path) = k - 1 /\ stack[k].path \in DOMAIN directories
                /\ stack[k].left \subseteq W!Entries(W!Node(stack[k].path))
        BY DEF WalkInv, StackShape
    <2>2. Len(stack') <= MaxDepth /\ \A k \in 1..Len(stack') : k \in 1..Len(stack)
        BY <1>3, <1>4, <1>5, <2>1, TreeAssumption
    <2>3. \A k \in 1..Len(stack') :
             /\ Len(stack'[k].path) = k - 1 /\ stack'[k].path \in DOMAIN directories'
             /\ stack'[k].left \subseteq W!Entries(W!Node(stack'[k].path))
        BY <1>1, <1>5, <2>1, <2>2
    <2> QED BY <1>2, <1>5, <2>2, <2>3 DEF StackShape
<1>9. \A p, d : Pends(p, d)' <=> Pends(p, d)
    BY <1>6 DEF Pends
<1>10. FilesTaken' /\ DirsTaken'
    BY <1>1, <1>2, <1>9 DEF WalkInv, FilesTaken, DirsTaken, W!NamesOf
<1>11. NotAhead' /\ TakenAreSeen'
    BY <1>1, <1>2, <1>9 DEF WalkInv, NotAhead, TakenAreSeen
<1>12. \A p : W!Named(p)' = W!Named(p)
    BY <1>1, <1>2 DEF W!Named
<1>13. VisitedAreNamed' /\ NamedAreVisited' /\ W!NamedOnce'
    BY <1>1, <1>2, <1>12
    DEF WalkInv, VisitedAreNamed, NamedAreVisited, W!NamedOnce, W!NamesInode
<1> QED BY <1>7, <1>8, <1>10, <1>11, <1>13 DEF WalkInv

(* ... and when the listing is as it was.                                  *)
LEMMA WalkRests ==
    ASSUME WalkInv, SameTree, stack' = stack, directories' = directories, visited' = visited,
           logged' = logged, walk' = walk \/ (walk = "none" /\ walk' = "raised")
               \/ (stack = <<>> /\ walk' = "done")
    PROVE  WalkInv'
<1>2. /\ W!Names' = W!Names /\ Everything' = Everything /\ Frames' = Frames /\ fs' = fs
      /\ \A p : /\ W!Node(p)' = W!Node(p) /\ W!VisibleDirs(p)' = W!VisibleDirs(p)
                /\ W!VisibleFiles(p)' = W!VisibleFiles(p)
                /\ W!Entries(W!Node(p))' = W!Entries(W!Node(p))
      /\ \A p, d : W!Inode(p, d)' = W!Inode(p, d)
    BY TreeStays DEF SameTree
<1>3. Phases'
    BY DEF WalkInv, Phases, SameTree
<1>4. (Listed /\ ParentsName /\ DirsReached /\ StackShape)'
    BY <1>2 DEF WalkInv, Listed, ParentsName, DirsReached, StackShape
<1>9. \A p, d : Pends(p, d)' <=> Pends(p, d)
    BY DEF Pends, PendsIn
<1>10. FilesTaken' /\ DirsTaken'
    BY <1>2, <1>9 DEF WalkInv, FilesTaken, DirsTaken, W!NamesOf
<1>11. NotAhead' /\ TakenAreSeen'
    BY <1>2, <1>9 DEF WalkInv, NotAhead, TakenAreSeen
<1>12. \A p : W!Named(p)' = W!Named(p)
    BY <1>2 DEF W!Named
<1>13. VisitedAreNamed' /\ NamedAreVisited' /\ W!NamedOnce'
    BY <1>2, <1>12 DEF WalkInv, VisitedAreNamed, NamedAreVisited, W!NamedOnce, W!NamesInode
<1> QED BY <1>3, <1>4, <1>10, <1>11, <1>13 DEF WalkInv

(* What the entry that is taken shows.  Each step that takes one is an     *)
(* effect with a reason.                                                   *)
LEMMA Shows ==
    ASSUME WalkInv, NEW e, W!Takes(e)
    PROVE  /\ e \in W!VisibleDirs(W!Path) <=> e.name \notin Hidden /\ W!IsDir(e)
           /\ e \in W!VisibleFiles(W!Path) <=> e.name \notin Hidden /\ W!IsFile(e)
           /\ ~(W!IsDir(e) /\ W!IsFile(e))
           /\ directories[W!Path] = [dirs |-> directories[W!Path].dirs,
                                     files |-> directories[W!Path].files]
           /\ Below(e) \notin DOMAIN directories /\ W!Path \in DOMAIN directories
           /\ Len(stack) \in Nat /\ Len(W!Path) + 1 = Len(stack)
<1>1. e \in W!Entries(W!Node(W!Path)) /\ W!Path \in DOMAIN directories
    BY TopEntry
<1>2. ~(W!IsDir(e) /\ W!IsFile(e))
    BY TreeAssumption DEF WalkInv, Phases, W!IsDir, W!IsFile, W!File
<1>3. directories[W!Path] \in [dirs : SUBSET W!Names, files : SUBSET W!Names]
    BY <1>1 DEF WalkInv, Listed
<1> QED BY <1>1, <1>2, <1>3, TopEntry DEF W!VisibleDirs, W!VisibleFiles, W!Visible, Below

LEMMA SkipKeeps ==
    ASSUME WalkInv, NEW e,
           \/ W!SkipHidden(e) \/ W!SkipOther(e) \/ W!SkipDeep(e) \/ W!SkipVisited(e)
    PROVE  WalkInv'
<1>1. /\ W!Takes(e) /\ stack' = W!Taken(e)
      /\ UNCHANGED <<fs, follows, walk, directories, visited, logged>>
    BY DEF W!SkipHidden, W!SkipOther, W!SkipDeep, W!SkipVisited, W!Ignore
<1>2. Effect(e, {}, {}, {}, {})
    BY <1>1, Shows DEF Effect, SameTree
<1>3. e \notin W!VisibleFiles(W!Path)
    BY <1>1, Shows DEF W!SkipHidden, W!SkipOther, W!SkipDeep, W!SkipVisited, W!Shown, W!Enters
<1>4. e \in W!VisibleDirs(W!Path) /\ Len(W!Path) + 1 < MaxDepth
          => W!Inode(W!Path, e) \in visited
    <2>1. W!SkipHidden(e) \/ W!SkipOther(e) => e \notin W!VisibleDirs(W!Path)
        BY <1>1, Shows DEF W!SkipHidden, W!SkipOther, W!Shown
    <2>2. W!SkipDeep(e) => ~(Len(W!Path) + 1 < MaxDepth)
        BY <1>1, Shows, TreeAssumption DEF W!SkipDeep, W!Deep
    <2>3. W!SkipVisited(e) => W!Inode(W!Path, e) \in visited
        BY DEF W!SkipVisited
    <2> QED BY <2>1, <2>2, <2>3
<1>5. Reasons(e, {}, {}, {}, {})
    BY <1>3, <1>4 DEF Reasons
<1> QED BY <1>1, <1>2, <1>5, EffectKeeps

LEMMA FileKeeps ==
    ASSUME WalkInv, NEW e, W!ListFile(e)
    PROVE  WalkInv'
<1>1. /\ W!Takes(e) /\ W!Shown(e) /\ W!IsFile(e) /\ stack' = W!Taken(e)
      /\ directories' = [directories EXCEPT ![W!Path].files = @ \cup {e.name}]
      /\ UNCHANGED <<fs, follows, walk, visited, logged>>
    BY DEF W!ListFile
<1>2. /\ DOMAIN directories' = DOMAIN directories
      /\ \A p \in DOMAIN directories \ {W!Path} : directories'[p] = directories[p]
      /\ directories'[W!Path] = [dirs |-> directories[W!Path].dirs,
                                 files |-> directories[W!Path].files \cup {e.name}]
    BY <1>1, Shows
<1>3. Effect(e, {}, {}, {e.name}, {})
    BY <1>1, <1>2 DEF Effect, SameTree
<1>4. Reasons(e, {}, {}, {e.name}, {})
    BY <1>1, Shows DEF Reasons, W!Shown
<1> QED BY <1>1, <1>3, <1>4, EffectKeeps

(* What push_directory does for an entry.                                  *)
LEMMA PushLists ==
    ASSUME WalkInv, NEW e, W!Enters(e), NEW N, NEW I, NEW listed, NEW errors,
           DOMAIN listed = DOMAIN directories,
           \A p \in DOMAIN directories \ {W!Path} : listed[p] = directories[p],
           listed[W!Path] = [dirs |-> directories[W!Path].dirs \cup N,
                             files |-> directories[W!Path].files],
           W!Push(Below(e), W!Taken(e), listed, errors),
           SameTree, walk' = walk, visited' = visited \cup I
    PROVE  \E G \in SUBSET {Below(e)} :
              /\ Effect(e, G, N, {}, I)
              /\ errors \subseteq logged' /\ Below(e) \in G \cup logged'
              /\ G # {} => W!Node(Below(e)) \in DOMAIN fs.entries \ fs.unreadable
<1>1. W!Takes(e)
    BY DEF W!Enters
<1>2. Below(e) \notin DOMAIN directories /\ W!Path \in DOMAIN directories
    BY <1>1, Shows
<1>3. CASE W!Node(Below(e)) \in DOMAIN fs.entries \ fs.unreadable
    <2>1. /\ stack' = Append(W!Taken(e),
                             [path |-> Below(e), left |-> W!Entries(W!Node(Below(e)))])
          /\ directories' = [p \in DOMAIN listed \cup {Below(e)} |->
                               IF p = Below(e) THEN W!Empty ELSE listed[p]]
          /\ logged' = logged \cup errors
        BY <1>3 DEF W!Push
    <2>2. Effect(e, {Below(e)}, N, {}, I)
        BY <1>2, <2>1 DEF Effect
    <2> QED BY <1>3, <2>1, <2>2
<1>4. CASE W!Node(Below(e)) \notin DOMAIN fs.entries \ fs.unreadable
    <2>1. /\ stack' = W!Taken(e) /\ directories' = listed
          /\ logged' = logged \cup errors \cup {Below(e)}
        BY <1>4 DEF W!Push
    <2>2. Effect(e, {}, N, {}, I)
        BY <1>2, <2>1 DEF Effect
    <2> QED BY <2>1, <2>2
<1> QED BY <1>3, <1>4

LEMMA DirectoryKeeps ==
    ASSUME WalkInv, NEW e, W!ListDirectory(e)
    PROVE  WalkInv'
<1>1. /\ W!Enters(e) /\ W!Inode(W!Path, e) \notin visited
      /\ visited' = visited \cup {W!Inode(W!Path, e)}
      /\ W!Push(Below(e), W!Taken(e),
                [directories EXCEPT ![W!Path].dirs = @ \cup {e.name}], {})
      /\ SameTree /\ walk' = walk
    BY DEF W!ListDirectory, W!Mark, W!Join, Below, SameTree
<1>2. /\ W!Takes(e) /\ W!IsDir(e) /\ e.name \notin Hidden /\ ~(Len(stack) >= MaxDepth)
    BY <1>1 DEF W!Enters, W!Shown, W!Deep
<1>3. PICK listed : listed = [directories EXCEPT ![W!Path].dirs = @ \cup {e.name}]
    OBVIOUS
<1>4. /\ DOMAIN listed = DOMAIN directories
      /\ \A p \in DOMAIN directories \ {W!Path} : listed[p] = directories[p]
      /\ listed[W!Path] = [dirs |-> directories[W!Path].dirs \cup {e.name},
                           files |-> directories[W!Path].files]
    BY <1>2, <1>3, Shows
<1>5. PICK G \in SUBSET {Below(e)} :
         /\ Effect(e, G, {e.name}, {}, {W!Inode(W!Path, e)}) /\ Below(e) \in G \cup logged'
         /\ G # {} => W!Node(Below(e)) \in DOMAIN fs.entries \ fs.unreadable
    BY <1>1, <1>3, <1>4, PushLists
<1>6. /\ e \in W!VisibleDirs(W!Path) /\ e \notin W!VisibleFiles(W!Path)
      /\ Len(stack) < MaxDepth
    BY <1>2, Shows, TreeAssumption
<1>7. Reasons(e, G, {e.name}, {}, {W!Inode(W!Path, e)})
    BY <1>1, <1>5, <1>6 DEF Reasons
<1> QED BY <1>2, <1>5, <1>7, EffectKeeps

LEMMA InodeFailureKeeps ==
    ASSUME WalkInv, NEW e, W!InodeFails(e)
    PROVE  WalkInv'
<1>1. /\ W!Enters(e) /\ W!Push(Below(e), W!Taken(e), directories, {Below(e)})
      /\ SameTree /\ walk' = walk /\ visited' = visited \cup {}
    BY DEF W!InodeFails, W!Join, Below, SameTree
<1>2. /\ W!Takes(e) /\ W!IsDir(e) /\ e.name \notin Hidden /\ ~(Len(stack) >= MaxDepth)
    BY <1>1 DEF W!Enters, W!Shown, W!Deep
<1>3. directories[W!Path] = [dirs |-> directories[W!Path].dirs \cup {},
                             files |-> directories[W!Path].files]
    BY <1>2, Shows
<1>4. PICK G \in SUBSET {Below(e)} :
         /\ Effect(e, G, {}, {}, {}) /\ {Below(e)} \subseteq logged'
         /\ G # {} => W!Node(Below(e)) \in DOMAIN fs.entries \ fs.unreadable
    BY <1>1, <1>3, PushLists
<1>5. /\ e \in W!VisibleDirs(W!Path) /\ e \notin W!VisibleFiles(W!Path)
      /\ Len(stack) < MaxDepth
    BY <1>2, Shows, TreeAssumption
<1>6. Reasons(e, G, {}, {}, {})
    BY <1>4, <1>5 DEF Reasons
<1> QED BY <1>2, <1>4, <1>6, EffectKeeps

(* So every step of the walk keeps the invariant.                          *)
LEMMA NextWalkInv == WalkInv /\ [W!Next]_walkVars => WalkInv'
<1> SUFFICES ASSUME WalkInv, [W!Next]_walkVars PROVE WalkInv'
    OBVIOUS
<1>1. CASE W!Start
    BY <1>1, WalkStarts
<1>2. CASE W!Pop
    BY <1>2, WalkPops
<1>3. CASE W!NotADirectory \/ W!Return \/ UNCHANGED walkVars
    <2>1. /\ SameTree /\ stack' = stack /\ directories' = directories /\ visited' = visited
          /\ walk' = walk \/ (walk = "none" /\ walk' = "raised")
                 \/ (stack = <<>> /\ walk' = "done")
          /\ logged' = logged
        BY <1>3 DEF W!NotADirectory, W!Return, walkVars, SameTree
    <2> QED BY <2>1, WalkRests
<1>4. CASE stack # <<>> /\ \E e \in W!Last(stack).left : W!Entry(e)
    <2>1. PICK e : W!Entry(e)
        BY <1>4
    <2> QED BY <2>1, SkipKeeps, FileKeeps, DirectoryKeeps, InodeFailureKeeps DEF W!Entry
<1> QED BY <1>1, <1>2, <1>3, <1>4 DEF W!Next

-----------------------------------------------------------------------------
(* The types follow from it.                                               *)
LEMMA WalkTypes == WalkInv => W!TypeOK
<1> SUFFICES ASSUME WalkInv PROVE W!TypeOK
    OBVIOUS
<1>1. ASSUME NEW p \in DOMAIN directories
      PROVE  /\ directories[p].dirs \subseteq W!Names \ Hidden
             /\ directories[p].files \subseteq W!Names \ Hidden
    <2>1. /\ directories[p].files = W!NamesOf({e \in W!VisibleFiles(p) : ~Pends(p, e)})
          /\ directories[p].dirs \subseteq W!NamesOf({e \in W!VisibleDirs(p) : ~Pends(p, e)})
          /\ directories[p] \in [dirs : SUBSET W!Names, files : SUBSET W!Names]
        BY DEF WalkInv, Listed, FilesTaken, DirsTaken
    <2> QED BY <2>1 DEF W!NamesOf, W!VisibleFiles, W!VisibleDirs, W!Visible
<1>2. /\ Len(stack) <= MaxDepth
      /\ \A k \in DOMAIN stack : stack[k].path \in DOMAIN directories
    BY LenProperties DEF WalkInv, StackShape
<1>3. /\ fs \in FileSystems /\ follows \in BOOLEAN
      /\ walk \in {"none", "walking", "done", "raised"}
    BY Zenon DEF WalkInv, Phases
<1> QED BY <1>1, <1>2, <1>3, Zenon DEF W!TypeOK

(* When the walk is done, nothing pends: all there is was taken.           *)
LEMMA WalkListing == WalkInv => ListingIsTree
<1> SUFFICES ASSUME WalkInv, walk = "done"
             PROVE  W!PathsAreThere /\ W!ParentsNameThem /\ W!NamedOnce /\ W!NothingMissing
    BY DEF ListingIsTree, W!ListingIsTree
<1>1. \A p, e : ~Pends(p, e)
    <2>1. stack = <<>> /\ Len(stack) = 0
        BY DEF WalkInv, Phases
    <2> QED BY <2>1 DEF Pends, PendsIn
<1>2. W!PathsAreThere /\ W!NamedOnce
    BY DEF WalkInv, Listed, W!PathsAreThere
<1>3. W!ParentsNameThem
    <2>1. ASSUME NEW p \in DOMAIN directories, p # <<>>, p \notin logged
          PROVE  /\ W!Front(p) \in DOMAIN directories
                 /\ W!Last(p) \in directories[W!Front(p)].dirs
        <3>1. PICK q \in DOMAIN directories, n \in W!Names :
                 p = Append(q, n) /\ n \in directories[q].dirs
            BY <2>1 DEF WalkInv, ParentsName
        <3>2. q \in Seq(W!Names)
            BY DEF WalkInv, Listed
        <3>3. W!Front(p) = q /\ W!Last(p) = n
            <4>1. PICK l \in Nat : l = Len(q)
                BY <3>2
            <4>2. /\ Len(p) = l + 1 /\ p[l + 1] = n /\ p \in Seq(W!Names)
                  /\ \A k \in 1..l : p[k] = q[k] /\ q[k] \in W!Names
                BY <3>1, <3>2, <4>1, AppendProperties, ElementOfSeq
            <4>3. W!Last(p) = n
                BY <4>1, <4>2 DEF W!Last
            <4>4. PICK f : f = W!Front(p)
                OBVIOUS
            <4>5. /\ f \in Seq(W!Names) /\ Len(f) = IF 1 <= l THEN l - 1 + 1 ELSE 0
                  /\ \A k \in 1..l - 1 + 1 : f[k] = p[1 + k - 1]
                BY <4>1, <4>2, <4>4, SubSeqProperties DEF W!Front
            <4>6. f = q
                BY <3>2, <4>1, <4>2, <4>5, SeqEqual
            <4> QED BY <4>3, <4>4, <4>6
        <3> QED BY <3>1, <3>3
    <2>2. \A p \in DOMAIN directories : \A n \in directories[p].dirs :
             Append(p, n) \in DOMAIN directories \cup logged
        BY DEF WalkInv, DirsReached
    <2>3. \A p \in DOMAIN directories :
             directories[p].dirs \subseteq W!NamesOf(W!VisibleDirs(p))
        BY DEF WalkInv, DirsTaken, W!NamesOf
    <2> QED BY <2>1, <2>2, <2>3 DEF W!ParentsNameThem
<1>4. W!NothingMissing
    <2>1. ASSUME NEW p \in DOMAIN directories
          PROVE  directories[p].files = W!NamesOf(W!VisibleFiles(p))
        <3>1. {e \in W!VisibleFiles(p) : ~Pends(p, e)} = W!VisibleFiles(p)
            BY <1>1
        <3> QED BY <3>1 DEF WalkInv, FilesTaken
    <2>2. ASSUME NEW p \in DOMAIN directories, Len(p) + 1 < MaxDepth,
                 NEW e \in W!VisibleDirs(p), Append(p, e.name) \notin logged
          PROVE  \E q \in DOMAIN directories : W!NamesInode(q, W!Inode(p, e))
        <3>1. W!Inode(p, e) \in visited
            BY <1>1, <2>2 DEF WalkInv, TakenAreSeen
        <3> QED BY <3>1 DEF WalkInv, VisitedAreNamed
    <2> QED BY <2>1, <2>2 DEF W!NothingMissing
<1> QED BY <1>2, <1>3, <1>4

-----------------------------------------------------------------------------
(* RemoteDirectory: the inductive invariant.                               *)

(* Where a scan holds the lock, and where it has written nothing yet.      *)
InLock == {"scanning", "opening", "writing", "written", "leaving", "failing"}
Before == {"none", "started", "scanning", "opening"}

(* A sequence of n chunks of version v.                                    *)
Uniform(chunks, n, v) ==
    chunks \in Seq(Versions) /\ Len(chunks) = n /\ \A i \in 1..n : chunks[i] = v

(* What TypeOK leaves out of the functions on uploads.                     *)
Domains == /\ DOMAIN snapshot = Uploads /\ DOMAIN since = Uploads
           /\ DOMAIN size = Uploads /\ DOMAIN data = Uploads

(* One scan writes at a time.                                              *)
WriterHoldsLock == \A s \in Scans : at[s] \in InLock => lock = s

(* What the writer has written so far is of the version it saw.            *)
Progress == \A s \in Scans :
    /\ at[s] \in Before => written[s] = 0
    /\ at[s] = "writing" => written[s] < Chunks
    /\ at[s] \in {"opening", "writing", "written", "leaving"} => found[s] \in Versions
    /\ at[s] = "writing" => Uniform(scan_json, written[s], found[s])
    /\ at[s] \in {"written", "leaving"} => Uniform(scan_json, Chunks, found[s])

(* It saw the newest of the versions that any scan saw.                    *)
NewestWrites ==
    /\ \A t \in Scans : found[t] <= tree
    /\ \A s, t \in Scans :
          at[s] \in {"opening", "writing", "written", "leaving"} => found[t] <= found[s]

(* What a writer leaves behind when it fails, or is killed, is of one      *)
(* version too.                                                            *)
ListingIsOneVersion ==
    scan_json = NoFile \/ \E n \in 0..Chunks, v \in Versions : Uniform(scan_json, n, v)

(* A scan saw version v, or a later one; and so of what is in scan.json.   *)
Reached(v) == \E t \in Scans : v <= found[t]
ListingWasSeen == scan_json # NoFile /\ scan_json # <<>> => Reached(scan_json[1])

(* A copy of chunks in the order of their versions, none older than the    *)
(* version from, and all of one version unless m.                          *)
Steady(chunks, from, m) == \A i, j \in 1..Len(chunks) :
    i <= j => /\ from <= chunks[i] /\ chunks[i] <= chunks[j]
              /\ m \/ chunks[i] = chunks[j]

(* Version v is no newer than what is yet to be copied from path.          *)
NotNewer(v, path) ==
    IF path = "file" THEN v <= tree
    ELSE v = 0 \/ (Reached(v) /\ (scan_json # <<>> => v <= scan_json[1]))

(* An upload that is being copied, ...                                     *)
Copied(u, path) ==
    /\ size[u] = NotOpen /\ data[u] = Nothing
    /\ Contents(path) # NoFile /\ snapshot[u] \in Content
    /\ NotNewer(since[u], path)
    /\ \A i \in 1..Len(snapshot[u]) : NotNewer(snapshot[u][i], path)
    /\ Steady(snapshot[u], since[u], u \in mixed)
    /\ u \notin mixed => /\ Len(snapshot[u]) <= Len(Contents(path))
                         /\ \A i \in 1..Len(snapshot[u]) : snapshot[u][i] = Contents(path)[1]
CopyIsSteady == \A u \in Uploads, path \in Paths : copying = <<u, path>> => Copied(u, path)

(* ... and one that is open.                                               *)
Snapshot(u) ==
    /\ snapshot[u] \in Content /\ Len(snapshot[u]) = size[u]
    /\ Steady(snapshot[u], since[u], u \in mixed)
    /\ \A i \in 1..size[u] : data[u][i] \in {0, snapshot[u][i]}
SnapshotIsSteady == \A u \in Uploads : size[u] # NotOpen => Snapshot(u)

IInv == /\ TypeOK /\ Domains /\ WriterHoldsLock /\ Progress /\ NewestWrites
        /\ ListingIsOneVersion /\ ListingWasSeen /\ CopyIsSteady /\ SnapshotIsSteady

USE SizeAssumption, LockAssumption, FileAssumption

-----------------------------------------------------------------------------
(* Whole files are uniform, and what is written grows to one.              *)
LEMMA WholeIsUniform == \A v \in Versions : Uniform(Whole(v), Chunks, v)
BY DEF Uniform, Whole

LEMMA UniformIsWhole ==
    ASSUME NEW v \in Versions, NEW c, Uniform(c, Chunks, v)
    PROVE  c = Whole(v)
BY WholeIsUniform, SeqEqual DEF Uniform

LEMMA UniformEmpty == \A v \in Versions : Uniform(<<>>, 0, v)
BY DEF Uniform

LEMMA UniformAppend ==
    ASSUME NEW n \in Nat, NEW v \in Versions, NEW c, Uniform(c, n, v)
    PROVE  Uniform(Append(c, v), n + 1, v)
BY DEF Uniform

LEMMA UniformContent ==
    ASSUME NEW n \in 0..Chunks, NEW v \in Versions, NEW c, Uniform(c, n, v)
    PROVE  c \in Content /\ Len(c) = n /\ DOMAIN c = 1..n
<1>1. c \in [1..n -> Versions] /\ DOMAIN c = 1..n
    BY LenProperties DEF Uniform
<1> QED BY <1>1 DEF Content, Uniform

LEMMA ContentIsFile == \A c \in Content : c # NoFile /\ c \in Seq(Versions) /\ Len(c) <= Chunks
<1> SUFFICES ASSUME NEW n \in 0..Chunks, NEW c \in [1..n -> Versions]
             PROVE  c # NoFile /\ c \in Seq(Versions) /\ Len(c) <= Chunks
    BY DEF Content
<1>1. c # NoFile
    BY DEF Versions
<1>2. c \in Seq(Versions) /\ Len(c) = n
    BY SeqDef
<1> QED BY <1>1, <1>2

(* The invariant holds at first, and every step keeps it.                  *)
LEMMA InitIInv == Init => IInv
<1> SUFFICES ASSUME Init PROVE IInv
    OBVIOUS
<1>1. TypeOK /\ Domains
    BY DEF Init, TypeOK, Domains, Versions, NotOpen, Nothing, Places, Resting, Idle
<1>2. /\ WriterHoldsLock /\ Progress /\ ListingIsOneVersion
      /\ ListingWasSeen /\ CopyIsSteady /\ SnapshotIsSteady
    BY DEF Init, WriterHoldsLock, Progress, ListingIsOneVersion, ListingWasSeen, CopyIsSteady,
           SnapshotIsSteady, InLock, Before, Idle
<1>3. NewestWrites
    BY DEF Init, NewestWrites
<1> QED BY <1>1, <1>2, <1>3 DEF IInv

(* Scans take place one after another, and a later one sees no older tree. *)
LEMMA NextNewestWrites == IInv /\ [Next]_vars => NewestWrites'
<1> SUFFICES ASSUME IInv, [Next]_vars PROVE NewestWrites'
    OBVIOUS
<1>1. ASSUME NEW s \in Scans, ScanDirectory(s) PROVE NewestWrites'
    <2>1. /\ tree \in Int /\ tree' = tree
          /\ \A t \in Scans : found[t] \in Int /\ found[t] <= tree
        BY <1>1 DEF ScanDirectory, IInv, TypeOK, Versions, NewestWrites
    <2>2. \A t \in Scans : found'[t] = IF t = s THEN tree ELSE found[t]
        BY <1>1 DEF ScanDirectory, IInv, TypeOK
    <2>3. \A t \in Scans : at'[t] \in InLock => t = s
        BY <1>1 DEF ScanDirectory, Goto, IInv, TypeOK, WriterHoldsLock, InLock
    <2> QED BY <2>1, <2>2, <2>3 DEF NewestWrites, InLock
<1>2. ASSUME NEW s \in Scans,
             \/ \E reports \in BOOLEAN : PerformScan(s, reports) \/ PerformScanFails(s, reports)
             \/ Acquire(s) \/ Truncate(s) \/ WriteChunk(s) \/ Fails(s) \/ Report(s)
             \/ Release(s) \/ ReleaseFailed(s)
      PROVE  NewestWrites'
    <2>1. tree' = tree /\ found' = found
        BY <1>2 DEF PerformScan, PerformScanFails, Acquire, Truncate, WriteChunk, Fails,
                    Report, Release, ReleaseFailed
    <2>2. \A t \in Scans : at'[t] \in {"opening", "writing", "written", "leaving"} =>
             at[t] \in {"opening", "writing", "written", "leaving"}
        BY <1>2 DEF PerformScan, PerformScanFails, Acquire, Truncate, WriteChunk, Fails,
                    Report, Release, ReleaseFailed, Goto, IInv, TypeOK
    <2> QED BY <2>1, <2>2 DEF IInv, NewestWrites
<1>3. ASSUME NEW u \in Uploads,
             \/ \E path \in Paths : Open(u, path) \/ CopyChunk(u, path) \/ Opened(u, path)
             \/ OpenFails(u) \/ CloseUpload(u) \/ \E i \in 1..Chunks : Read(u, i)
      PROVE  NewestWrites'
    BY <1>3 DEF Open, CopyChunk, Opened, OpenFails, CloseUpload, Read, scanner, IInv, NewestWrites
<1>4. CASE CopyFails \/ UserChanges \/ UNCHANGED vars
    BY <1>4 DEF CopyFails, UserChanges, vars, scanner, IInv, TypeOK, Versions, NewestWrites
<1>5. CASE Restart
    BY <1>5 DEF Restart, Resting, IInv, NewestWrites
<1> QED BY <1>1, <1>2, <1>3, <1>4, <1>5 DEF Next, ThreadStep

(* Numbers, for arithmetic on versions.                                    *)
LEMMA VersionsAreNumbers ==
    ASSUME TypeOK
    PROVE  /\ Chunks \in Nat \ {0} /\ MaxVersion \in Nat /\ tree \in Nat \ {0}
           /\ \A s \in Scans : found[s] \in Nat
           /\ \A u \in Uploads : since[u] \in Nat
           /\ \A c \in Content : /\ Len(c) \in Nat /\ c \in Seq(Versions)
                                 /\ \A i \in 1..Len(c) : c[i] \in Nat \ {0}
           /\ scan_json \notin {NoFile, <<>>} => scan_json[1] \in Nat \ {0}
<1>1. \A c \in Content : /\ Len(c) \in Nat /\ c \in Seq(Versions)
                         /\ \A i \in 1..Len(c) : c[i] \in Nat \ {0}
    <2> SUFFICES ASSUME NEW c \in Content
                 PROVE  /\ Len(c) \in Nat /\ c \in Seq(Versions)
                        /\ \A i \in 1..Len(c) : c[i] \in Nat \ {0}
        OBVIOUS
    <2>1. c \in Seq(Versions)
        BY ContentIsFile
    <2>2. Len(c) \in Nat /\ \A i \in 1..Len(c) : c[i] \in Versions
        BY <2>1, LenProperties, ElementOfSeq
    <2> QED BY <2>1, <2>2 DEF Versions
<1>2. scan_json \notin {NoFile, <<>>} => scan_json[1] \in Nat \ {0}
    <2> SUFFICES ASSUME scan_json \notin {NoFile, <<>>} PROVE scan_json[1] \in Nat \ {0}
        OBVIOUS
    <2>1. scan_json \in Content /\ scan_json \in Seq(Versions)
        BY <1>1 DEF TypeOK
    <2>2. 1 \in 1..Len(scan_json)
        BY <1>1, <2>1, EmptySeq, LenProperties
    <2> QED BY <1>1, <2>1, <2>2
<1> QED BY <1>1, <1>2 DEF TypeOK, Versions

(* What is in a file is of one version.                                    *)
LEMMA ContentsAreUniform ==
    ASSUME IInv, NEW path \in Paths, Contents(path) # NoFile
    PROVE  \E n \in 0..Chunks, v \in Versions : Uniform(Contents(path), n, v)
BY WholeIsUniform DEF Contents, IInv, TypeOK, ListingIsOneVersion

(* A step that touches no upload keeps a copy steady, if what was not too  *)
(* new still is not, and the source stays in place or disturbs the copy.   *)
LEMMA CopyGoesOn ==
    ASSUME IInv, copying' = copying, mixed \subseteq mixed',
           UNCHANGED <<snapshot, since, size, data>>,
           \A path \in Paths : \A v \in Nat : NotNewer(v, path) => NotNewer(v, path)',
           \A path \in Paths : Contents(path) # NoFile => Contents(path)' # NoFile,
           \A u \in Uploads, path \in Paths :
              copying = <<u, path>> /\ u \notin mixed' /\ Contents(path) # NoFile =>
                 /\ \A n \in Nat : n <= Len(Contents(path)) => n <= Len(Contents(path))'
                 /\ \A i \in 1..Len(Contents(path)) : Contents(path)'[1] = Contents(path)[1]
    PROVE  CopyIsSteady' /\ SnapshotIsSteady'
<1>1. \A u \in Uploads : Steady(snapshot[u], since[u], u \in mixed)
                            => Steady(snapshot[u], since[u], u \in mixed)'
    BY DEF Steady
<1>2. SnapshotIsSteady'
    BY <1>1 DEF IInv, SnapshotIsSteady, Snapshot
<1>3. CopyIsSteady'
    <2> SUFFICES ASSUME NEW u \in Uploads, NEW path \in Paths, copying = <<u, path>>
                 PROVE  Copied(u, path)'
        BY DEF CopyIsSteady
    <2>1. Copied(u, path)
        BY DEF IInv, CopyIsSteady
    <2>2. snapshot[u] \in Content /\ since[u] \in Nat /\ Len(snapshot[u]) \in Nat
          /\ \A i \in 1..Len(snapshot[u]) : snapshot[u][i] \in Nat
        BY <2>1, VersionsAreNumbers DEF Copied, IInv
    <2>3. /\ NotNewer(since[u], path)'
          /\ \A i \in 1..Len(snapshot[u]) : NotNewer(snapshot[u][i], path)'
        <3>1. NotNewer(since[u], path)'
            <4>1. PICK v \in Nat : v = since[u]
                BY <2>2
            <4>2. NotNewer(v, path) => NotNewer(v, path)'
                OBVIOUS
            <4> QED BY <2>1, <4>1, <4>2 DEF Copied, NotNewer, Reached
        <3>2. ASSUME NEW i \in 1..Len(snapshot[u]) PROVE NotNewer(snapshot[u][i], path)'
            <4>1. PICK v \in Nat : v = snapshot[u][i]
                BY <2>2
            <4>2. NotNewer(v, path) => NotNewer(v, path)'
                OBVIOUS
            <4> QED BY <2>1, <4>1, <4>2 DEF Copied, NotNewer, Reached
        <3> QED BY <3>1, <3>2
    <2>4. /\ Contents(path)' # NoFile
          /\ Steady(snapshot[u], since[u], u \in mixed)'
        BY <1>1, <2>1 DEF Copied
    <2>5. u \notin mixed' => /\ Len(snapshot[u]) <= Len(Contents(path))'
                             /\ \A i \in 1..Len(snapshot[u]) : snapshot[u][i] = Contents(path)'[1]
        <3> SUFFICES ASSUME u \notin mixed'
                     PROVE  /\ Len(snapshot[u]) <= Len(Contents(path))'
                            /\ \A i \in 1..Len(snapshot[u]) : snapshot[u][i] = Contents(path)'[1]
            OBVIOUS
        <3>1. \A n \in Nat : n <= Len(Contents(path)) => n <= Len(Contents(path))'
            BY <2>1 DEF Copied
        <3>2. Len(snapshot[u]) <= Len(Contents(path))'
            BY <2>1, <2>2, <3>1 DEF Copied
        <3>3. Len(Contents(path)) \in Nat
            BY <2>1, ContentsAreUniform DEF Copied, Uniform
        <3>4. \A i \in 1..Len(snapshot[u]) : i \in 1..Len(Contents(path))
            BY <2>1, <2>2, <3>3 DEF Copied
        <3> QED BY <2>1, <3>2, <3>4 DEF Copied
    <2> QED BY <2>1, <2>3, <2>4, <2>5 DEF Copied
<1> QED BY <1>2, <1>3

(* The copies and the snapshots stay steady.                               *)
LEMMA NextCopy == IInv /\ [Next]_vars => ListingWasSeen' /\ CopyIsSteady' /\ SnapshotIsSteady'
<1> SUFFICES ASSUME IInv, [Next]_vars
             PROVE  ListingWasSeen' /\ CopyIsSteady' /\ SnapshotIsSteady'
    OBVIOUS
<1>0. TypeOK /\ Domains
    BY DEF IInv
<1>1. ASSUME NEW s \in Scans,
             \/ \E reports \in BOOLEAN : PerformScan(s, reports) \/ PerformScanFails(s, reports)
             \/ Acquire(s) \/ ScanDirectory(s) \/ Fails(s) \/ Report(s) \/ Release(s)
             \/ ReleaseFailed(s)
      PROVE  ListingWasSeen' /\ CopyIsSteady' /\ SnapshotIsSteady'
    <2>1. /\ UNCHANGED <<tree, scan_json, snapshot, copying, since, mixed, size, data>>
          /\ found' = found \/ found' = [found EXCEPT ![s] = tree]
        BY <1>1 DEF PerformScan, PerformScanFails, Acquire, ScanDirectory, Fails, Report,
                    Release, ReleaseFailed, uploads
    <2>2. \A t \in Scans : found[t] \in Nat /\ found'[t] \in Nat /\ found[t] <= found'[t]
        BY <1>0, <2>1, VersionsAreNumbers DEF IInv, NewestWrites, TypeOK
    <2>3. \A v \in Nat : Reached(v) => Reached(v)'
        BY <2>2 DEF Reached
    <2>4. ListingWasSeen'
        BY <1>0, <2>1, <2>3, VersionsAreNumbers DEF IInv, ListingWasSeen
    <2>5. \A path \in Paths : \A v \in Nat : NotNewer(v, path) => NotNewer(v, path)'
        BY <2>1, <2>3 DEF NotNewer
    <2>6. \A path \in Paths : Contents(path)' = Contents(path)
        BY <2>1 DEF Contents
    <2> QED BY <2>1, <2>4, <2>5, <2>6, CopyGoesOn
<1>2. ASSUME NEW s \in Scans, Truncate(s)
      PROVE  ListingWasSeen' /\ CopyIsSteady' /\ SnapshotIsSteady'
    <2>1. /\ UNCHANGED <<tree, found, snapshot, copying, since, size, data>>
          /\ scan_json' = <<>>
          /\ mixed' = mixed \cup {u \in Uploads : copying = <<u, "scan.json">>}
        BY <1>2 DEF Truncate, Disturbs
    <2>2. scan_json' # NoFile
        BY <2>1, ContentIsFile, UniformEmpty, UniformContent, <1>0, VersionsAreNumbers DEF TypeOK
    <2>3. ListingWasSeen'
        BY <2>1 DEF ListingWasSeen
    <2>4. \A path \in Paths : \A v \in Nat : NotNewer(v, path) => NotNewer(v, path)'
        BY <2>1 DEF NotNewer, Reached
    <2>5. \A path \in Paths : Contents(path) # NoFile => Contents(path)' # NoFile
        BY <2>1, <2>2 DEF Contents
    <2>6. ASSUME NEW u \in Uploads, NEW path \in Paths, copying = <<u, path>>, u \notin mixed'
          PROVE  Contents(path)' = Contents(path)
        BY <2>1, <2>6 DEF Contents, Paths
    <2> QED BY <2>1, <2>3, <2>4, <2>5, <2>6, CopyGoesOn
<1>3. ASSUME NEW s \in Scans, WriteChunk(s)
      PROVE  ListingWasSeen' /\ CopyIsSteady' /\ SnapshotIsSteady'
    <2>1. /\ UNCHANGED <<tree, found, snapshot, copying, since, mixed, size, data>>
          /\ scan_json' = Append(scan_json, found[s])
        BY <1>3 DEF WriteChunk, uploads
    <2>2. /\ at[s] = "writing" /\ written[s] \in Nat /\ found[s] \in Versions
          /\ written[s] < Chunks /\ Uniform(scan_json, written[s], found[s])
          /\ \A t \in Scans : found[t] \in Nat /\ found[t] <= found[s]
        BY <1>0, <1>3, VersionsAreNumbers DEF WriteChunk, Goto, IInv, Progress, NewestWrites, TypeOK
    <2>3. /\ scan_json \in Seq(Versions) /\ scan_json # NoFile
          /\ \A i \in 1..Len(scan_json) : scan_json[i] = found[s]
        <3>1. scan_json \in Content
            BY <2>2, UniformContent
        <3> QED BY <2>2, <3>1, ContentIsFile DEF Uniform
    <2>4. /\ scan_json' \in Seq(Versions) /\ Len(scan_json') = Len(scan_json) + 1
          /\ scan_json'[1] = found[s] /\ Len(scan_json) \in Nat
        <3>1. /\ Len(scan_json) \in Nat /\ scan_json' \in Seq(Versions)
              /\ Len(scan_json') = Len(scan_json) + 1
              /\ scan_json'[Len(scan_json) + 1] = found[s]
              /\ \A i \in 1..Len(scan_json) : scan_json'[i] = scan_json[i]
            BY <2>1, <2>2, <2>3, AppendProperties, LenProperties
        <3>2. CASE Len(scan_json) = 0
            BY <3>1, <3>2
        <3>3. CASE Len(scan_json) # 0
            BY <2>3, <3>1, <3>3
        <3> QED BY <3>1, <3>2, <3>3
    <2>5. scan_json' # <<>> /\ scan_json' # NoFile
        <3>1. Uniform(scan_json', written[s] + 1, found[s]) /\ written[s] + 1 \in 0..Chunks
            BY <2>1, <2>2, UniformAppend
        <3> QED BY <2>2, <2>4, <3>1, UniformContent, ContentIsFile, EmptySeq
    <2>6. ListingWasSeen'
        BY <2>1, <2>2, <2>4 DEF ListingWasSeen, Reached
    <2>7. \A path \in Paths : \A v \in Nat : NotNewer(v, path) => NotNewer(v, path)'
        BY <2>1, <2>2, <2>4 DEF NotNewer, Reached
    <2>8. \A path \in Paths : Contents(path)' # NoFile \/ Contents(path)' = Contents(path)
        BY <2>1, <2>5 DEF Contents
    <2>9. ASSUME NEW path \in Paths, Contents(path) # NoFile
          PROVE  /\ \A n \in Nat : n <= Len(Contents(path)) => n <= Len(Contents(path))'
                 /\ \A i \in 1..Len(Contents(path)) : Contents(path)'[1] = Contents(path)[1]
        <3>1. CASE path = "file"
            BY <2>1, <3>1 DEF Contents
        <3>2. CASE path = "scan.json"
            <4>1. \A i \in 1..Len(scan_json) : scan_json[1] = found[s]
                BY <2>3, <2>4
            <4> QED BY <2>4, <3>2, <4>1 DEF Contents
        <3> QED BY <3>1, <3>2 DEF Paths
    <2> QED BY <2>1, <2>6, <2>7, <2>8, <2>9, CopyGoesOn
<1>4. ASSUME NEW u \in Uploads, NEW path \in Paths, Open(u, path)
      PROVE  ListingWasSeen' /\ CopyIsSteady' /\ SnapshotIsSteady'
    <2>1. /\ UNCHANGED <<tree, found, scan_json>> /\ copying' = <<u, path>>
          /\ Contents(path) # NoFile /\ Contents(path)' = Contents(path)
          /\ snapshot'[u] = <<>> /\ size'[u] = NotOpen /\ data'[u] = Nothing
          /\ since'[u] = Version(path) /\ u \notin mixed'
          /\ \A w \in Uploads \ {u} : /\ snapshot'[w] = snapshot[w] /\ size'[w] = size[w]
                                      /\ data'[w] = data[w] /\ since'[w] = since[w]
                                      /\ w \in mixed' <=> w \in mixed
        BY <1>0, <1>4 DEF Open, scanner, Contents, Domains
    <2>2. ListingWasSeen'
        BY <2>1 DEF IInv, ListingWasSeen, Reached
    <2>3. SnapshotIsSteady'
        BY <2>1 DEF IInv, SnapshotIsSteady, Snapshot, Steady
    <2>4. <<>> \in Content /\ Len(<<>>) = 0
        BY <1>0, UniformEmpty, UniformContent DEF TypeOK
    <2>5. NotNewer(Version(path), path)
        <3>1. CASE path = "file"
            <4>1. Whole(tree) # <<>> /\ Whole(tree)[1] = tree /\ tree \in Nat
                BY <1>0, VersionsAreNumbers, WholeIsUniform, EmptySeq DEF Uniform, TypeOK
            <4> QED BY <3>1, <4>1 DEF NotNewer, Version, Contents
        <3>2. CASE path = "scan.json"
            <4>1. scan_json # NoFile
                BY <2>1, <3>2 DEF Contents
            <4>2. scan_json # <<>> => scan_json[1] \in Nat /\ Reached(scan_json[1])
                BY <1>0, <4>1, VersionsAreNumbers DEF IInv, ListingWasSeen
            <4> QED BY <3>2, <4>2 DEF NotNewer, Version, Contents
        <3> QED BY <3>1, <3>2 DEF Paths
    <2>6. NotNewer(since[u], path)'
        BY <2>1, <2>5 DEF NotNewer, Reached
    <2>7. Copied(u, path)'
        <3>1. Len(snapshot'[u]) = 0 /\ snapshot'[u] \in Content
            BY <2>1, <2>4
        <3>2. 0 <= Len(Contents(path)')
            BY <2>1, ContentsAreUniform DEF Uniform
        <3> QED BY <2>1, <2>6, <3>1, <3>2 DEF Copied, Steady
    <2>8. CopyIsSteady'
        BY <2>1, <2>7 DEF CopyIsSteady
    <2> QED BY <2>2, <2>3, <2>8
<1>5. ASSUME NEW u \in Uploads, NEW path \in Paths, CopyChunk(u, path)
      PROVE  ListingWasSeen' /\ CopyIsSteady' /\ SnapshotIsSteady'
    <2>1. Copied(u, path) /\ snapshot[u] \in Content /\ Contents(path) # NoFile
        BY <1>5 DEF CopyChunk, IInv, CopyIsSteady, Copied
    <2>2. PICK n \in 0..Chunks, v \in Versions : Uniform(Contents(path), n, v)
        BY <2>1, ContentsAreUniform
    <2>3. PICK old, k : old = snapshot[u] /\ k = Len(old)
        OBVIOUS
    <2>4. /\ k \in Nat /\ old \in Seq(Versions) /\ k < n /\ k + 1 <= Chunks
          /\ \A i \in 1..k : old[i] \in Nat
          /\ v \in Nat \ {0} /\ since[u] \in Nat
        BY <1>0, <1>5, <2>1, <2>2, <2>3, VersionsAreNumbers DEF CopyChunk, Uniform, Versions
    <2>5. Contents(path)[k + 1] = v /\ Contents(path)[1] = v
        BY <2>2, <2>4 DEF Uniform
    <2>6. /\ UNCHANGED <<tree, found, scan_json, copying, since, mixed, size, data>>
          /\ copying = <<u, path>> /\ Contents(path)' = Contents(path)
          /\ snapshot' = [snapshot EXCEPT ![u] = Append(old, v)]
        BY <1>5, <2>3, <2>5 DEF CopyChunk, scanner, Contents
    <2>7. PICK new : new = Append(old, v)
        OBVIOUS
    <2>8. /\ new \in Seq(Versions) /\ Len(new) = k + 1 /\ new[k + 1] = v
          /\ \A i \in 1..k : new[i] = old[i]
        BY <2>3, <2>4, <2>7, AppendProperties
    <2>9. new \in Content
        <3>1. k + 1 \in 0..Chunks /\ new \in [1..k + 1 -> Versions]
            BY <2>4, <2>8, LenProperties
        <3> QED BY <3>1 DEF Content
    <2>10. /\ snapshot'[u] = new /\ \A w \in Uploads \ {u} : snapshot'[w] = snapshot[w]
        BY <1>0, <2>6, <2>7 DEF Domains
    <2>11. ListingWasSeen'
        BY <2>6 DEF IInv, ListingWasSeen, Reached
    <2>12. SnapshotIsSteady'
        BY <2>1, <2>6, <2>10 DEF IInv, SnapshotIsSteady, Snapshot, Steady, Copied
    <2>13. NotNewer(v, path)
        <3>1. CASE path = "file"
            BY <2>4, <2>5, <3>1, <1>0, VersionsAreNumbers DEF NotNewer, Contents, Whole
        <3>2. CASE path = "scan.json"
            <4>1. scan_json # NoFile /\ scan_json # <<>> /\ scan_json[1] = v
                BY <2>1, <2>2, <2>4, <2>5, <3>2, EmptySeq DEF Contents, Uniform
            <4> QED BY <2>4, <3>2, <4>1 DEF NotNewer, IInv, ListingWasSeen
        <3> QED BY <3>1, <3>2 DEF Paths
    <2>14. \A w \in Nat : NotNewer(w, path) => w <= v
        <3>1. CASE path = "file"
            BY <2>4, <2>5, <3>1, <1>0, VersionsAreNumbers DEF NotNewer, Contents, Whole
        <3>2. CASE path = "scan.json"
            <4>1. scan_json # <<>> /\ scan_json[1] = v
                BY <2>2, <2>4, <2>5, <3>2, EmptySeq DEF Contents, Uniform
            <4> QED BY <2>4, <3>2, <4>1 DEF NotNewer
        <3> QED BY <3>1, <3>2 DEF Paths
    <2>15. since[u] <= v /\ \A i \in 1..k : old[i] <= v /\ NotNewer(old[i], path)
        BY <2>1, <2>3, <2>4, <2>14 DEF Copied
    <2>16. \A i \in 1..k + 1 : i \in 1..k \/ i = k + 1
        BY <2>4
    <2>17. u \notin mixed => \A i \in 1..k : old[i] = v
        BY <2>1, <2>3, <2>5 DEF Copied
    <2>18. Steady(old, since[u], u \in mixed)
        BY <2>1, <2>3 DEF Copied
    <2>19. Steady(new, since[u], u \in mixed)
        <3> SUFFICES ASSUME NEW i \in 1..k + 1, NEW j \in 1..k + 1, i <= j
                     PROVE  /\ since[u] <= new[i] /\ new[i] <= new[j]
                            /\ u \in mixed \/ new[i] = new[j]
            BY <2>8 DEF Steady
        <3>1. CASE j \in 1..k
            <4>1. i \in 1..k /\ new[i] = old[i] /\ new[j] = old[j]
                BY <2>4, <2>8, <3>1
            <4> QED BY <2>3, <2>18, <3>1, <4>1 DEF Steady
        <3>2. CASE j = k + 1 /\ i \in 1..k
            <4>1. new[i] = old[i] /\ new[j] = v
                BY <2>8, <3>2
            <4>2. since[u] <= old[i]
                BY <2>3, <2>4, <2>18, <3>2 DEF Steady
            <4> QED BY <2>15, <2>17, <3>2, <4>1, <4>2
        <3>3. CASE j = k + 1 /\ i = k + 1
            BY <2>4, <2>8, <2>15, <3>3
        <3> QED BY <2>16, <3>1, <3>2, <3>3
    <2>20. \A w : NotNewer(w, path)' <=> NotNewer(w, path)
        BY <2>6 DEF NotNewer, Reached
    <2>21. \A i \in 1..k + 1 : NotNewer(new[i], path)
        BY <2>8, <2>13, <2>15, <2>16
    <2>22. u \notin mixed => \A i \in 1..k + 1 : new[i] = v
        BY <2>8, <2>16, <2>17
    <2>23. Len(Contents(path)) = n /\ k + 1 <= n
        BY <2>2, <2>4 DEF Uniform
    <2>24. Copied(u, path)'
        <3>1. /\ size[u] = NotOpen /\ data[u] = Nothing /\ NotNewer(since[u], path)
            BY <2>1 DEF Copied
        <3>2. /\ size'[u] = NotOpen /\ data'[u] = Nothing /\ Contents(path)' # NoFile
              /\ snapshot'[u] \in Content /\ Len(snapshot'[u]) = k + 1
            BY <2>1, <2>6, <2>8, <2>9, <2>10, <3>1
        <3>3. NotNewer(since[u], path)'
            BY <2>6, <3>1 DEF NotNewer, Reached
        <3>4. \A i \in 1..k + 1 : NotNewer(snapshot[u][i], path)'
            BY <2>6, <2>10, <2>21 DEF NotNewer, Reached
        <3>5. Steady(snapshot[u], since[u], u \in mixed)'
            BY <2>6, <2>10, <2>19 DEF Steady
        <3>6. u \notin mixed' =>
                 /\ Len(snapshot'[u]) <= Len(Contents(path)')
                 /\ \A i \in 1..Len(snapshot'[u]) : snapshot'[u][i] = Contents(path)'[1]
            BY <2>5, <2>6, <2>8, <2>10, <2>22, <2>23
        <3> QED BY <3>2, <3>3, <3>4, <3>5, <3>6 DEF Copied
    <2>25. CopyIsSteady'
        BY <2>6, <2>24 DEF CopyIsSteady
    <2> QED BY <2>11, <2>12, <2>25
<1>6. ASSUME NEW u \in Uploads, NEW path \in Paths, Opened(u, path)
      PROVE  ListingWasSeen' /\ CopyIsSteady' /\ SnapshotIsSteady'
    <2>1. Copied(u, path)
        BY <1>6 DEF Opened, IInv, CopyIsSteady
    <2>2. /\ UNCHANGED <<found, scan_json, snapshot, since, mixed, data>> /\ copying' = Idle
          /\ size'[u] = Len(snapshot[u]) /\ \A w \in Uploads \ {u} : size'[w] = size[w]
        BY <1>0, <1>6 DEF Opened, scanner, Domains
    <2>3. \A i \in 1..Len(snapshot[u]) : data[u][i] = 0
        BY <1>0, <2>1, VersionsAreNumbers, ContentIsFile DEF Copied, Nothing
    <2>4. Snapshot(u)'
        BY <2>1, <2>2, <2>3 DEF Snapshot, Copied, Steady
    <2>5. SnapshotIsSteady'
        BY <2>2, <2>4 DEF IInv, SnapshotIsSteady, Snapshot, Steady
    <2>6. ListingWasSeen' /\ CopyIsSteady'
        BY <2>2 DEF IInv, ListingWasSeen, Reached, CopyIsSteady, Idle
    <2> QED BY <2>5, <2>6
<1>7. ASSUME NEW u \in Uploads, OpenFails(u) \/ CloseUpload(u)
      PROVE  ListingWasSeen' /\ CopyIsSteady' /\ SnapshotIsSteady'
    <2>1. /\ UNCHANGED <<found, scan_json, since, mixed>> /\ copying' = Idle
          /\ size'[u] = NotOpen
          /\ \A w \in Uploads \ {u} : /\ size'[w] = size[w] /\ data'[w] = data[w]
                                      /\ snapshot'[w] = snapshot[w]
        BY <1>0, <1>7 DEF OpenFails, CloseUpload, scanner, Domains
    <2> QED BY <2>1 DEF IInv, ListingWasSeen, Reached, CopyIsSteady, Idle, SnapshotIsSteady,
                        Snapshot, Steady
<1>8. ASSUME NEW u \in Uploads, NEW i \in 1..Chunks, Read(u, i)
      PROVE  ListingWasSeen' /\ CopyIsSteady' /\ SnapshotIsSteady'
    <2>1. /\ UNCHANGED <<found, scan_json, since, mixed, snapshot, size>> /\ copying' = Idle
          /\ \A w \in Uploads \ {u} : data'[w] = data[w]
          /\ size[u] # NotOpen /\ snapshot[u] \in Content
        BY <1>0, <1>8 DEF Read, scanner, Domains, IInv, SnapshotIsSteady, Snapshot
    <2>2. data' = [data EXCEPT ![u][i] = ChunkAt(u, i)]
        BY <1>8, <2>1, ContentIsFile DEF Read
    <2>3. Snapshot(u) /\ DOMAIN data[u] = 1..Chunks
        BY <1>0, <2>1 DEF IInv, SnapshotIsSteady, TypeOK
    <2>4. \A j \in 1..size[u] : data'[u][j] \in {0, snapshot[u][j]}
        BY <1>0, <2>2, <2>3 DEF Snapshot, ChunkAt, Domains
    <2>5. Snapshot(u)'
        BY <2>1, <2>3, <2>4 DEF Snapshot, Steady
    <2> QED BY <2>1, <2>5 DEF IInv, ListingWasSeen, Reached, CopyIsSteady, Idle,
                              SnapshotIsSteady, Snapshot, Steady
<1>9. CASE UserChanges
    <2>1. /\ UNCHANGED <<found, scan_json, snapshot, copying, since, size, data>>
          /\ tree' = tree + 1
          /\ mixed' = mixed \cup {u \in Uploads : copying = <<u, "file">>}
        BY <1>9 DEF UserChanges, Disturbs, scanner
    <2>2. ListingWasSeen'
        BY <2>1 DEF IInv, ListingWasSeen, Reached
    <2>3. \A path \in Paths : \A v \in Nat : NotNewer(v, path) => NotNewer(v, path)'
        BY <1>0, <2>1, VersionsAreNumbers DEF NotNewer, Reached
    <2>4. tree \in Versions /\ tree' \in Versions
        BY <1>0, <1>9 DEF UserChanges, TypeOK, Versions
    <2>5. \A path \in Paths : Contents(path) # NoFile => Contents(path)' # NoFile
        <3>1. Whole(tree') # NoFile
            BY <2>4, WholeIsUniform, UniformContent, ContentIsFile
        <3> QED BY <2>1, <3>1 DEF Contents, Whole
    <2>6. ASSUME NEW u \in Uploads, NEW path \in Paths, copying = <<u, path>>, u \notin mixed'
          PROVE  Contents(path)' = Contents(path)
        BY <2>1, <2>6 DEF Contents, Paths
    <2> QED BY <2>1, <2>2, <2>3, <2>5, <2>6, CopyGoesOn
<1>10. CASE CopyFails \/ Restart
    <2>1. UNCHANGED <<found, scan_json, snapshot, since, mixed, size, data>> /\ copying' = Idle
        BY <1>10 DEF CopyFails, Restart, scanner
    <2> QED BY <2>1 DEF IInv, ListingWasSeen, Reached, CopyIsSteady, Idle, SnapshotIsSteady,
                        Snapshot, Steady
<1>11. CASE UNCHANGED vars
    <2>1. UNCHANGED <<tree, found, scan_json, snapshot, copying, since, mixed, size, data>>
        BY <1>11 DEF vars, scanner, uploads
    <2> QED BY <2>1 DEF IInv, ListingWasSeen, Reached, CopyIsSteady, Copied, NotNewer, Contents,
                        SnapshotIsSteady, Snapshot, Steady
<1> QED BY <1>1, <1>2, <1>3, <1>4, <1>5, <1>6, <1>7, <1>8, <1>9, <1>10, <1>11
        DEF Next, ThreadStep

LEMMA NextIInv == IInv /\ [Next]_vars => IInv'
<1> SUFFICES ASSUME IInv, [Next]_vars PROVE IInv'
    OBVIOUS
<1>0. NewestWrites' /\ ListingWasSeen' /\ CopyIsSteady' /\ SnapshotIsSteady'
    BY NextNewestWrites, NextCopy
<1> USE <1>0 DEF IInv
<1> DEFINE Scanning == (WriterHoldsLock /\ Progress /\ ListingIsOneVersion)'
<1>1. ASSUME NEW s \in Scans, PerformScan(s, TRUE) \/ PerformScan(s, FALSE) PROVE IInv'
    <2>1. (TypeOK /\ Domains)'
        BY <1>1 DEF PerformScan, Goto, TypeOK, Domains, Places, Resting, uploads
    <2>2. Scanning
        BY <1>1 DEF PerformScan, Goto, TypeOK, WriterHoldsLock, Progress,
                    ListingIsOneVersion, InLock, Before
    <2> QED BY <2>1, <2>2
<1>2. ASSUME NEW s \in Scans, PerformScanFails(s, TRUE) \/ PerformScanFails(s, FALSE)
      PROVE  IInv'
    <2>1. (TypeOK /\ Domains)'
        BY <1>2 DEF PerformScanFails, Goto, TypeOK, Domains, Places, Resting, uploads
    <2>2. Scanning
        BY <1>2 DEF PerformScanFails, Goto, TypeOK, WriterHoldsLock, Progress,
                    ListingIsOneVersion, InLock, Before
    <2> QED BY <2>1, <2>2
<1>3. ASSUME NEW s \in Scans, Acquire(s) PROVE IInv'
    <2>1. (TypeOK /\ Domains)'
        BY <1>3 DEF Acquire, Goto, TypeOK, Domains, Places, Resting, uploads
    <2>2. Scanning
        BY <1>3 DEF Acquire, Goto, TypeOK, WriterHoldsLock, Progress,
                    ListingIsOneVersion, InLock, Before
    <2> QED BY <2>1, <2>2
<1>4. ASSUME NEW s \in Scans, ScanDirectory(s) PROVE IInv'
    <2>1. (TypeOK /\ Domains)'
        BY <1>4 DEF ScanDirectory, Goto, TypeOK, Domains, Places, Resting, uploads, Versions
    <2>2. Scanning
        BY <1>4 DEF ScanDirectory, Goto, TypeOK, WriterHoldsLock, Progress,
                    ListingIsOneVersion, InLock, Before
    <2> QED BY <2>1, <2>2
<1>5. ASSUME NEW s \in Scans, Truncate(s) PROVE IInv'
    <2>1. Uniform(<<>>, 0, found[s]) /\ found[s] \in Versions
        BY <1>5, UniformEmpty DEF Truncate, Goto, Progress
    <2>2. scan_json' \in Content
        BY <1>5, <2>1, UniformContent DEF Truncate
    <2>3. (TypeOK /\ Domains)'
        <3>1. mixed' \subseteq Uploads
            BY <1>5 DEF Truncate, Disturbs, TypeOK
        <3> QED BY <1>5, <2>2, <3>1 DEF Truncate, Goto, TypeOK, Domains, Places, Resting
    <2>4. WriterHoldsLock'
        BY <1>5 DEF Truncate, Goto, TypeOK, WriterHoldsLock, InLock
    <2>5. Progress'
        BY <1>5, <2>1, <2>4
        DEF Truncate, Goto, TypeOK, WriterHoldsLock, Progress, InLock, Before
    <2>6. ListingIsOneVersion'
        BY <1>5, <2>1 DEF Truncate, ListingIsOneVersion
    <2> QED BY <2>3, <2>4, <2>5, <2>6
<1>6. ASSUME NEW s \in Scans, WriteChunk(s) PROVE IInv'
    <2>1. /\ written[s] \in Nat /\ written[s] < Chunks /\ found[s] \in Versions
          /\ Uniform(scan_json, written[s], found[s])
        BY <1>6 DEF WriteChunk, Goto, Progress, TypeOK
    <2>2. Uniform(scan_json', written[s] + 1, found[s])
        BY <1>6, <2>1, UniformAppend DEF WriteChunk
    <2>3. scan_json' \in Content
        BY <2>1, <2>2, UniformContent
    <2>4. (TypeOK /\ Domains)'
        BY <1>6, <2>1, <2>3 DEF WriteChunk, Goto, TypeOK, Domains, Places, Resting, uploads
    <2>5. WriterHoldsLock'
        BY <1>6 DEF WriteChunk, Goto, TypeOK, WriterHoldsLock, InLock
    <2>6. Progress'
        BY <1>6, <2>1, <2>2, <2>5
        DEF WriteChunk, Goto, TypeOK, WriterHoldsLock, Progress, InLock, Before
    <2>7. ListingIsOneVersion'
        BY <2>1, <2>2, <1>6 DEF WriteChunk, ListingIsOneVersion
    <2> QED BY <2>4, <2>5, <2>6, <2>7
<1>7. ASSUME NEW s \in Scans, Fails(s) \/ Report(s) \/ Release(s) \/ ReleaseFailed(s)
      PROVE  IInv'
    <2>1. (TypeOK /\ Domains)'
        BY <1>7 DEF Fails, Report, Release, ReleaseFailed, Goto, TypeOK, Domains, Places,
                    Resting, uploads
    <2>2. WriterHoldsLock'
        BY <1>7 DEF Fails, Report, Release, ReleaseFailed, Goto, TypeOK, WriterHoldsLock, InLock
    <2>3. Progress' /\ ListingIsOneVersion'
        BY <1>7 DEF Fails, Report, Release, ReleaseFailed, Goto, TypeOK, Progress,
                    ListingIsOneVersion, Before
    <2> QED BY <2>1, <2>2, <2>3
<1>8. ASSUME NEW u \in Uploads, NEW path \in Paths, Open(u, path) PROVE IInv'
    <2>1. Version(path) \in 0..MaxVersion /\ <<>> \in Content
        <3>1. \A v \in Versions : v \in 0..MaxVersion /\ <<>> \in Content
            BY UniformEmpty, UniformContent DEF Versions
        <3>2. scan_json \notin {NoFile, <<>>} => scan_json[1] \in Versions
            <4> SUFFICES ASSUME scan_json \notin {NoFile, <<>>} PROVE scan_json[1] \in Versions
                OBVIOUS
            <4>1. scan_json \in Content /\ scan_json \in Seq(Versions)
                BY VersionsAreNumbers DEF TypeOK
            <4>2. 1 \in 1..Len(scan_json)
                BY <4>1, VersionsAreNumbers, EmptySeq
            <4> QED BY <4>1, <4>2, ElementOfSeq
        <3> QED BY <1>8, <3>1, <3>2 DEF Open, Version, Contents, Whole, TypeOK
    <2>2. (TypeOK /\ Domains)'
        <3>1. /\ UNCHANGED <<tree, scanner, restarts>> /\ copying' = <<u, path>>
              /\ mixed' \subseteq Uploads
              /\ snapshot' = [snapshot EXCEPT ![u] = <<>>] /\ size' = [size EXCEPT ![u] = NotOpen]
              /\ since' = [since EXCEPT ![u] = Version(path)]
              /\ data' = [data EXCEPT ![u] = Nothing] /\ Nothing \in [1..Chunks -> 0..MaxVersion]
            BY <1>8 DEF Open, TypeOK, Nothing
        <3> QED BY <2>1, <3>1 DEF TypeOK, Domains, scanner
    <2>3. Scanning
        BY <1>8 DEF Open, scanner, WriterHoldsLock, Progress, ListingIsOneVersion
    <2> QED BY <2>2, <2>3
<1>9. ASSUME NEW u \in Uploads, NEW path \in Paths, CopyChunk(u, path) PROVE IInv'
    <2>1. copying' = <<u, path>> /\ copying = <<u, path>>
        BY <1>9 DEF CopyChunk
    <2>2. snapshot'[u] \in Content
        BY <2>1 DEF CopyIsSteady, Copied
    <2>3. \A w \in Uploads \ {u} : snapshot'[w] = snapshot[w]
        BY <1>9 DEF CopyChunk, Domains
    <2>4. (TypeOK /\ Domains)'
        BY <1>9, <2>2, <2>3 DEF CopyChunk, TypeOK, Domains, scanner
    <2>5. Scanning
        BY <1>9 DEF CopyChunk, scanner, WriterHoldsLock, Progress, ListingIsOneVersion
    <2> QED BY <2>4, <2>5
<1>10. ASSUME NEW u \in Uploads, NEW path \in Paths, Opened(u, path) PROVE IInv'
    <2>1. snapshot[u] \in Content
        BY <1>10 DEF Opened, CopyIsSteady, Copied
    <2>2. Len(snapshot[u]) \in 0..Chunks
        BY <2>1, ContentIsFile, VersionsAreNumbers
    <2>3. (TypeOK /\ Domains)'
        BY <1>10, <2>2 DEF Opened, TypeOK, Domains, scanner
    <2>4. Scanning
        BY <1>10 DEF Opened, scanner, WriterHoldsLock, Progress, ListingIsOneVersion
    <2> QED BY <2>3, <2>4
<1>11. ASSUME NEW u \in Uploads, OpenFails(u) \/ CloseUpload(u) PROVE IInv'
    <2>1. (TypeOK /\ Domains)'
        <3>1. /\ UNCHANGED <<tree, scanner, copying, since, mixed, restarts>>
              /\ \/ snapshot' = snapshot
                 \/ snapshot' = [snapshot EXCEPT ![u] = NoFile]
              /\ size' = [size EXCEPT ![u] = NotOpen]
              /\ data' = [data EXCEPT ![u] = Nothing] /\ Nothing \in [1..Chunks -> 0..MaxVersion]
            BY <1>11 DEF OpenFails, CloseUpload, TypeOK, Nothing
        <3> QED BY <3>1 DEF TypeOK, Domains, scanner
    <2>2. Scanning
        BY <1>11 DEF OpenFails, CloseUpload, scanner, WriterHoldsLock, Progress,
                     ListingIsOneVersion
    <2> QED BY <2>1, <2>2
<1>12. ASSUME NEW u \in Uploads, NEW i \in 1..Chunks, Read(u, i) PROVE IInv'
    <2>1. snapshot[u] \in Content
        BY <1>12 DEF Read, SnapshotIsSteady, Snapshot
    <2>2. ChunkAt(u, i) \in 0..MaxVersion
        <3>1. \A n \in 0..Chunks : \A c \in [1..n -> Versions] : \A k \in DOMAIN c :
                 c[k] \in Versions
            OBVIOUS
        <3> QED BY <2>1, <3>1 DEF ChunkAt, Content, Versions
    <2>3. data' = [data EXCEPT ![u][i] = ChunkAt(u, i)]
        BY <1>12, <2>1, ContentIsFile DEF Read
    <2>4. (TypeOK /\ Domains)'
        BY <1>12, <2>2, <2>3 DEF Read, TypeOK, Domains, scanner
    <2>5. Scanning
        BY <1>12 DEF Read, scanner, WriterHoldsLock, Progress, ListingIsOneVersion
    <2> QED BY <2>4, <2>5
<1>13. CASE CopyFails \/ UserChanges \/ UNCHANGED vars
    <2>1. (TypeOK /\ Domains)'
        <3>1. /\ UNCHANGED <<restarts, scanner, snapshot, since, size, data>>
              /\ tree' = tree \/ (tree < MaxVersion /\ tree' = tree + 1)
              /\ copying' \in {copying, Idle} /\ mixed' \subseteq mixed \cup Uploads
            BY <1>13 DEF CopyFails, UserChanges, Disturbs, vars, uploads
        <3>2. tree' \in Versions /\ mixed' \subseteq Uploads
            BY <3>1 DEF TypeOK, Versions
        <3> QED BY <3>1, <3>2 DEF TypeOK, Domains, scanner
    <2>2. Scanning
        BY <1>13 DEF CopyFails, UserChanges, vars, scanner, uploads, WriterHoldsLock, Progress,
                     ListingIsOneVersion
    <2> QED BY <2>1, <2>2
<1>14. CASE Restart
    <2>1. (TypeOK /\ Domains)'
        BY <1>14 DEF Restart, TypeOK, Domains, Places, Resting, uploads
    <2>2. \A s \in Scans : at'[s] \notin InLock /\ (at'[s] \in Before => at'[s] = at[s])
        BY <1>14 DEF Restart, Resting, InLock, Before
    <2>3. Scanning
        BY <1>14, <2>2 DEF Restart, WriterHoldsLock, Progress, ListingIsOneVersion, InLock
    <2> QED BY <2>1, <2>3
<1> QED BY <1>1, <1>2, <1>3, <1>4, <1>5, <1>6, <1>7, <1>8, <1>9, <1>10, <1>11, <1>12, <1>13,
        <1>14
        DEF Next, ThreadStep

-----------------------------------------------------------------------------
(* A step of the composition is one of a part, and the other waits.        *)
LEMMA Invariance == DirectorySpec => [](IInv /\ WalkInv)
<1>1. DirectoryInit => IInv /\ WalkInv
    BY InitIInv, InitWalk DEF DirectoryInit
<1>2. IInv /\ WalkInv /\ [DirectoryNext]_<<part, vars, walkVars>> => (IInv /\ WalkInv)'
    <2> SUFFICES ASSUME IInv, WalkInv, [DirectoryNext]_<<part, vars, walkVars>>
                 PROVE  (IInv /\ WalkInv)'
        OBVIOUS
    <2>1. [Next]_vars /\ [W!Next]_walkVars
        BY DEF DirectoryNext
    <2> QED BY <2>1, NextIInv, NextWalkInv
<1> QED BY <1>1, <1>2, PTL DEF DirectorySpec

(* The types of both models.                                               *)
THEOREM DirectoryTypesOK == DirectorySpec => []TypesOK
<1>1. IInv /\ WalkInv => TypesOK
    BY WalkTypes DEF IInv, TypesOK
<1> QED BY <1>1, Invariance, PTL

(* When a scan is reported, scan.json is the whole of what that scan saw,  *)
(* and no scan saw a later version.                                        *)
THEOREM DirectoryReportsWholeListing == DirectorySpec => []ReportedListingIsWhole
<1>1. IInv => ReportedListingIsWhole
    BY UniformIsWhole DEF IInv, Progress, NewestWrites, ReportedListingIsWhole
<1> QED BY <1>1, Invariance, PTL

(* What the server reads of an upload is one snapshot, and has all the     *)
(* chunks the server was told of, whatever is scanned, changed, failed or  *)
(* restarted on the way.  It is of one version, unless its source was      *)
(* written while it was copied.                                            *)
THEOREM DirectoryUploadIsSnapshot == DirectorySpec => []UploadIsSnapshot
<1>1. IInv => UploadIsSnapshot
    <2> SUFFICES ASSUME IInv, NEW u \in Uploads, size[u] # NotOpen
                 PROVE  /\ snapshot[u] # NoFile /\ Len(snapshot[u]) = size[u]
                        /\ \A i \in 1..size[u] : /\ data[u][i] \in {0, snapshot[u][i]}
                                                 /\ since[u] <= snapshot[u][i]
                        /\ \A i, j \in 1..size[u] :
                              i <= j => /\ snapshot[u][i] <= snapshot[u][j]
                                        /\ u \in mixed \/ snapshot[u][i] = snapshot[u][j]
        BY DEF UploadIsSnapshot
    <2>1. Snapshot(u) /\ size[u] \in Nat
        BY DEF IInv, SnapshotIsSteady, TypeOK
    <2>2. \A i \in 1..size[u] : i <= i
        BY <2>1
    <2> QED BY <2>1, <2>2, ContentIsFile DEF Snapshot, Steady
<1> QED BY <1>1, Invariance, PTL

(* The listing that a walk returns is the tree: for any file system, any   *)
(* order of the entries, links, errors and inode numbers, nothing is in it *)
(* that is not there, twice, or without its parent, and nothing is missing *)
(* from it but what is taken for something named, by its inode number.     *)
THEOREM DirectoryListingIsTree == DirectorySpec => []ListingIsTree
<1>1. WalkInv => ListingIsTree
    BY WalkListing
<1> QED BY <1>1, Invariance, PTL
=============================================================================
