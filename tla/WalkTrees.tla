----------------------------- MODULE WalkTrees -----------------------------
(* The file systems that DirectoryWalk is checked on: directories r, a and *)
(* b, with b in a or beside it, a file in b, links to directories above,   *)
(* below and beside them, to a file or to nothing, a hidden link, an       *)
(* unreadable directory and a link whose inode() fails; and with two       *)
(* mounts, a directory or a link that has the inode number of another.     *)
EXTENDS Naturals, TLC

Nodes == {"r", "a", "b"}

Dir(name)      == [name |-> name, link |-> FALSE, to |-> name]
Leaf(name)     == [name |-> name, link |-> FALSE, to |-> "file"]
Link(name, to) == [name |-> name, link |-> TRUE, to |-> to]

At(dir, name, to) == [dir |-> dir, entry |-> Link(name, to)]
NoLink == At("nowhere", "m", "nowhere")

Mounts(parent, l, m, unreadable, failing, shared) ==
    [entries |-> [n \in Nodes |->
        (IF n = "r" THEN {Dir("a"), Link(".h", "r")} ELSE {})
            \cup (IF n = parent THEN {Dir("b")} ELSE {})
            \cup (IF n = "b" THEN {Leaf("f")} ELSE {})
            \cup {x.entry : x \in {y \in {l, m} : y.dir = n}}],
     unreadable |-> unreadable, failing |-> failing, shared |-> shared]
Tree(parent, l, m, unreadable, failing) ==
    Mounts(parent, l, m, unreadable, failing, <<>>)
NoTree == [entries |-> [n \in {} |-> {}], unreadable |-> {}, failing |-> {}, shared |-> <<>>]

OneMount ==
    LET Links == {At(dir, "l", to) : dir \in Nodes, to \in Nodes} IN
    {Tree(parent, l, m, {}, {}) :
         parent \in {"r", "a"}, l \in Links, m \in {NoLink, At("b", "m", "a")}}
    \cup {Tree("a", l, NoLink, {"a"}, {}) : l \in Links}
    \cup {Tree("a", l, NoLink, {}, {"l"}) : l \in Links}
    \cup {Tree("a", At("a", "l", "file"), At("r", "m", "nowhere"), {}, {}),
          Tree("a", NoLink, NoLink, {"r"}, {}), NoTree}

(* b or the link l is on another mount, with the number of a.              *)
Trees == OneMount \cup
    {Mounts(parent, At("b", "l", "r"), NoLink, {}, {}, inode :> <<"a", "">>) :
         parent \in {"r", "a"}, inode \in {<<"b", "">>, <<"b", "l">>}}
=============================================================================
