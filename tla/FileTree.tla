------------------------------ MODULE FileTree ------------------------------
(***************************************************************************)
(* What a file system promises its user: one tree of directories and files *)
(* in which a command changes the node it names and nothing else, a write  *)
(* stores what was produced or adds it to what the file holds, and         *)
(* everything that is there can be reached from the root.  WriteFS, which  *)
(* keeps its changes beside a read-only base, implements it.               *)
(***************************************************************************)
EXTENDS Paths

VARIABLE tree   \* the node at each path; Lost once nothing is promised

Kept == tree[<<>>] = Directory
Set(p, node) == tree'[p] = node /\ tree' = [tree EXCEPT ![p] = node]

Init == tree = Base

\* What a command can produce: nothing, a chunk of its own, or what a file of
\* the tree holds.
Data == {<<>>} \cup {<<c>> : c \in Chunks}
               \cup {tree[p].data : p \in {q \in Names : tree[q].kind = "file"}}

\* A file is created or replaced: it holds what the command produced.
Put(p, c) ==
    /\ Kept /\ tree[p] # Directory /\ tree[Dir(p)] = Directory
    /\ Set(p, File(c))

\* What the command produced goes to the end of a file.
Extend(p, c) ==
    /\ Kept /\ tree[p].kind = "file"
    /\ Set(p, File(tree[p].data \o c))

Delete(p) ==
    /\ Kept /\ tree[p].kind = "file"
    /\ Set(p, Absent)

MakeDir(p) ==
    /\ Kept /\ tree[p] = Absent /\ tree[Dir(p)] = Directory
    /\ Set(p, Directory)

RemoveDir(p) ==
    /\ Kept /\ p # <<>> /\ tree[p] = Directory
    /\ \A q \in Children(p) : tree[q] = Absent
    /\ Set(p, Absent)

\* A file gets another name, replacing the file that had it.
Move(p, q) ==
    /\ Kept /\ p # q /\ tree[p].kind = "file"
    /\ tree[q] # Directory /\ tree[Dir(q)] = Directory
    /\ tree'[p] = Absent /\ tree' = [tree EXCEPT ![q] = tree[p], ![p] = Absent]

\* The user does what no promise covers.
Lose == tree' = Lost

Next ==
    \/ \E p \in Names : \/ Delete(p) \/ MakeDir(p) \/ RemoveDir(p)
                        \/ \E c \in Data : Put(p, c) \/ Extend(p, c)
                        \/ \E q \in Names : Move(p, q)
    \/ Lose

Spec == Init /\ [][Next]_tree
=============================================================================
