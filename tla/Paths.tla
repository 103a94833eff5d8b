------------------------------- MODULE Paths -------------------------------
(* Paths, and what may be found at one: the vocabulary of FileTree and     *)
(* WriteFS.  A path is the sequence of its components, the root <<>>.      *)
EXTENDS Integers, Sequences, TLC, FiniteSetsExt, Functions

CONSTANTS Names,     \* the paths that may be used
          Chunks,    \* the pieces files are made of, all of one size
          MaxBytes,  \* the bound of all files together, in chunks
          Base       \* the tree that is there at the start

Contents == UNION {[1..n -> Chunks] : n \in 0..MaxBytes}

Absent    == [kind |-> "absent"]
Directory == [kind |-> "dir"]
File(c)   == [kind |-> "file", data |-> c]

\* Of a whole tree: nothing is promised of it any more.
Lost == [p \in Names |-> [kind |-> "lost"]]

Node == {Absent, Directory} \cup {File(c) : c \in Contents}

\* path.Dir, path.Base and path.Join.
Dir(p)        == IF p = <<>> THEN p ELSE SubSeq(p, 1, Len(p) - 1)
BaseName(p)   == p[Len(p)]
Join(p, name) == p \o <<name>>

Children(p) == {q \in Names : q # <<>> /\ Dir(q) = p}

ASSUME PathsAssumption ==
    /\ <<>> \in Names /\ \A p \in Names : Dir(p) \in Names
    /\ MaxBytes \in Nat
    /\ Base \in [Names -> Node] /\ Base[<<>>] = Directory
    /\ \A p \in Names : Base[p] # Absent => Base[Dir(p)] = Directory
=============================================================================
