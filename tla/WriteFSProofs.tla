--------------------------- MODULE WriteFSProofs ---------------------------
(***************************************************************************)
(* What holds of the shell's file system whatever the names, the base tree *)
(* and the limit are: the overlay's invariant and the properties it gives, *)
(* and that the overlay behaves as one file tree.                          *)
(*                                                                         *)
(* The argument has two halves.  The limit needs facts about sums over the *)
(* written files (SizeSums) and says nothing of paths; the shape of the    *)
(* tree needs that the three places a name may be in stay apart, and says  *)
(* nothing of sizes.                                                       *)
(***************************************************************************)
EXTENDS WriteFS, SizeSums

-----------------------------------------------------------------------------
(* Data and sizes *)

LEMMA ContentsAre == \A c : c \in Contents <=> c \in Seq(Chunks) /\ Len(c) <= MaxBytes
BY PathsAssumption DEF Contents

\* What the variable files may hold.
Filed(f) == /\ DOMAIN f \subseteq Names \ {<<>>} /\ \A p \in DOMAIN f : f[p] \in Contents
            /\ IsFiniteSet(DOMAIN f) /\ Total(f, DOMAIN f) <= MaxBytes

\* f with data at p: With, of any f.
Put(f, p, data) == [q \in DOMAIN f \cup {p} |-> IF q = p THEN data ELSE f[q]]

LEMMA SpaceIs == \A S : MapThenSumSet(Size, S) = Total(files, S)
BY DEF Total, MapThenSumSet, MapThenFoldSet, Size

LEMMA FiledSized == \A f : Filed(f) => Sized(f, DOMAIN f)
BY ContentsAre DEF Filed, Sized

\* A file that fits beside the others leaves the limit kept.
LEMMA FiledPut ==
    ASSUME NEW f, Filed(f), NEW p \in Names \ {<<>>}, NEW data \in Seq(Chunks),
           Total(f, DOMAIN f \ {p}) + Len(data) <= MaxBytes
    PROVE  data \in Contents /\ Filed(Put(f, p, data))
<1> DEFINE rest == DOMAIN f \ {p}
           g    == Put(f, p, data)
<1>1. /\ IsFiniteSet(rest) /\ IsFiniteSet(DOMAIN f \cup {p})
      /\ DOMAIN g = DOMAIN f \cup {p} /\ DOMAIN g \ {p} = rest /\ p \in DOMAIN g
      /\ g[p] = data /\ \A q \in rest : g[q] = f[q]
  BY FS_RemoveElement, FS_AddElement DEF Filed, Put
<1> HIDE DEF g
<1>2. Total(f, rest) \in Nat /\ Sized(f, rest)
  <2>1. Sized(f, rest)
    BY FiledSized DEF Sized
  <2>2. QED
    BY <1>1, <2>1, TotalType
<1>3. data \in Contents
  <2>1. Len(data) \in Nat /\ Len(data) <= MaxBytes
    BY <1>2, PathsAssumption
  <2>2. QED
    BY <2>1, ContentsAre
<1>4. DOMAIN g \subseteq Names \ {<<>>} /\ \A q \in DOMAIN g : g[q] \in Contents
  BY <1>1, <1>3 DEF Filed
<1>5. Sized(g, DOMAIN g)
  BY <1>4, ContentsAre DEF Sized
<1>6. Total(g, DOMAIN g) = Len(data) + Total(g, rest)
  BY <1>1, <1>5, TotalWithout
<1>7. Total(g, rest) = Total(f, rest)
  BY <1>1, TotalAgrees
<1>8. Total(g, DOMAIN g) <= MaxBytes
  BY <1>2, <1>6, <1>7
<1>9. QED
  BY <1>1, <1>3, <1>4, <1>8 DEF Filed, g

\* Taking a file away frees its space.
LEMMA FiledWithout ==
    ASSUME NEW f, Filed(f), NEW p
    PROVE  Filed(Restrict(f, DOMAIN f \ {p}))
<1> DEFINE rest == DOMAIN f \ {p}
           g    == Restrict(f, rest)
<1>1. DOMAIN g = rest /\ IsFiniteSet(rest) /\ \A q \in rest : g[q] = f[q]
  BY FS_RemoveElement DEF Filed, Restrict
<1> HIDE DEF g
<1>2. Total(g, rest) = Total(f, rest)
  BY <1>1, TotalAgrees
<1>3. Total(f, rest) <= MaxBytes
  <2>1. CASE p \in DOMAIN f
    <3>1. Total(f, DOMAIN f) = Len(f[p]) + Total(f, rest)
      BY <2>1, FiledSized, TotalWithout DEF Filed
    <3>2. Len(f[p]) \in Nat
      BY <2>1, FiledSized DEF Sized
    <3>3. Total(f, rest) \in Nat
      <4>1. Sized(f, rest)
        BY FiledSized DEF Sized
      <4>2. QED
        BY <1>1, <4>1, TotalType
    <3>4. QED
      BY <3>1, <3>2, <3>3, PathsAssumption DEF Filed
  <2>2. CASE p \notin DOMAIN f
    <3>1. rest = DOMAIN f
      BY <2>2
    <3>2. QED
      BY <3>1 DEF Filed
  <2>3. QED
    BY <2>1, <2>2
<1>4. QED
  BY <1>1, <1>2, <1>3 DEF Filed, g
-----------------------------------------------------------------------------
(* What is found at a path *)

LEMMA NodesDiffer == /\ Absent # Directory
                     /\ \A c : File(c) # Absent /\ File(c) # Directory /\ File(c).kind = "file"
                               /\ File(c).data = c
BY DEF Absent, Directory, File

LEMMA RootIsDir == TypeOK => IsDir(<<>>)
BY PathsAssumption DEF TypeOK, IsDir, Open

LEMMA OpenType == TypeOK => \A p \in Names : Open(p) \in Node
BY PathsAssumption DEF TypeOK, Open, Node

LEMMA FileData ==
    ASSUME NEW n \in Node
    PROVE  /\ n \notin {Absent, Directory} => n = File(n.data) /\ n.data \in Contents /\ n.kind = "file"
           /\ n.kind = "file" => n \notin {Absent, Directory}
BY DEF Node, File, Absent, Directory

\* What a command reads or prints, and what an append starts from, is data.
LEMMA ReadType == TypeOK => \A p \in Names : ReadFile(p) \in Seq(Chunks)
<1> SUFFICES ASSUME TypeOK, NEW p \in Names PROVE ReadFile(p) \in Seq(Chunks)
  OBVIOUS
<1>1. CASE IsFile(p)
  BY <1>1, OpenType, FileData, ContentsAre DEF ReadFile, IsFile, IsDir, Exists
<1>2. CASE ~IsFile(p)
  BY <1>2 DEF ReadFile
<1>3. QED
  BY <1>1, <1>2

LEMMA ShortData == <<>> \in Seq(Chunks) /\ \A c \in Chunks : <<c>> \in Seq(Chunks)
OBVIOUS

LEMMA OutputType == TypeOK => Outputs \subseteq Seq(Chunks)
<1> SUFFICES ASSUME TypeOK, NEW d \in Outputs PROVE d \in Seq(Chunks)
  OBVIOUS
<1>1. CASE d = <<>> \/ \E c \in Chunks : d = <<c>>
  BY <1>1, ShortData
<1>2. CASE \E p \in Names : d = ReadFile(p)
  BY <1>2, ReadType
<1>3. QED
  BY <1>1, <1>2 DEF Outputs

LEMMA StoredType ==
    ASSUME TypeOK, NEW p \in Names, NEW data \in Seq(Chunks), NEW append \in BOOLEAN
    PROVE  Existing(p) \in Seq(Chunks) /\ Stored(p, data, append) \in Seq(Chunks)
<1>1. Written(p) \in Seq(Chunks)
  BY ContentsAre DEF Written, TypeOK
<1>2. Base[p].kind = "file" => Base[p].data \in Seq(Chunks)
  BY PathsAssumption, FileData, ContentsAre
<1>3. Existing(p) \in Seq(Chunks)
  BY <1>1, <1>2 DEF Existing
<1>4. QED
  BY <1>3 DEF Stored

-----------------------------------------------------------------------------
(* The commands, and what each changes of the tree *)

\* Rename once its target is settled.
Renamed(p, q) ==
    /\ p # <<>> /\ Reads(p) /\ CanWrite(q) /\ checkSpace(q, ReadFile(p))
    /\ files' = Restrict(With(q, ReadFile(p)), (DOMAIN files \cup {q}) \ {p})
    /\ deleted' = (deleted \ {q}) \cup {p}
    /\ careful' = (careful /\ ~IsDir(p) /\ p # q)
    /\ UNCHANGED dirs

\* >, >>, touch and cp are all writes of what a command may print.
LEMMA Commands ==
    ASSUME TypeOK, Next
    PROVE  \/ \E p \in Names, data \in Outputs, append \in BOOLEAN : WriteFile(p, data, append)
           \/ \E p \in Names : Remove(p) \/ Mkdir(p) \/ Rmdir(p)
           \/ \E p \in Names, q \in Names : Renamed(p, q)
<1>1. PICK p \in Names :
        \/ \E append \in BOOLEAN : Redirect(p, append)
        \/ Remove(p) \/ Touch(p) \/ Mkdir(p) \/ Rmdir(p)
        \/ \E q \in Names : Cp(p, q) \/ Rename(p, q)
  BY DEF Next
<1>2. ASSUME NEW append \in BOOLEAN, Redirect(p, append)
      PROVE  \E data \in Outputs : WriteFile(p, data, append)
  BY <1>2 DEF Redirect
<1>3. ASSUME Touch(p) PROVE WriteFile(p, <<>>, FALSE) /\ <<>> \in Outputs
  BY <1>3, Zenon DEF Touch, Outputs
<1>4. ASSUME NEW t \in Names, Cp(p, t)
      PROVE  Into(p, t) \in Names /\ ReadFile(p) \in Outputs
             /\ WriteFile(Into(p, t), ReadFile(p), FALSE)
  BY <1>4 DEF Cp, Outputs
<1>5. ASSUME NEW t \in Names, Rename(p, t) PROVE Into(p, t) \in Names /\ Renamed(p, Into(p, t))
  BY <1>5 DEF Rename, Renamed
<1>6. QED
  BY <1>1, <1>2, <1>3, <1>4, <1>5

\* A node is replaced; the rest of the tree stays.
Becomes(p, node) == \A r \in Names : Open(r)' = IF r = p THEN node ELSE Open(r)

LEMMA WriteBecomes ==
    ASSUME TypeOK, careful, DirsThere, NEW p \in Names, NEW data, NEW append,
           WriteFile(p, data, append)
    PROVE  Becomes(p, File(Stored(p, data, append)))
<1> DEFINE c == Stored(p, data, append)
<1>1. files' = With(p, c) /\ deleted' = deleted \ {p} /\ dirs' = dirs
  BY DEF WriteFile
<1>2. p \notin dirs
  BY DEF WriteFile, CanWrite, IsDir, Open, DirsThere
<1>3. DOMAIN files' = DOMAIN files \cup {p} /\ files'[p] = c
      /\ \A r \in DOMAIN files : r # p => files'[r] = files[r]
  BY <1>1 DEF With
<1> HIDE DEF c
<1>4. QED
  BY <1>1, <1>2, <1>3 DEF Becomes, Open, c

LEMMA RemoveBecomes ==
    ASSUME NEW p \in Names, Remove(p)
    PROVE  Becomes(p, Absent)
<1>1. DOMAIN files' = DOMAIN files \ {p} /\ \A r \in DOMAIN files : r # p => files'[r] = files[r]
  BY DEF Remove, Without, Restrict
<1>2. QED
  BY <1>1 DEF Remove, Becomes, Open

LEMMA MkdirBecomes ==
    ASSUME NEW p \in Names, Mkdir(p)
    PROVE  Becomes(p, Directory)
BY DEF Mkdir, Becomes, Open

LEMMA RmdirBecomes ==
    ASSUME NEW p \in Names, Rmdir(p)
    PROVE  Becomes(p, Absent)
BY DEF Rmdir, Becomes, Open

\* What is read from a file is what is written under the new name.
LEMMA RenameBecomes ==
    ASSUME TypeOK, careful, DirsThere, NEW p \in Names, NEW q \in Names, Renamed(p, q), careful'
    PROVE  /\ p # q /\ IsFile(p) /\ Open(p).kind = "file" /\ p \notin dirs /\ q \notin dirs
           /\ \A r \in Names : Open(r)' = IF r = p THEN Absent ELSE IF r = q THEN Open(p) ELSE Open(r)
<1>1. p # q /\ IsFile(p)
  BY DEF Renamed, Reads, IsFile
<1>2. p \notin dirs /\ q \notin dirs
  BY <1>1 DEF Renamed, CanWrite, IsDir, IsFile, Exists, Open, DirsThere
<1>3. Open(p) = File(ReadFile(p)) /\ Open(p).kind = "file"
  BY <1>1, OpenType, FileData DEF IsFile, IsDir, Exists, ReadFile
<1>4. /\ DOMAIN files' = (DOMAIN files \cup {q}) \ {p} /\ files'[q] = ReadFile(p)
      /\ \A r \in DOMAIN files : r # p /\ r # q => files'[r] = files[r]
  BY <1>1 DEF Renamed, Restrict, With
<1>5. deleted' = (deleted \ {q}) \cup {p} /\ dirs' = dirs
  BY DEF Renamed
<1>6. ASSUME NEW r \in Names
      PROVE  Open(r)' = IF r = p THEN Absent ELSE IF r = q THEN Open(p) ELSE Open(r)
  <2>1. CASE r = p
    BY <2>1, <1>5 DEF Open
  <2>2. CASE r = q
    <3>1. Open(q)' = File(ReadFile(p))
      BY <1>1, <1>2, <1>4, <1>5 DEF Open
    <3>2. QED
      BY <2>2, <3>1, <1>1, <1>3
  <2>3. CASE r # p /\ r # q
    BY <2>3, <1>4, <1>5 DEF Open
  <2>4. QED
    BY <2>1, <2>2, <2>3
<1>7. QED
  BY <1>1, <1>2, <1>3, <1>6
-----------------------------------------------------------------------------
(* The invariant *)

\* The root is a directory, so no command writes or removes it as a file.
LEMMA NotTheRoot ==
    ASSUME TypeOK, NEW p \in Names, ~IsDir(p)
    PROVE  p \in Names \ {<<>>}
BY RootIsDir

\* The types of the variables, and the limit.
LEMMA TypesStep ==
    ASSUME TypeOK, Filed(files), [Next]_vars
    PROVE  TypeOK' /\ Filed(files')
<1>1. ASSUME NEW p \in Names, NEW data \in Outputs, NEW append \in BOOLEAN,
             WriteFile(p, data, append)
      PROVE  TypeOK' /\ Filed(files')
  <2> DEFINE c == Stored(p, data, append)
  <2>1. p \in Names \ {<<>>} /\ c \in Seq(Chunks)
    BY <1>1, NotTheRoot, OutputType, StoredType DEF WriteFile, CanWrite
  <2>2. Total(files, DOMAIN files \ {p}) + Len(c) <= MaxBytes /\ files' = Put(files, p, c)
    BY <1>1, SpaceIs DEF WriteFile, checkSpace, With, Put
  <2>3. Filed(files')
    BY <2>1, <2>2, FiledPut
  <2>4. careful' \in BOOLEAN
    BY <1>1, Zenon DEF WriteFile
  <2>5. dirs' = dirs /\ deleted' = deleted \ {p}
    BY <1>1 DEF WriteFile
  <2>6. QED
    BY <2>3, <2>4, <2>5 DEF TypeOK, Filed
<1>2. ASSUME NEW p \in Names, Remove(p) PROVE TypeOK' /\ Filed(files')
  <2>1. p \in Names \ {<<>>}
    BY <1>2, NotTheRoot DEF Remove, IsFile
  <2>2. Filed(files')
    BY <1>2, FiledWithout DEF Remove, Without
  <2>3. QED
    BY <1>2, <2>1, <2>2 DEF Remove, TypeOK, Filed
<1>3. ASSUME NEW p \in Names, Mkdir(p) PROVE TypeOK' /\ Filed(files')
  BY <1>3 DEF Mkdir, TypeOK
<1>4. ASSUME NEW p \in Names, Rmdir(p) PROVE TypeOK' /\ Filed(files')
  BY <1>4 DEF Rmdir, TypeOK
<1>5. ASSUME NEW p \in Names, NEW q \in Names, Renamed(p, q) PROVE TypeOK' /\ Filed(files')
  <2> DEFINE c == ReadFile(p)
             g == Put(files, q, c)
  <2>1. q \in Names \ {<<>>} /\ c \in Seq(Chunks)
    BY <1>5, NotTheRoot, ReadType DEF Renamed, CanWrite
  <2>2. Total(files, DOMAIN files \ {q}) + Len(c) <= MaxBytes
    BY <1>5, SpaceIs DEF Renamed, checkSpace
  <2>3. Filed(g)
    BY <2>1, <2>2, FiledPut
  <2>4. files' = Restrict(g, DOMAIN g \ {p})
    BY <1>5 DEF Renamed, With, Put
  <2>5. Filed(files')
    BY <2>3, <2>4, FiledWithout
  <2>6. careful' \in BOOLEAN
    BY <1>5, Zenon DEF Renamed
  <2>7. dirs' = dirs /\ deleted' = (deleted \ {q}) \cup {p} /\ p # <<>>
    BY <1>5 DEF Renamed
  <2>8. QED
    BY <2>5, <2>6, <2>7 DEF TypeOK, Filed
<1>6. CASE UNCHANGED vars
  BY <1>6 DEF vars, TypeOK
<1>7. QED
  BY <1>1, <1>2, <1>3, <1>4, <1>5, <1>6, Commands

\* The user who was not careful stays so.
LEMMA CarefulStays == ASSUME TypeOK, [Next]_vars, careful' PROVE careful
<1>1. CASE Next
  BY <1>1, Commands, Zenon DEF WriteFile, Remove, Mkdir, Rmdir, Renamed
<1>2. CASE UNCHANGED vars
  BY <1>2 DEF vars
<1>3. QED
  BY <1>1, <1>2

\* Made directories, removed names and written files stay apart.
LEMMA ApartStep ==
    ASSUME TypeOK, CountedFilesReadable, DirsThere, [Next]_vars
    PROVE  CountedFilesReadable' /\ DirsThere'
<1> SUFFICES ASSUME careful, careful'
             PROVE  /\ \A p \in DOMAIN files' : p \notin deleted' /\ p \notin dirs'
                    /\ dirs' \cap deleted' = {}
  <2>1. ASSUME ~careful' PROVE CountedFilesReadable' /\ DirsThere'
    BY <2>1 DEF CountedFilesReadable, DirsThere
  <2>2. ASSUME \A p \in DOMAIN files' : p \notin deleted' /\ p \notin dirs', dirs' \cap deleted' = {}
        PROVE  CountedFilesReadable' /\ DirsThere'
    BY <2>2 DEF CountedFilesReadable, DirsThere, Open
  <2>3. QED
    BY <2>1, <2>2, CarefulStays
<1>0. /\ \A p \in DOMAIN files : p \notin deleted /\ p \notin dirs
      /\ dirs \cap deleted = {}
  BY NodesDiffer DEF CountedFilesReadable, DirsThere, Open
<1>1. ASSUME NEW p \in Names, NEW data \in Outputs, NEW append \in BOOLEAN,
             WriteFile(p, data, append)
      PROVE  /\ \A r \in DOMAIN files' : r \notin deleted' /\ r \notin dirs'
             /\ dirs' \cap deleted' = {}
  <2>1. p \notin dirs /\ DOMAIN files' = DOMAIN files \cup {p}
    BY <1>0, <1>1 DEF WriteFile, With, CanWrite, IsDir, Open
  <2>2. dirs' = dirs /\ deleted' = deleted \ {p}
    BY <1>1 DEF WriteFile
  <2>3. QED
    BY <1>0, <2>1, <2>2
<1>2. ASSUME NEW p \in Names, Remove(p)
      PROVE  /\ \A r \in DOMAIN files' : r \notin deleted' /\ r \notin dirs'
             /\ dirs' \cap deleted' = {}
  <2>1. p \notin dirs /\ DOMAIN files' = DOMAIN files \ {p}
    BY <1>0, <1>2 DEF Remove, Without, Restrict, IsFile, IsDir, Exists, Open
  <2>2. QED
    BY <1>0, <1>2, <2>1 DEF Remove
<1>3. ASSUME NEW p \in Names, Mkdir(p)
      PROVE  /\ \A r \in DOMAIN files' : r \notin deleted' /\ r \notin dirs'
             /\ dirs' \cap deleted' = {}
  <2>1. p \notin DOMAIN files
    BY <1>0, <1>3, NodesDiffer DEF Mkdir, Exists, Open
  <2>2. QED
    BY <1>0, <1>3, <2>1 DEF Mkdir
<1>4. ASSUME NEW p \in Names, Rmdir(p)
      PROVE  /\ \A r \in DOMAIN files' : r \notin deleted' /\ r \notin dirs'
             /\ dirs' \cap deleted' = {}
  <2>1. p \notin DOMAIN files
    BY <1>0, <1>4, NodesDiffer DEF Rmdir, IsDir, Open
  <2>2. QED
    BY <1>0, <1>4, <2>1 DEF Rmdir
<1>5. ASSUME NEW p \in Names, NEW q \in Names, Renamed(p, q)
      PROVE  /\ \A r \in DOMAIN files' : r \notin deleted' /\ r \notin dirs'
             /\ dirs' \cap deleted' = {}
  <2>1. p \notin dirs /\ q \notin dirs
    BY <1>5, RenameBecomes
  <2>2. DOMAIN files' = (DOMAIN files \cup {q}) \ {p}
    BY <1>5 DEF Renamed, Restrict
  <2>3. deleted' = (deleted \ {q}) \cup {p} /\ dirs' = dirs
    BY <1>5 DEF Renamed
  <2>4. QED
    BY <1>0, <2>1, <2>2, <2>3
<1>6. CASE UNCHANGED vars
  BY <1>0, <1>6 DEF vars
<1>7. QED
  BY <1>1, <1>2, <1>3, <1>4, <1>5, <1>6, Commands

\* The tree keeps its shape when a node in a directory is replaced by another,
\* unless it was a directory with something in it.
LEMMA ShapeKept ==
    ASSUME TypeOK, TreeShape, careful, NEW p \in Names, NEW node, Becomes(p, node),
           node # Absent => IsDir(Dir(p)) /\ Dir(p) # p,
           \A r \in Names : Exists(r) /\ r # p => Dir(r) # p
    PROVE  TreeShape'
<1> SUFFICES ASSUME NEW r \in Names, Exists(r)' PROVE IsDir(Dir(r))'
  BY DEF TreeShape
<1>1. Dir(r) \in Names /\ Dir(p) \in Names
  BY PathsAssumption
<1>2. CASE r = p
  BY <1>1, <1>2 DEF Becomes, Exists, IsDir
<1>3. CASE r # p
  <2>1. Exists(r)
    BY <1>3 DEF Becomes, Exists
  <2>2. IsDir(Dir(r)) /\ Dir(r) # p
    BY <1>3, <2>1 DEF TreeShape
  <2>3. QED
    BY <1>1, <2>2 DEF Becomes, IsDir
<1>4. QED
  BY <1>2, <1>3

\* Nothing lies in what is no directory.
LEMMA Childless ==
    ASSUME TreeShape, careful, NEW p, ~IsDir(p)
    PROVE  \A r \in Names : Exists(r) => Dir(r) # p
BY DEF TreeShape

\* What may be written lies in a directory.
LEMMA WritableHasDir ==
    ASSUME TypeOK, NEW p, CanWrite(p)
    PROVE  ~IsDir(p) /\ IsDir(Dir(p)) /\ Dir(p) # p
BY RootIsDir DEF CanWrite

\* A directory that lists nothing holds nothing.
LEMMA EmptyDir ==
    ASSUME NEW p \in Names, p # <<>>, ReadDir(p) = {}
    PROVE  /\ \A q \in Children(p) : ~Exists(q)
           /\ \A r \in Names : Exists(r) => Dir(r) # p
<1>1. \A q \in Children(p) : ~Exists(q)
  BY DEF ReadDir, Exists, Open
<1>2. \A r \in Names : Dir(r) = p => r \in Children(p)
  BY DEF Children, Dir
<1>3. QED
  BY <1>1, <1>2

LEMMA ShapeStep ==
    ASSUME TypeOK, DirsThere, TreeShape, [Next]_vars
    PROVE  TreeShape'
<1> SUFFICES ASSUME careful, careful' PROVE TreeShape'
  <2>1. ~careful' => TreeShape'
    BY DEF TreeShape
  <2>2. QED
    BY <2>1, CarefulStays
<1>1. ASSUME NEW p \in Names, NEW data \in Outputs, NEW append \in BOOLEAN,
             WriteFile(p, data, append)
      PROVE  TreeShape'
  <2>1. ~IsDir(p) /\ IsDir(Dir(p)) /\ Dir(p) # p
    BY <1>1, WritableHasDir DEF WriteFile
  <2>2. QED
    BY <1>1, <2>1, WriteBecomes, Childless, ShapeKept
<1>2. ASSUME NEW p \in Names, Remove(p) PROVE TreeShape'
  <2>1. ~IsDir(p)
    BY <1>2 DEF Remove, IsFile
  <2>2. QED
    BY <1>2, <2>1, RemoveBecomes, Childless, ShapeKept
<1>3. ASSUME NEW p \in Names, Mkdir(p) PROVE TreeShape'
  <2>1. ~IsDir(p) /\ IsDir(Dir(p)) /\ Dir(p) # p
    BY <1>3, NodesDiffer DEF Mkdir, IsDir, Exists
  <2>2. QED
    BY <1>3, <2>1, MkdirBecomes, Childless, ShapeKept
<1>4. ASSUME NEW p \in Names, Rmdir(p) PROVE TreeShape'
  <2>1. \A r \in Names : Exists(r) => Dir(r) # p
    BY <1>4, EmptyDir DEF Rmdir
  <2>2. QED
    BY <1>4, <2>1, RmdirBecomes, ShapeKept
<1>5. ASSUME NEW p \in Names, NEW q \in Names, Renamed(p, q) PROVE TreeShape'
  <2>1. /\ p # q /\ IsFile(p)
        /\ \A r \in Names : Open(r)' = IF r = p THEN Absent ELSE IF r = q THEN Open(p) ELSE Open(r)
    BY <1>5, RenameBecomes
  <2>2. ~IsDir(p) /\ ~IsDir(q) /\ IsDir(Dir(q))
    BY <1>5, <2>1, WritableHasDir DEF Renamed, IsFile
  <2>3. ASSUME NEW r \in Names, Exists(r)' PROVE IsDir(Dir(r))'
    <3>1. Dir(r) \in Names
      BY PathsAssumption
    <3>2. IsDir(Dir(r))
      <4>1. r = q \/ (r # p /\ Exists(r))
        BY <2>1, <2>3 DEF Exists
      <4>2. QED
        BY <2>2, <4>1 DEF TreeShape
    <3>3. Dir(r) # p /\ Dir(r) # q
      BY <2>2, <3>2
    <3>4. QED
      BY <2>1, <3>1, <3>2, <3>3 DEF IsDir
  <2>4. QED
    BY <2>3 DEF TreeShape
<1>6. CASE UNCHANGED vars
  BY <1>6 DEF vars, TreeShape, Exists, IsDir, Open
<1>7. QED
  BY <1>1, <1>2, <1>3, <1>4, <1>5, <1>6, Commands

LEMMA FiledIs == TypeOK /\ IsFiniteSet(DOMAIN files) /\ QuotaHolds <=> TypeOK /\ Filed(files)
BY SpaceIs DEF TypeOK, QuotaHolds, Filed

LEMMA OverlayInit == Init => OverlayInv
<1> SUFFICES ASSUME Init PROVE OverlayInv
  OBVIOUS
<1>1. DOMAIN files = {} /\ dirs = {} /\ deleted = {} /\ careful = TRUE
  BY DEF Init
<1>2. TypeOK /\ CountedFilesReadable /\ DirsThere
  BY <1>1 DEF TypeOK, CountedFilesReadable, DirsThere
<1>3. Filed(files)
  BY <1>1, TotalEmpty, FS_EmptySet, PathsAssumption DEF Filed
<1>4. \A p \in Names : Open(p) = Base[p]
  BY <1>1 DEF Open
<1>5. TreeShape
  BY <1>4, PathsAssumption DEF TreeShape, Exists, IsDir
<1>6. QED
  BY <1>2, <1>3, <1>5, FiledIs DEF OverlayInv

\* Every command of the shell keeps the limit, the types and the shape of the
\* overlay: the invariant is inductive.
THEOREM OverlayInvariant == Spec => []OverlayInv
<1>1. OverlayInv /\ [Next]_vars => OverlayInv'
  <2> SUFFICES ASSUME OverlayInv, [Next]_vars PROVE OverlayInv'
    OBVIOUS
  <2>1. TypeOK /\ Filed(files) /\ CountedFilesReadable /\ DirsThere /\ TreeShape
    BY FiledIs DEF OverlayInv
  <2>2. TypeOK' /\ Filed(files')
    BY <2>1, TypesStep
  <2>3. (TypeOK /\ IsFiniteSet(DOMAIN files) /\ QuotaHolds)'
    <3>1. (TypeOK /\ IsFiniteSet(DOMAIN files) /\ QuotaHolds)' <=> (TypeOK /\ Filed(files))'
      BY FiledIs, PTL
    <3>2. QED
      BY <2>2, <3>1
  <2>4. CountedFilesReadable' /\ DirsThere' /\ TreeShape'
    BY <2>1, ApartStep, ShapeStep
  <2>5. QED
    BY <2>3, <2>4 DEF OverlayInv
<1>2. QED
  BY <1>1, OverlayInit, PTL DEF Spec

\* The variables keep their types and nothing is ever written, made or removed
\* at the root (fs.go): that no file exceeds the limit on its own needs that the
\* sizes of the others, which checkSpace adds to it, are not negative.
THEOREM WriteFSTypeOK == Spec => []TypeOK
BY OverlayInvariant, PTL DEF OverlayInv

\* The written files together never exceed the limit, for every limit and every
\* number of files: checkSpace looks at the sizes before each write, appended
\* data and renamed files included, and a removal only frees space.
THEOREM WriteFSQuotaHolds == Spec => []QuotaHolds
BY OverlayInvariant, PTL DEF OverlayInv

\* Of a careful user every file that uses space can be read: WriteFile, Remove,
\* Mkdir, Rmdir and Rename keep files, dirs and deleted apart.
THEOREM WriteFSCountedFilesReadable == Spec => []CountedFilesReadable
BY OverlayInvariant, PTL DEF OverlayInv

\* Of a careful user everything lies in a directory that exists, although Open
\* looks at one name only: Rmdir's look at ReadDir is enough for it.
THEOREM WriteFSTreeShape == Spec => []TreeShape
BY OverlayInvariant, PTL DEF OverlayInv

-----------------------------------------------------------------------------
(* What a write stores *)

\* Of a careful user an append starts from nothing where no file is found.
LEMMA NothingExisting ==
    ASSUME CountedFilesReadable, careful, NEW p \in Names, ~Exists(p)
    PROVE  Existing(p) = <<>>
<1>1. p \notin DOMAIN files
  BY NodesDiffer DEF CountedFilesReadable, Exists
<1>2. p \in deleted \/ Base[p] = Absent
  BY <1>1, NodesDiffer DEF Exists, Open
<1>3. QED
  BY <1>1, <1>2 DEF Existing, Written, Absent

\* What WriteFile stores, in terms of what is found at the path.
LEMMA StoredIs ==
    ASSUME TypeOK, CountedFilesReadable, careful, careful',
           NEW p \in Names, NEW data \in Outputs, NEW append \in BOOLEAN,
           WriteFile(p, data, append)
    PROVE  /\ append /\ Exists(p) => Stored(p, data, append) = Open(p).data \o data
           /\ ~(append /\ Exists(p)) => Stored(p, data, append) = data /\ <<>> \o data = data
<1>1. CASE append /\ Exists(p)
  <2>1. Existing(p) = Open(p).data
    BY <1>1, Zenon DEF WriteFile
  <2>2. QED
    BY <1>1, <2>1 DEF Stored
<1>2. CASE ~(append /\ Exists(p))
  <2>1. <<>> \o data = data
    BY OutputType
  <2>2. append => Existing(p) = <<>>
    BY <1>2, NothingExisting
  <2>3. QED
    BY <1>2, <2>1, <2>2 DEF Stored
<1>3. QED
  BY <1>1, <1>2

\* A file holds what was last written to it, with what each append added since
\* (WriteFile, fs.go), for every base tree: what a removal hid stays hidden.
THEOREM WriteFSStores == Spec => WriteStores
<1> DEFINE stores(p, data, append) ==
             Open(p)' = File((IF append /\ Exists(p) THEN Open(p).data ELSE <<>>) \o data)
<1>1. ASSUME OverlayInv, careful', NEW p \in Names, NEW data \in Outputs,
             NEW append \in BOOLEAN, WriteFile(p, data, append)
      PROVE  stores(p, data, append)
  <2>1. careful
    BY <1>1, Zenon DEF WriteFile
  <2>2. Open(p)' = File(Stored(p, data, append))
    BY <1>1, <2>1, WriteBecomes DEF OverlayInv, Becomes
  <2>3. Stored(p, data, append) = (IF append /\ Exists(p) THEN Open(p).data ELSE <<>>) \o data
    BY <1>1, <2>1, StoredIs DEF OverlayInv
  <2>4. QED
    BY <2>2, <2>3
<1>2. OverlayInv => \A p \in Names, data \in Outputs, append \in BOOLEAN :
                      careful' /\ WriteFile(p, data, append) => stores(p, data, append)
  BY <1>1
<1>3. QED
  BY <1>2, OverlayInvariant, PTL DEF WriteStores

-----------------------------------------------------------------------------
(* The overlay behaves as one tree *)

\* The tree's vocabulary is the overlay's.
LEMMA SameNodes == /\ Tree!Absent = Absent /\ Tree!Directory = Directory /\ Tree!Lost = Lost
                   /\ \A c : Tree!File(c) = File(c)
                   /\ \A p : Tree!Dir(p) = Dir(p) /\ Tree!Children(p) = Children(p)
<1>1. Tree!Absent = Absent /\ Tree!Directory = Directory /\ \A c : Tree!File(c) = File(c)
  BY DEF Tree!Absent, Absent, Tree!Directory, Directory, Tree!File, File
<1>2. Tree!Lost = Lost
  BY DEF Tree!Lost, Lost
<1>3. \A p : Tree!Dir(p) = Dir(p)
  BY DEF Tree!Dir, Dir
<1>4. \A p : Tree!Children(p) = Children(p)
  BY <1>3 DEF Tree!Children, Children
<1>5. QED
  BY <1>1, <1>2, <1>3, <1>4

\* While the user is careful the tree shows what is found at every path.
LEMMA ShownIs == careful => /\ DOMAIN Shown = Names /\ \A p \in Names : Shown[p] = Open(p)
                            /\ Shown = [p \in Names |-> Open(p)]
BY DEF Shown

LEMMA ShownNext == careful' => Shown' = [p \in Names |-> Open(p)']
BY DEF Shown

LEMMA ShownKept == TypeOK /\ careful => Tree!Kept
BY RootIsDir, ShownIs, SameNodes, PathsAssumption DEF Tree!Kept, IsDir

LEMMA ShownSet ==
    ASSUME careful, careful', NEW p \in Names, NEW node, Becomes(p, node)
    PROVE  Tree!Set(p, node)
<1>1. Shown' = [r \in Names |-> IF r = p THEN node ELSE Open(r)]
  BY ShownNext DEF Becomes
<1>2. QED
  BY <1>1, ShownIs DEF Tree!Set

\* What a command may print is what the tree's commands may produce.
LEMMA OutputsShown == TypeOK /\ careful => Outputs \subseteq Tree!Data
<1> SUFFICES ASSUME TypeOK, careful, NEW d \in Outputs PROVE d \in Tree!Data
  OBVIOUS
<1>1. CASE d = <<>> \/ \E c \in Chunks : d = <<c>>
  BY <1>1 DEF Tree!Data
<1>2. ASSUME NEW p \in Names, d = ReadFile(p), IsFile(p) PROVE d \in Tree!Data
  <2>1. Shown[p].kind = "file" /\ d = Shown[p].data
    BY <1>2, OpenType, FileData, ShownIs DEF ReadFile, IsFile, IsDir, Exists
  <2>2. QED
    BY <2>1 DEF Tree!Data
<1>3. ASSUME NEW p \in Names, d = ReadFile(p), ~IsFile(p) PROVE d \in Tree!Data
  BY <1>1, <1>3 DEF ReadFile
<1>4. QED
  BY <1>1, <1>2, <1>3 DEF Outputs

\* A write creates, replaces or extends a file.
LEMMA WriteShown ==
    ASSUME TypeOK, CountedFilesReadable, DirsThere, careful, careful',
           NEW p \in Names, NEW data \in Outputs, NEW append \in BOOLEAN,
           WriteFile(p, data, append)
    PROVE  Tree!Put(p, data) \/ Tree!Extend(p, data)
<1> DEFINE c == Stored(p, data, append)
<1>1. Tree!Kept /\ Tree!Set(p, File(c))
  BY ShownKept, ShownSet, WriteBecomes
<1>2. ~IsDir(p) /\ IsDir(Dir(p)) /\ Dir(p) \in Names
  BY WritableHasDir, PathsAssumption DEF WriteFile
<1>3. Shown[p] # Tree!Directory /\ Shown[Tree!Dir(p)] = Tree!Directory
  BY <1>2, ShownIs, SameNodes DEF IsDir
<1>4. CASE append /\ Exists(p)
  <2>1. Shown[p].kind = "file"
    BY <1>2, <1>4, OpenType, FileData, ShownIs DEF Exists, IsDir
  <2>2. c = Shown[p].data \o data
    <3>1. c = Open(p).data \o data
      BY <1>4, StoredIs
    <3>2. QED
      BY <3>1, ShownIs, Zenon
  <2>3. QED
    BY <1>1, <2>1, <2>2, SameNodes DEF Tree!Extend
<1>5. CASE ~(append /\ Exists(p))
  <2>1. c = data
    BY <1>5, StoredIs
  <2>2. QED
    BY <1>1, <1>3, <2>1, SameNodes DEF Tree!Put
<1>6. QED
  BY <1>4, <1>5

LEMMA RemoveShown ==
    ASSUME TypeOK, careful, careful', NEW p \in Names, Remove(p)
    PROVE  Tree!Delete(p)
<1>1. Open(p).kind = "file"
  BY OpenType, FileData DEF Remove, IsFile, IsDir, Exists
<1>2. Tree!Kept /\ Tree!Set(p, Absent)
  BY ShownKept, ShownSet, RemoveBecomes
<1>3. QED
  BY <1>1, <1>2, ShownIs, SameNodes DEF Tree!Delete

LEMMA MkdirShown ==
    ASSUME TypeOK, careful, careful', NEW p \in Names, Mkdir(p)
    PROVE  Tree!MakeDir(p)
<1>1. Open(p) = Absent /\ Open(Dir(p)) = Directory /\ Dir(p) \in Names
  BY PathsAssumption DEF Mkdir, Exists, IsDir
<1>2. Tree!Kept /\ Tree!Set(p, Directory)
  BY ShownKept, ShownSet, MkdirBecomes
<1>3. QED
  BY <1>1, <1>2, ShownIs, SameNodes DEF Tree!MakeDir

LEMMA RmdirShown ==
    ASSUME TypeOK, careful, careful', NEW p \in Names, Rmdir(p)
    PROVE  Tree!RemoveDir(p)
<1>1. p # <<>> /\ Open(p) = Directory
  BY DEF Rmdir, IsDir
<1>2. \A q \in Children(p) : q \in Names /\ Open(q) = Absent
  BY EmptyDir DEF Rmdir, Exists, Children
<1>3. Tree!Kept /\ Tree!Set(p, Absent)
  BY ShownKept, ShownSet, RmdirBecomes
<1>4. QED
  BY <1>1, <1>2, <1>3, ShownIs, SameNodes DEF Tree!RemoveDir

LEMMA RenameShown ==
    ASSUME TypeOK, DirsThere, careful, careful', NEW p \in Names, NEW q \in Names, Renamed(p, q)
    PROVE  Tree!Move(p, q)
<1>1. /\ p # q /\ Open(p).kind = "file"
      /\ \A r \in Names : Open(r)' = IF r = p THEN Absent ELSE IF r = q THEN Open(p) ELSE Open(r)
  BY RenameBecomes
<1>2. Open(q) # Directory /\ Open(Dir(q)) = Directory /\ Dir(q) \in Names
  BY WritableHasDir, PathsAssumption DEF Renamed, IsDir
<1>3. Shown' = [r \in Names |-> IF r = p THEN Absent ELSE IF r = q THEN Open(p) ELSE Open(r)]
  BY <1>1, ShownNext
<1>4. Shown' = [Shown EXCEPT ![q] = Shown[p], ![p] = Absent] /\ Shown'[p] = Absent
  BY <1>1, <1>3, ShownIs
<1>5. Tree!Kept
  BY ShownKept
<1>6. QED
  BY <1>1, <1>2, <1>4, <1>5, ShownIs, SameNodes DEF Tree!Move

\* Each command is a step of the tree, or leaves it alone, or gives it up.
LEMMA TreeStep == OverlayInv /\ [Next]_vars => [Tree!Next]_Shown
<1> SUFFICES ASSUME OverlayInv, [Next]_vars PROVE [Tree!Next]_Shown
  OBVIOUS
<1>0. TypeOK /\ CountedFilesReadable /\ DirsThere
  BY DEF OverlayInv
<1>1. CASE UNCHANGED vars
  BY <1>1 DEF vars, Shown, Open
<1>2. CASE ~careful'
  <2>1. Tree!Lose
    BY <1>2, SameNodes DEF Tree!Lose, Shown
  <2>2. QED
    BY <2>1 DEF Tree!Next
<1>3. CASE Next /\ careful'
  <2>1. careful
    BY <1>0, <1>3, CarefulStays
  <2>2. ASSUME NEW p \in Names, NEW data \in Outputs, NEW append \in BOOLEAN,
               WriteFile(p, data, append)
        PROVE  Tree!Next
    <3>1. Tree!Put(p, data) \/ Tree!Extend(p, data)
      BY <1>0, <1>3, <2>1, <2>2, WriteShown
    <3>2. data \in Tree!Data
      BY <1>0, <2>1, OutputsShown
    <3>3. QED
      BY <3>1, <3>2 DEF Tree!Next
  <2>3. ASSUME NEW p \in Names, Remove(p) PROVE Tree!Next
    BY <1>0, <1>3, <2>1, <2>3, RemoveShown DEF Tree!Next
  <2>4. ASSUME NEW p \in Names, Mkdir(p) PROVE Tree!Next
    BY <1>0, <1>3, <2>1, <2>4, MkdirShown DEF Tree!Next
  <2>5. ASSUME NEW p \in Names, Rmdir(p) PROVE Tree!Next
    BY <1>0, <1>3, <2>1, <2>5, RmdirShown DEF Tree!Next
  <2>6. ASSUME NEW p \in Names, NEW q \in Names, Renamed(p, q) PROVE Tree!Next
    BY <1>0, <1>3, <2>1, <2>6, RenameShown DEF Tree!Next
  <2>7. QED
    BY <1>0, <1>3, <2>2, <2>3, <2>4, <2>5, <2>6, Commands
<1>4. QED
  BY <1>1, <1>2, <1>3

\* The overlay implements one file tree, for every base, set of names and limit:
\* each command of a careful user is one change of that tree, and a write leaves
\* what was printed or adds it to what was there, whichever of files, dirs,
\* deleted and the base a name was in.
THEOREM WriteFSRefinesFileTree == Spec => RefinesFileTree
<1>1. Init => Tree!Init
  <2> SUFFICES ASSUME Init PROVE Tree!Init
    OBVIOUS
  <2>1. \A p \in Names : Open(p) = Base[p]
    BY DEF Init, Open
  <2>2. Shown = [p \in Names |-> Base[p]]
    BY <2>1 DEF Init, Shown
  <2>3. QED
    BY <2>2, PathsAssumption DEF Tree!Init
<1>2. QED
  BY <1>1, TreeStep, OverlayInvariant, PTL DEF Spec, RefinesFileTree, Tree!Spec
=============================================================================
