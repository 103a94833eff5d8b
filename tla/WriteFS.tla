------------------------------ MODULE WriteFS ------------------------------
(***************************************************************************)
(* The file system of the hello-world shell (support/hello-world-shell):   *)
(* writeFS, which keeps the changes of a session beside a read-only        *)
(* embedded tree, and the commands and redirections that change it.        *)
(*                                                                         *)
(* A path is the sequence of its components, as fsName leaves it.  Data is *)
(* a sequence of chunks of equal size, so that the length of a file is the *)
(* number of its chunks.  The shell is sequential; a command that fails    *)
(* changes nothing and is no step, a command with several arguments is a   *)
(* step for each.                                                          *)
(***************************************************************************)
EXTENDS Paths

VARIABLES
    files,    \* written files: a partial function from names to contents
    dirs,     \* made directories
    deleted,  \* names whose removal hides what the base has
    careful   \* history: nobody moved a directory or moved a file onto itself,
              \* and no append met a file that only reads as empty

vars == <<files, dirs, deleted, careful>>

Init == files = <<>> /\ dirs = {} /\ deleted = {} /\ careful = TRUE

-----------------------------------------------------------------------------
(* Reading *)

\* What is found at a path.
Open(p) ==
    IF p \in deleted THEN Absent
    ELSE IF p \in dirs THEN Directory
    ELSE IF p \in DOMAIN files THEN File(files[p])
    ELSE Base[p]

IsDir(p)  == Open(p) = Directory
Exists(p) == Open(p) # Absent
IsFile(p) == Exists(p) /\ ~IsDir(p)

\* fs.ReadFile succeeds on files, and on made directories, whose Read reports
\* the end of the data at once; an embedded directory reports an error.
Reads(p)    == IsFile(p) \/ (p \in dirs /\ Exists(p))
ReadFile(p) == IF IsFile(p) THEN Open(p).data ELSE <<>>

\* The entries of a directory: those of the base, the written files and the
\* made directories, without the removed ones.
ReadDir(p) == {q \in Children(p) : Base[q] # Absent \/ q \in DOMAIN files \cup dirs} \ deleted

-----------------------------------------------------------------------------
(* Changing *)

Size(p) == Len(files[p])

\* Mutant: the files already there are not counted.
checkSpaceOwn(p, data) == Len(data) <= MaxBytes

checkSpace(p, data) == MapThenSumSet(Size, DOMAIN files \ {p}) + Len(data) <= MaxBytes

Without(p)    == Restrict(files, DOMAIN files \ {p})
With(p, data) == [q \in DOMAIN files \cup {p} |-> IF q = p THEN data ELSE files[q]]

\* Mutant: the parent is not looked at.
CanWriteAnywhere(p) == ~IsDir(p)

\* The errors of WriteFile before it looks at the data; the root's children
\* need no look at their parent.
CanWrite(p) == /\ Dir(p) \notin deleted /\ ~IsDir(p)
               /\ Dir(p) # <<>> => IsDir(Dir(p))

Written(p) == IF p \in DOMAIN files THEN files[p] ELSE <<>>

\* Mutant: a removed name does not keep an append from the base.
ExistingUndeleted(p) ==
    IF Written(p) = <<>> /\ Base[p].kind = "file" THEN Base[p].data ELSE Written(p)

\* An append takes what files has; when that is empty and the name is not
\* removed it takes what the base has, also of a file that was emptied.
Existing(p) ==
    IF Written(p) = <<>> /\ p \notin deleted /\ Base[p].kind = "file"
      THEN Base[p].data ELSE Written(p)

\* What WriteFile leaves in files.
Stored(p, data, append) == IF append THEN Existing(p) \o data ELSE data

\* WriteFile as a step of its own, for >, >> and cp.
WriteFile(p, data, append) ==
    /\ CanWrite(p)
    /\ checkSpace(p, Stored(p, data, append))
    /\ files' = With(p, Stored(p, data, append))
    /\ deleted' = deleted \ {p}
    /\ careful' = (careful /\ (append /\ Exists(p) => Existing(p) = Open(p).data))
    /\ UNCHANGED dirs

\* Mutant: only the written data goes, and what it hid is back.
RemoveWritten(p) ==
    /\ IsFile(p)
    /\ files' = Without(p)
    /\ UNCHANGED <<dirs, deleted, careful>>

Remove(p) ==
    /\ IsFile(p)
    /\ files' = Without(p)
    /\ deleted' = deleted \cup {p}
    /\ UNCHANGED <<dirs, careful>>

Mkdir(p) ==
    /\ p # <<>> /\ ~Exists(p) /\ IsDir(Dir(p))
    /\ deleted' = deleted \ {p}
    /\ dirs' = dirs \cup {p}
    /\ UNCHANGED <<files, careful>>

\* Mutant: the root is not spared.
RmdirRoot(p) ==
    /\ IsDir(p) /\ ReadDir(p) = {}
    /\ dirs' = dirs \ {p}
    /\ deleted' = deleted \cup {p}
    /\ UNCHANGED <<files, careful>>

Rmdir(p) ==
    /\ p # <<>> /\ IsDir(p) /\ ReadDir(p) = {}
    /\ dirs' = dirs \ {p}
    /\ deleted' = deleted \cup {p}
    /\ UNCHANGED <<files, careful>>

\* A directory as the target of mv or cp stands for a name inside it.
Into(p, q) == IF IsDir(q) THEN Join(q, BaseName(p)) ELSE q

\* Mutant: the old data stays in files.
RenameKeeps(p, target) ==
    LET q == Into(p, target) IN
    /\ p # <<>> /\ q \in Names
    /\ Reads(p) /\ CanWrite(q) /\ checkSpace(q, ReadFile(p))
    /\ files' = With(q, ReadFile(p))
    /\ deleted' = (deleted \ {q}) \cup {p}
    /\ careful' = (careful /\ ~IsDir(p) /\ p # q)
    /\ UNCHANGED dirs

\* Read, write under the new name, remove the old one: also when both are the
\* same, and without a look at dirs.  The root is not readable.
Rename(p, target) ==
    LET q == Into(p, target) IN
    /\ p # <<>> /\ q \in Names
    /\ Reads(p) /\ CanWrite(q) /\ checkSpace(q, ReadFile(p))
    /\ files' = Restrict(With(q, ReadFile(p)), (DOMAIN files \cup {q}) \ {p})
    /\ deleted' = (deleted \ {q}) \cup {p}
    /\ careful' = (careful /\ ~IsDir(p) /\ p # q)
    /\ UNCHANGED dirs

\* Nothing happens to a file that exists.
Touch(p) == ~Exists(p) /\ WriteFile(p, <<>>, FALSE)

-----------------------------------------------------------------------------
(* The shell *)

\* cp reads with the shell's readFile and writes with its writeFile.
Cp(p, target) ==
    /\ p # <<>> /\ Reads(p) /\ Into(p, target) \in Names
    /\ WriteFile(Into(p, target), ReadFile(p), FALSE)

\* What a command may print: nothing, a chunk (echo) or a file (cat).
Outputs == {<<>>} \cup {<<c>> : c \in Chunks} \cup {ReadFile(p) : p \in {n \in Names : Reads(n)}}

\* runStmt with > or >>: the output is collected and written once the command
\* has succeeded.
Redirect(p, append) == \E data \in Outputs : WriteFile(p, data, append)

Next ==
    \E p \in Names :
        \/ \E append \in BOOLEAN : Redirect(p, append)
        \/ Remove(p) \/ Touch(p) \/ Mkdir(p) \/ Rmdir(p)
        \/ \E q \in Names : Cp(p, q) \/ Rename(p, q)

Spec == Init /\ [][Next]_vars

-----------------------------------------------------------------------------
(* Properties *)

\* The types of the variables; the root is never written or removed.
TypeOK ==
    /\ DOMAIN files \subseteq Names \ {<<>>} /\ \A p \in DOMAIN files : files[p] \in Contents
    /\ dirs \subseteq Names \ {<<>>}
    /\ deleted \subseteq Names \ {<<>>}
    /\ careful \in BOOLEAN

\* The written files never exceed the limit, whatever was written, appended,
\* moved and removed before.
QuotaHolds == MapThenSumSet(Size, DOMAIN files) <= MaxBytes

\* Space is used only by files the user can read, and so can free: none is
\* left behind a removed name or under a directory of the same name.
CountedFilesReadable == careful => \A p \in DOMAIN files : Open(p) = File(files[p])

\* Every file and directory lies in a directory that exists, although Open
\* looks at one name only and never at those above it.
TreeShape == careful => \A p \in Names : Exists(p) => IsDir(Dir(p))

\* A made directory is not removed at the same time, so that a file written
\* under a removed name is not hidden by an old directory.
DirsThere == careful => dirs \cap deleted = {}

\* What the commands keep together: the properties above rest on each other.
OverlayInv == /\ TypeOK /\ IsFiniteSet(DOMAIN files) /\ QuotaHolds
              /\ CountedFilesReadable /\ TreeShape /\ DirsThere

\* A file holds what was last written with >, and with what each >> added
\* since, whichever of files, deleted and the base it was in: >> starts anew
\* where the file was removed, and does not bring back what the base has.
WriteStores ==
    [][\A p \in Names, data \in Outputs, append \in BOOLEAN :
         careful' /\ WriteFile(p, data, append) =>
           Open(p)' = File((IF append /\ Exists(p) THEN Open(p).data ELSE <<>>) \o data)]_vars

\* What the overlay shows at every path, as one tree.
Shown == IF careful THEN [p \in Names |-> Open(p)] ELSE Lost

Tree == INSTANCE FileTree WITH tree <- Shown

\* Although it keeps written files, made directories and removed names in three
\* places beside the base (fs.go 50-55), the overlay behaves as one file tree
\* as long as the user is careful.
RefinesFileTree == Tree!Spec

\* The shell's golden test (shell_test.go 41-43, testdata/shell.golden) writes
\* "redirected" with > and "appended" with >>, and expects to read both: >>
\* leaves what the file held in front of the new data.
AppendExtends ==
    [][\A p \in Names, data \in Outputs :
         IsFile(p) /\ WriteFile(p, data, TRUE) => files'[p] = Open(p).data \o data]_vars
=============================================================================
