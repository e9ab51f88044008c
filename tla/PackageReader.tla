---------------------------- MODULE PackageReader ----------------------------
(***************************************************************************)
(* A file read from a script package (vfs/vfsreader.c, vfsfileio.hpp): the *)
(* package is opened, a path is looked up, and the file found is read.     *)
(*                                                                         *)
(* The tool that makes packages is not part of the program.  What the code *)
(* relies on is assumed: files are sorted by their base names, no two have *)
(* one path, the directory numbered 0 is the root, and directories are     *)
(* named from the root, "/dir".  Names are numbers, ordered as strcmp      *)
(* does; file k of the code is files[k + 1].  Paths of more than 512 bytes *)
(* are left out.                                                           *)
(***************************************************************************)
EXTENDS Integers, Sequences, SequencesExt

CONSTANTS
    Root,       \* the directory numbered 0
    Packages,   \* what may be in the package file: its nodes, and whether the end node follows
    Asked       \* the paths that are asked for: a directory and a base name

VARIABLES
    package,    \* the package file
    path,       \* full_path of vfs_lookup
    lpc,        \* open, search, visit, read, done; refused, crashed
    low, high,  \* i and j of vfs_lookup_name_helper
    found,      \* the file found: of its base name, then of its path
    answer      \* of VFSFileIO::Read: content or NULL

packageVars == <<package, path, lpc, low, high, found, answer>>

dirs == package.dirs
files == package.files
File(k) == files[k + 1]

Init ==
    /\ package \in Packages /\ path \in Asked
    /\ lpc = "open" /\ low = 0 /\ high = 0 /\ found = -1 /\ answer = "NULL"

\* vfs_open reads nodes up to the end node; nodes that break off pass too, if there
\* was one.  A directory number is compared with the number of directories.
Opens ==
    /\ package.ends \/ dirs # <<>> \/ files # <<>>
    /\ \A k \in DOMAIN files : files[k].id <= Len(dirs)

Open ==
    /\ lpc = "open"
    /\ lpc' = IF Opens THEN "search" ELSE "refused"
    /\ high' = Len(files)
    /\ UNCHANGED <<package, path, low, found, answer>>

Middle == (low + high) \div 2

\* vfs_lookup_name_helper: a round of the binary search.  Both bounds may be the
\* middle, and the search goes round for ever; it never finds its range empty.
LookupName ==
    /\ lpc = "search" /\ Middle < Len(files)
    /\ LET name == File(Middle).name IN
        IF name = path.base
        THEN lpc' = "visit" /\ found' = Middle /\ UNCHANGED <<low, high>>
        ELSE /\ IF path.base < name THEN high' = Middle /\ UNCHANGED low
                                    ELSE low' = Middle + 1 /\ UNCHANGED high
             /\ UNCHANGED <<lpc, found>>
    /\ UNCHANGED <<package, path, answer>>

\* ... the range includes the entry after the last, which is NULL.
LookupBeyond ==
    /\ lpc = "search" /\ Middle = Len(files)
    /\ lpc' = "crashed"
    /\ UNCHANGED <<package, path, low, high, found, answer>>

\* Faulty: the visit only goes down.
VisitedDown ==
    SelectSeq([n \in 1..found |-> found + 1 - n], LAMBDA k : File(k).name = path.base)

\* The files of the same base name, in the order vfs_lookup visits them: down to
\* the second file, then up from the one it has found.
Visited ==
    SelectSeq([n \in 1..found |-> found + 1 - n]
                \o [n \in 1..(Len(files) - found) |-> found + n - 1],
              LAMBDA k : File(k).name = path.base)

\* vfs_get_file_full_path: a number that vfs_open let pass has no directory.
HasPath(k) == File(k).id < Len(dirs)

\* A path in the root is told by the number of its directory.
Matches(k) ==
    IF path.dir = Root THEN File(k).id = 0
    ELSE HasPath(k) /\ dirs[File(k).id + 1] = path.dir

\* A visited file that ends the visit: it is the one, or it has no path.
Decides(k) == Matches(k) \/ (path.dir # Root /\ ~HasPath(k))

VisitNamesakes ==
    /\ lpc = "visit"
    /\ LET deciding == SelectSeq(Visited, Decides) IN
        IF deciding # <<>> /\ Matches(Head(deciding))
        THEN found' = Head(deciding) /\ lpc' = "read"
        ELSE lpc' = "done" /\ UNCHANGED found
    /\ UNCHANGED <<package, path, low, high, answer>>

\* vfs_raw_read_at returns 0 when it has read all, and -1 if it could not, and the
\* caller compares that with the size; an empty file is not read at all.
ReadContent ==
    /\ lpc = "read" /\ lpc' = "done"
    /\ \E error \in IF File(found).size = 0 THEN {0} ELSE {0, -1} :
        answer' = IF File(found).size = error THEN "content" ELSE "NULL"
    /\ UNCHANGED <<package, path, low, high, found>>

Next == Open \/ LookupName \/ LookupBeyond \/ VisitNamesakes \/ ReadContent

-----------------------------------------------------------------------------
(* Properties                                                              *)

\* The file that the path names, and the others of its base name.
Named == {k \in 0..(Len(files) - 1) : File(k).name = path.base /\ Matches(k)}
Namesakes == {k \in 0..(Len(files) - 1) : File(k).name = path.base} \ Named

\* Only the file of that path is read; and what is there is read, unless it is the
\* first of several namesakes, meets one without a directory, or is not empty.
RightAnswer ==
    /\ answer = "content" => found \in Named
    /\ answer = "NULL" => \A k \in Named :
        \/ k = 0 /\ Namesakes # {}
        \/ path.dir # Root /\ \E l \in Namesakes : ~HasPath(l)
        \/ File(k).size > 0

\* A path whose base name is in the package is answered, and rightly, whatever
\* directories share the name; for a base name that is nowhere, the search ends
\* the process or goes on for ever, and nothing is promised.
LookupAnswers ==
    (lpc = "search" /\ Named \cup Namesakes # {}) ~> (lpc = "done" /\ RightAnswer)

=============================================================================
