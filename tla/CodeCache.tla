------------------------------ MODULE CodeCache ------------------------------
(***************************************************************************)
(* `nvtengine update' and the code cache it leaves for the scanner:        *)
(* UpdateNVTIFromLocalFS / UpdateNVTIFromVFS of nvtengine.cc, the          *)
(* CodeCacheWriter of codecache.hpp, the BlockFile of blockfile.hpp and    *)
(* the script database of nvtidb.hpp.                                      *)
(*                                                                         *)
(* The cache is a data file, a row of blocks, and an index of the blocks   *)
(* in a second file.  An update truncates and refills the data file in     *)
(* place while a daemon may have it open; the process may be killed at any *)
(* step (what stdio had not written is then lost); a write may be short.   *)
(* A block is made of cells that carry the update they were written by.    *)
(***************************************************************************)
EXTENDS Integers, Sequences, FiniteSets, SequencesExt

CONSTANTS
    Entry, Inc,  \* scripts and .inc. scripts, named by numbers: map order is <
    Needs,       \* Needs[e]: the files e requires, in order
    Size,        \* Size[f]: cells of f's block
    BatchSize,   \* scripts the database is updated with at once (5000)
    MaxUpdates   \* bound on the updates

File == Entry \cup Inc

ASSUME CodeCacheAssumption ==
    /\ File \subseteq Nat \ {0} /\ Entry \cap Inc = {}
    /\ Needs \in [Entry -> Seq(Inc)] /\ Size \in [File -> Nat \ {0}]
    /\ BatchSize \in Nat /\ MaxUpdates \in Nat

NoFile == 0
EmptyTable == [f \in {} |-> 0]

VARIABLES
    upc,                  \* the updater: "idle", "scripts", "database", "incs", "index", "close"
    enabled,              \* enable_code_cache of the update under way
    version,              \* history: updates begun
    disk, buf,            \* the data file; what stdio holds back
    mFileTable, mOffset,  \* the writer's table of offsets, and the next offset
    index,                \* the index file: the offsets, and the update they are of
    todo, cur, loading,   \* scripts left, the one executed, files it still loads
    ret, nvti,            \* scripts to be entered in the database; the database
    faults,               \* what went wrong in the update: "syntax", "unread", "short"
    closed,               \* history: the last update ran to its end
    reader                \* a scanner: "none", on the "block" file, on the "scripts"

dataVars   == <<disk, buf, mFileTable, mOffset>>
scriptVars == <<todo, cur, loading, ret>>
codeVars == <<upc, enabled, version, dataVars, index, scriptVars, nvti, faults, closed, reader>>

Block(v, f) == [k \in 1..Size[f] |-> <<v, f, k>>]

CodeInit ==
    /\ upc = "idle" /\ enabled = FALSE /\ version = 0
    /\ disk = <<>> /\ buf = <<>> /\ mFileTable = EmptyTable /\ mOffset = 0
    /\ index = [ver |-> 0, table |-> EmptyTable]
    /\ todo = {} /\ cur = NoFile /\ loading = <<>> /\ ret = {} /\ nvti = {}
    /\ faults = {} /\ closed = TRUE
    /\ reader = [on |-> "none", ver |-> 0, table |-> EmptyTable]

-----------------------------------------------------------------------------
(* The update.                                                             *)

\* CodeCacheWriter opens the data file "wb" whether or not the cache is enabled.
NewWriter ==
    /\ upc = "idle" /\ version < MaxUpdates
    /\ enabled' \in BOOLEAN
    /\ version' = version + 1 /\ upc' = "scripts"
    /\ disk' = <<>> /\ buf' = <<>> /\ mFileTable' = EmptyTable /\ mOffset' = 0
    /\ todo' = Entry /\ cur' = NoFile /\ loading' = <<>> /\ ret' = {}
    /\ faults' = {} /\ closed' = FALSE
    /\ UNCHANGED <<index, nvti, reader>>

\* Executor::Execute of the next script; an .inc. script is only parsed.
ExecuteFile(f) ==
    /\ upc \in {"scripts", "incs"} /\ cur = NoFile /\ f \in todo
    /\ cur' = f /\ todo' = todo \ {f}
    /\ loading' = IF f \in Entry THEN <<f>> \o Needs[f] ELSE <<f>>
    /\ UNCHANGED <<upc, enabled, version, dataVars, index, ret, nvti, faults, closed, reader>>

\* A file that is in the table, or in the shared cache, is not written again.
InCache == ~enabled \/ Head(loading) \in DOMAIN mFileTable

Skip ==
    /\ loading # <<>> /\ InCache
    /\ loading' = Tail(loading)
    /\ UNCHANGED <<upc, enabled, version, dataVars, index, todo, cur, ret, nvti, faults, closed, reader>>

\* Faulty: the offset is that of the end of the block.
WriteBlockEnd ==
    /\ loading # <<>> /\ ~InCache
    /\ LET f == Head(loading) IN
        /\ buf' = buf \o Block(version, f)
        /\ mFileTable' = [g \in DOMAIN mFileTable \cup {f} |->
                             IF g = f THEN mOffset + Size[f] ELSE mFileTable[g]]
        /\ mOffset' = mOffset + Size[f]
    /\ loading' = Tail(loading)
    /\ UNCHANGED <<upc, enabled, version, disk, index, todo, cur, ret, nvti, faults, closed, reader>>

\* OnNewScript writes the block and enters it in the table.
WriteBlock ==
    /\ loading # <<>> /\ ~InCache
    /\ LET f == Head(loading) IN
        /\ buf' = buf \o Block(version, f)
        /\ mFileTable' = [g \in DOMAIN mFileTable \cup {f} |->
                             IF g = f THEN mOffset ELSE mFileTable[g]]
        /\ mOffset' = mOffset + Size[f]
    /\ loading' = Tail(loading)
    /\ UNCHANGED <<upc, enabled, version, disk, index, todo, cur, ret, nvti, faults, closed, reader>>

\* A file cannot be read, or has a syntax error: the script fails.
LoadFail ==
    /\ loading # <<>> /\ ~(enabled /\ InCache)
    /\ \E fault \in {"syntax", "unread"} : faults' = faults \cup {fault}
    /\ loading' = <<>> /\ cur' = NoFile
    /\ upc' = IF "syntax" \notin faults' THEN upc
              ELSE IF upc = "scripts" THEN "database" ELSE "index"
    /\ UNCHANGED <<enabled, version, dataVars, index, todo, ret, nvti, closed, reader>>

\* The process is gone, and with it what stdio held back.
Gone ==
    /\ upc' = "idle" /\ buf' = <<>>
    /\ todo' = {} /\ cur' = NoFile /\ loading' = <<>> /\ ret' = {}

\* fwrite writes less than the block: the file has grown, mOffset has not.  The
\* exception fails the script that required the file; that of the executed
\* script itself is caught by nobody.
ShortWrite ==
    /\ loading # <<>> /\ ~InCache
    /\ faults' = faults \cup {"short"}
    /\ LET f == Head(loading) IN
        IF f = cur THEN Gone /\ UNCHANGED disk
        ELSE /\ \E n \in 0..(Size[f] - 1) : buf' = buf \o SubSeq(Block(version, f), 1, n)
             /\ loading' = <<>> /\ cur' = NoFile
             /\ UNCHANGED <<upc, disk, todo, ret>>
    /\ UNCHANGED <<enabled, version, mFileTable, mOffset, index, nvti, closed, reader>>

\* NVTIDataBase::UpdateAll, one transaction; a failed one is dropped unnoticed.
UpdateAll(scripts) == nvti' \in {nvti, nvti \cup scripts}

\* The script fails while it runs, before it has required all its files.
RunFail ==
    /\ upc = "scripts" /\ loading # <<>> /\ Head(loading) # cur
    /\ loading' = <<>> /\ cur' = NoFile
    /\ UNCHANGED <<upc, enabled, version, dataVars, index, todo, ret, nvti, faults, closed, reader>>

\* The script has run.  A script that ran without an error has its attributes
\* kept, and more than BatchSize of them go to the database at once.
ExecuteEnd ==
    /\ cur # NoFile /\ loading = <<>>
    /\ \E ok \in BOOLEAN :
        LET scripts == IF ok /\ cur \in Entry THEN ret \cup {cur} ELSE ret IN
        IF Cardinality(scripts) > BatchSize
        THEN UpdateAll(scripts) /\ ret' = {}
        ELSE ret' = scripts /\ UNCHANGED nvti
    /\ cur' = NoFile
    /\ upc' = IF upc = "incs" /\ "syntax" \in faults THEN "index" ELSE upc
    /\ UNCHANGED <<enabled, version, dataVars, index, todo, loading, faults, closed, reader>>

ScriptsEnd ==
    /\ upc = "scripts" /\ cur = NoFile /\ todo = {}
    /\ upc' = "database"
    /\ UNCHANGED <<enabled, version, dataVars, index, scriptVars, nvti, faults, closed, reader>>

\* The rest goes to the database; then the .inc. scripts nobody required follow.
UpdateDatabase ==
    /\ upc = "database"
    /\ UpdateAll(ret) /\ ret' = {}
    /\ todo' = IF enabled THEN Inc ELSE {}
    /\ upc' = IF enabled THEN "incs" ELSE "index"
    /\ UNCHANGED <<enabled, version, dataVars, index, cur, loading, faults, closed, reader>>

IncsEnd ==
    /\ upc = "incs" /\ cur = NoFile /\ todo = {}
    /\ upc' = "index"
    /\ UNCHANGED <<enabled, version, dataVars, index, scriptVars, nvti, faults, closed, reader>>

\* Faulty: the first entry is left out.
WriteIndexFromSecond ==
    /\ upc = "index"
    /\ \E n \in 0..Cardinality(File) :
        LET part == {f \in DOMAIN mFileTable :
                        Cardinality({g \in DOMAIN mFileTable : g <= f}) \in 2..n} IN
        /\ index' = [ver |-> version, table |-> [f \in part |-> mFileTable[f]]]
        /\ upc' = IF n >= Cardinality(DOMAIN mFileTable) THEN "close" ELSE "index"
    /\ UNCHANGED <<enabled, version, dataVars, scriptVars, nvti, faults, closed, reader>>

\* BlockFile::Close writes the index first.  The file is truncated and grows in
\* the order of the names; what a reader or a crash may find is a part of it.
WriteIndex ==
    /\ upc = "index"
    /\ \E n \in 0..Cardinality(File) :
        LET part == {f \in DOMAIN mFileTable :
                        Cardinality({g \in DOMAIN mFileTable : g <= f}) <= n} IN
        /\ (index.ver = version => DOMAIN index.table \subseteq part)
        /\ index' = [ver |-> version, table |-> [f \in part |-> mFileTable[f]]]
        /\ upc' = IF part = DOMAIN mFileTable THEN "close" ELSE "index"
    /\ UNCHANGED <<enabled, version, dataVars, scriptVars, nvti, faults, closed, reader>>

\* Faulty: the file is closed by the exit of the process, without a flush.
CloseDataLost ==
    /\ upc = "close" /\ upc' = "idle"
    /\ buf' = <<>> /\ mFileTable' = EmptyTable
    /\ closed' = TRUE
    /\ UNCHANGED <<enabled, version, disk, mOffset, index, scriptVars, nvti, faults, reader>>

\* ... and then closes the data file, which writes what is held back.
CloseData ==
    /\ upc = "close" /\ upc' = "idle"
    /\ disk' = disk \o buf /\ buf' = <<>> /\ mFileTable' = EmptyTable
    /\ closed' = TRUE
    /\ UNCHANGED <<enabled, version, mOffset, index, scriptVars, nvti, faults, reader>>

\* stdio writes a part of what it holds back.
Flush ==
    /\ \E n \in 1..Len(buf) :
        /\ disk' = disk \o SubSeq(buf, 1, n)
        /\ buf' = SubSeq(buf, n + 1, Len(buf))
    /\ UNCHANGED <<upc, enabled, version, mFileTable, mOffset, index, scriptVars, nvti, faults, closed, reader>>

Crash ==
    /\ upc # "idle"
    /\ Gone
    /\ UNCHANGED <<enabled, version, disk, mFileTable, mOffset, index, nvti, faults, closed, reader>>

Updater ==
    \/ NewWriter
    \/ \E f \in File : ExecuteFile(f)
    \/ Skip \/ WriteBlock \/ LoadFail \/ ShortWrite \/ RunFail \/ ExecuteEnd
    \/ ScriptsEnd \/ UpdateDatabase \/ IncsEnd
    \/ WriteIndex \/ CloseData \/ Flush \/ Crash

-----------------------------------------------------------------------------
(* A scanner.                                                              *)

\* CreateFileIO: an index without an entry makes NewReader fail, and the
\* scripts themselves are read.
OpenReader ==
    /\ reader.on = "none"
    /\ reader' = [on |-> IF DOMAIN index.table = {} THEN "scripts" ELSE "block",
                  ver |-> index.ver, table |-> index.table]
    /\ UNCHANGED <<upc, enabled, version, dataVars, index, scriptVars, nvti, faults, closed>>

CloseReader ==
    /\ reader.on # "none"
    /\ reader' = [on |-> "none", ver |-> 0, table |-> EmptyTable]
    /\ UNCHANGED <<upc, enabled, version, dataVars, index, scriptVars, nvti, faults, closed>>

\* BlockFile::Read: NULL unless the whole block can be read.
CanRead(data, table, f) == f \in DOMAIN table /\ table[f] + Size[f] <= Len(data)
Read(data, table, f) == SubSeq(data, table[f] + 1, table[f] + Size[f])

CodeNext == Updater \/ OpenReader \/ CloseReader
CodeSpec == CodeInit /\ [][CodeNext]_codeVars

-----------------------------------------------------------------------------
(* Properties                                                              *)

OnFile(table) == DOMAIN table \subseteq File /\ \A f \in DOMAIN table : table[f] \in Nat

UpdaterOK ==
    /\ upc \in {"idle", "scripts", "database", "incs", "index", "close"}
    /\ enabled \in BOOLEAN /\ closed \in BOOLEAN /\ version \in 0..MaxUpdates
    /\ todo \subseteq File /\ cur \in File \cup {NoFile} /\ ToSet(loading) \subseteq File
    /\ ret \subseteq Entry /\ nvti \subseteq Entry
    /\ faults \subseteq {"syntax", "unread", "short"}

TablesOK ==
    /\ OnFile(mFileTable) /\ OnFile(index.table) /\ OnFile(reader.table)
    /\ index.ver \in 0..version /\ reader.ver \in 0..version
    /\ reader.on \in {"none", "block", "scripts"}

CodeTypeOK ==
    /\ UpdaterOK /\ TablesOK
    /\ mOffset <= Len(disk) + Len(buf) \/ upc = "idle"

\* As long as no further update has begun, whatever is killed and whenever it
\* is, a scanner that reads a block gets the file the block is named after, or
\* nothing at all - unless a write was short, after which offsets are wrong.
NeverAnotherFile ==
    reader.on = "block" /\ reader.ver = version /\ "short" \notin faults =>
        \A f \in DOMAIN reader.table :
            CanRead(disk, reader.table, f) => Read(disk, reader.table, f) = Block(version, f)

\* An update that ran to its end leaves an index and data that agree.
ClosedUpdateServes ==
    closed /\ "short" \notin faults =>
        /\ index.ver = version
        /\ \A f \in DOMAIN index.table :
            /\ CanRead(disk, index.table, f)
            /\ Read(disk, index.table, f) = Block(version, f)

\* A script that is in the database, and so may be selected for a scan, is in
\* the cache, if the last update ran to its end without a fault.
SelectableIsCached ==
    closed /\ faults = {} /\ DOMAIN index.table # {} => nvti \subseteq DOMAIN index.table

-----------------------------------------------------------------------------
(* The inductive invariant behind them.                                    *)

\* What the data file will hold once stdio has passed everything on.
Data == disk \o buf

Cell == Nat \X File \X Nat

\* The block that update v wrote of file f is at an offset of the data.
BlockAt(v, data, offset, f) ==
    \A k \in 1..Size[f] : data[offset + k] = <<v, f, k>>

\* A table's blocks are in the data, as far as the data goes.
ServesWell(v, data, table) ==
    \A f \in DOMAIN table :
        table[f] + Size[f] <= Len(data) => BlockAt(v, data, table[f], f)

AllInData(data, table) == \A f \in DOMAIN table : table[f] + Size[f] <= Len(data)

\* A table a scanner may have seen is a part of the writer's.
PartOf(table, whole) ==
    \A f \in DOMAIN table : f \in DOMAIN whole /\ table[f] = whole[f]

\* The updater loads files only while it executes scripts.
LoadInv ==
    /\ loading # <<>> => cur # NoFile
    /\ cur # NoFile => upc \in {"scripts", "incs"}
    /\ upc = "idle" => buf = <<>>
    /\ closed => upc = "idle"

\* Indexes are of updates that have reached it; a scanner has what was there.
VersionInv ==
    /\ reader.ver <= index.ver /\ index.ver <= version
    /\ upc \in {"scripts", "database", "incs"} => index.ver < version
    /\ upc = "close" \/ closed => index.ver = version
    /\ upc = "close" => DOMAIN index.table = DOMAIN mFileTable

\* Offsets are right as long as no write was short.
OffsetInv ==
    "short" \notin faults =>
        /\ upc # "idle" =>
            /\ mOffset = Len(Data)
            /\ AllInData(Data, mFileTable) /\ ServesWell(version, Data, mFileTable)
        /\ index.ver = version =>
            /\ upc # "idle" => PartOf(index.table, mFileTable)
            /\ ServesWell(version, Data, index.table)
        /\ reader.ver = version =>
            /\ upc # "idle" => PartOf(reader.table, mFileTable)
            /\ ServesWell(version, Data, reader.table)
        /\ closed => AllInData(Data, index.table)

\* Without a fault every script is in the table once all have been executed;
\* a disabled cache has no table.
CachedInv ==
    faults = {} =>
        /\ upc # "idle" /\ ~enabled => DOMAIN mFileTable = {}
        /\ upc # "idle" /\ enabled => \A e \in Entry :
            \/ e \in DOMAIN mFileTable
            \/ upc = "scripts" /\ e \in todo
            \/ upc = "scripts" /\ cur = e /\ loading # <<>> /\ Head(loading) = e
        /\ closed /\ DOMAIN index.table # {} => Entry \subseteq DOMAIN index.table

\* The types that CodeTypeOK leaves out.
DataOK == disk \in Seq(Cell) /\ buf \in Seq(Cell) /\ loading \in Seq(File) /\ mOffset \in Nat

CodeInv == CodeTypeOK /\ DataOK /\ LoadInv /\ VersionInv /\ OffsetInv /\ CachedInv

=============================================================================
