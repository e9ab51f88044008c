----------------------------- MODULE ScriptSource -----------------------------
(***************************************************************************)
(* Where scripts come from (CreateFileIO of nvtengine.cc): the code cache  *)
(* (CodeCache), or a script package (PackageReader), which an update reads *)
(* too.  CodeCache takes it as a choice whether a script can be read; here *)
(* a read of the package is looked into.  The two share no state, so that  *)
(* a behaviour is that of a cache, or that of one read of a package.       *)
(***************************************************************************)
EXTENDS CodeCache

CONSTANTS Root, Packages, Asked     \* see PackageReader

ASSUME PackageAssumption ==
    \A p \in Packages :
        /\ p.dirs # <<>> => p.dirs[1] = Root
        /\ \A k \in 1..Len(p.files) : p.files[k].id \in Nat /\ p.files[k].size \in Nat
        /\ \A j, k \in 1..Len(p.files) : j < k =>
            \/ p.files[j].name < p.files[k].name
            \/ p.files[j].name = p.files[k].name /\ p.files[j].id # p.files[k].id

VARIABLES
    source,     \* what is looked into: cache, package
    package, path, lpc, low, high, found, answer       \* see PackageReader

Package == INSTANCE PackageReader

readVars == <<package, path, lpc, low, high, found, answer>>

sourceVars == <<source, codeVars, readVars>>

APackage == CHOOSE p \in Packages : TRUE
APath == CHOOSE a \in Asked : TRUE

\* What the other source would use has one value.
SourceInit ==
    /\ source \in {"cache", "package"}
    /\ CodeInit
    /\ Package!Init
    /\ source = "cache" => package = APackage /\ path = APath

CodeStep ==
    /\ source = "cache" /\ CodeNext
    /\ UNCHANGED <<source, readVars>>

PackageStep ==
    /\ source = "package" /\ Package!Next
    /\ UNCHANGED <<source, codeVars>>

SourceNext == CodeStep \/ PackageStep

\* The thread that reads a package runs; nobody has to update.
FairSourceSpec == SourceInit /\ [][SourceNext]_sourceVars /\ WF_sourceVars(PackageStep)

\* See PackageReader.
LookupAnswers == source = "package" => Package!LookupAnswers

=============================================================================
