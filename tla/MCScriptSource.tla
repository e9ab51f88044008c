--------------------------- MODULE MCScriptSource ---------------------------
(* Instances of ScriptSource for TLC.                                      *)
EXTENDS ScriptSource

\* Two scripts, of which the first requires a file.
MCNeeds == [e \in Entry |-> IF e = 1 THEN <<3>> ELSE <<>>]
MCSize  == [f \in File |-> IF f = 2 THEN 1 ELSE 2]

\* Up to three files in up to two directories, empty or not, of one name or two;
\* a directory number may be one too large (2), which is let pass, or two.
MCFiles == [name : {1, 2}, id : 0..3, size : {0, 1}]
Packed(files) ==
    \A j, k \in DOMAIN files : j < k =>
        \/ files[j].name < files[k].name
        \/ files[j].name = files[k].name /\ files[j].id # files[k].id
MCPackages ==
    [dirs : {<<>>, <<"root">>, <<"root", "sub">>},
     files : {f \in UNION {[1..n -> MCFiles] : n \in 0..3} : Packed(f)},
     ends : BOOLEAN]

\* Two names that may be in the package, one before them and one after.
MCAsked == [dir : {"root", "sub"}, base : 0..3]

=============================================================================
