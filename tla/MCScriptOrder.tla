----------------------------- MODULE MCScriptOrder -----------------------------
(* Instances of ScriptOrder for TLC.                                       *)
EXTENDS ScriptOrder, SequencesExt, TLC

CONSTANTS a, b, c

\* Every dependency list without repetition of at most two files, so every
\* graph on three files with cycles, self-dependencies and missing files.
Lists == {s \in UNION {[1..n -> File] : n \in 0..2} : IsInjective(s)}
MCDatabase ==
    [known    : {File, File \ {c}},
     deps     : [File -> Lists],
     category : {(a :> 0) @@ (b :> 0) @@ (c :> 0), (a :> 0) @@ (b :> 1) @@ (c :> 0),
                 (a :> 1) @@ (b :> 0) @@ (c :> 10)}]

MCRequest == {<<a>>, <<a, c>>, <<b, a, c>>}

=============================================================================
