---------------------------- MODULE MCScriptCache ----------------------------
(* Instances of ScriptCache for TLC.                                       *)
EXTENDS ScriptCache, TLC

CONSTANTS nasl, warp, base, inc, test

\* The cycle of the shipped scripts (script/nasl.sc:2454, win_warp.inc.sc:1-2)
\* under a test script with an include of its own.
MCRequires == (nasl :> <<warp>>) @@ (warp :> <<nasl, base>>) @@ (base :> <<>>)
              @@ (inc :> <<base, test>>) @@ (test :> <<inc, nasl>>)

\* Sizes on both sides of the alignment.
MCInsKey   == (nasl :> 998) @@ (warp :> 2) @@ (base :> 1000) @@ (inc :> 999) @@ (test :> 3)
MCConstKey == (nasl :> 997) @@ (warp :> 1) @@ (base :> 1000) @@ (inc :> 2) @@ (test :> 1)

=============================================================================
