---------------------------- MODULE MCForkedScript ----------------------------
(* Instances of ForkedScript for TLC.                                      *)
EXTENDS ForkedScript, TLC

CONSTANTS a, b

\* Two names with none, one, two or three values; an execution may add to them
\* before it reads, so that three by two combinations occur.
MCInitial == {(a :> s[1]) @@ (b :> s[2]) :
                 s \in {<< <<1, 2, 3>>, <<1>> >>, << <<1, 2>>, <<>> >>, << <<1>>, <<2>> >>}}

=============================================================================
