-------------------------- MODULE MCHttpConnection --------------------------
(* Instances of HttpConnection for TLC.                                    *)
EXTENDS HttpConnection

\* Up to two addresses; what follows one that answers is never tried.
MCAddresses ==
    {<<>>, <<"open">>, <<"dead", "open">>, <<"unreachable", "open">>,
     <<"unreachable", "dead">>, <<"unreachable">>}

=============================================================================
