--------------------------- MODULE MCChildProcess ---------------------------
(* Instances of ChildProcess for TLC.                                      *)
EXTENDS ChildProcess

\* stdin with stdout; stdout with stderr; one stream for both directions.
MCSetups == {<<"in", "out">>, <<"out", "out">>, <<"both">>}

\* Filters that read all first or last, a child that closes its output before
\* it reads, one that writes more than fits to two streams, and one that talks.
MCPlans ==
    {<< <<"drain", 1>>, <<"write", 2>>, <<"write", 2>>, <<"write", 2>> >>,
     << <<"write", 2>>, <<"write", 2>>, <<"write", 2>>, <<"drain", 1>> >>,
     << <<"write", 2>>, <<"close", 2>>, <<"drain", 1>> >>,
     << <<"write", 1>>, <<"write", 2>>, <<"write", 2>>, <<"write", 2>>, <<"write", 1>> >>,
     << <<"write", 1>>, <<"drain", 1>> >>}
=============================================================================
