------------------------- MODULE MCHttpServerSocket -------------------------
(* Instances of HttpServerSocket for TLC.                                  *)
EXTENDS HttpServerSocket

CONSTANTS c1, c2, r1, d1, d2

MCCallers  == {c1, c2}
MCRequests == {r1}
MCDaemons  == {d1, d2}

MCHostnames == {<<"www", "a", "de">>, <<"ftp", "a", "de">>}

\* A perfect match behind a pattern and the name for all; nothing that fits.
MCKeyStores == {<<NoName, <<"*", "a", "de">>, <<"www", "a", "de">> >>, << <<"*", "b", "de">> >>}

SocketSymmetry == Permutations(MCCallers) \union Permutations(MCDaemons)
=============================================================================
