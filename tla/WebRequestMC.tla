---------------------------- MODULE WebRequestMC ----------------------------
(***************************************************************************)
(* Requests that are long enough to be cut everywhere: with and without    *)
(* headers, with a body, with more than a body, expecting 100 Continue,    *)
(* with an empty first line, and one that is never completed.              *)
(***************************************************************************)
EXTENDS WebRequest

Requests ==
  {<<"x", "w", "n", "w", "n", "x">>,
   <<"x", "n", "len", "n", "w", "n", "x", "n">>,
   <<"x", "n", "len", "n", "n", "x", "x", "x">>,
   <<"x", "n", "exp", "n", "len", "n", "n", "n", "x">>,
   <<"x", "n", "exp", "n", "n">>,
   <<"w", "n", "x", "n", "n">>,
   <<"x", "n", "len", "n", "n", "x">>}
=============================================================================
