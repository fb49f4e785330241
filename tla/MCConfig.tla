------------------------------ MODULE MCConfig ------------------------------
(* Two files that may set one of two keys, include themselves, each other  *)
(* or a file that is missing; comments, lone keys and superfluous tokens.  *)
EXTENDS Config

CONSTANTS f1, f2, k1, k2, v1, v2

MCContents ==
    { <<  <<k1, v1>>, <<Include, f2>>, <<k2, v1, v2>> >>,
      <<  <<Include, f2>>, <<Hash, k1, v2>>, <<k1, v2>>, <<k1, v1>> >>,
      <<  <<k2, v2>>, << >>, <<k1>>, <<Include, f1>> >>,
      <<  <<k1, v2>> >> }
=============================================================================
