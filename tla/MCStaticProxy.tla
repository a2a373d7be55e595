--------------------------- MODULE MCStaticProxy ---------------------------
(* Instance of StaticProxy for TLC. *)
EXTENDS StaticProxy, TLC

CONSTANTS c1, c2, k1, k2

\* One key changes from content that may be reused to content that may not
\* without asking (index.html); the other from an asset without usable
\* directives to an error document, then to an object too large to buffer.
Doc(status, cc, size, large) == [status |-> status, cc |-> cc, size |-> size, large |-> large]
MCContent ==
  k1 :> << Doc(200, <<<<"max-age", 0>>, <<"s-maxage", 1>>, <<"s-maxage", Absent>>>>, 1, FALSE),
           Doc(200, <<<<"no-cache", Absent>>>>, 2, FALSE) >>
  @@ k2 :> << Doc(200, <<<<"max-age", Absent>>>>, 1, FALSE), Doc(404, <<>>, 1, FALSE),
              Doc(200, <<>>, 1, TRUE) >>
MCRequest == {<<k1, "GET">>, <<k2, "GET">>, <<k2, "HEAD">>}
MCSymmetry == Permutations({c1, c2})

=============================================================================
