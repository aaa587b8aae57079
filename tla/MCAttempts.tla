----------------------------- MODULE MCAttempts -----------------------------
(***************************************************************************)
(* Small attempts for TLC.                                                 *)
(***************************************************************************)
EXTENDS Attempts

CONSTANTS x, y

NoneOrOne == {<<>>, <<x>>}

Response(declared, body, limit) == [declared |-> declared, body |-> body, limit |-> limit]

SomeResponses ==
  {Response(FALSE, "none", FALSE), Response(TRUE, "json", FALSE),
   Response(TRUE, "other", FALSE), Response(FALSE, "none", TRUE),
   Response(FALSE, "other", TRUE)}
=============================================================================
