--------------------------- MODULE MCPersistence ---------------------------
(* A document with its job, a result, an artifact and a review item.       *)
EXTENDS Persistence, TLC

CONSTANTS d1, j1, k1, r1, a0, a1, i1, x1, u1, v1, v2

MCPayloads ==
    {Nothing,
     [Nothing EXCEPT !.status = "succeeded"],
     [Nothing EXCEPT !.status = "open"],
     [Nothing EXCEPT !.status = "queued", !.attempts = 0, !.content = k1],
     [Nothing EXCEPT !.content = v1],
     [Nothing EXCEPT !.file = <<a1, v1>>]}
=============================================================================
