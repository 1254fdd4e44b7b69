-------------------------- MODULE MCReviewAudit --------------------------
(* Small instances of ReviewAudit for TLC.                                 *)
EXTENDS ReviewAudit, FiniteSets, TLC

CONSTANTS a1, a2, a3, k1, k2, k3, k4, x, y, h1, h2

Input(action, conversion, hash, original, revised) ==
    [action |-> action, conversion |-> conversion, hash |-> hash, block |-> "b",
     original |-> original, revised |-> revised]

MCRoles == [a \in {a1, a2, a3} |->
              CASE a = a1 -> "approver" [] a = a2 -> "admin" [] OTHER -> "reviewer"]

(* A scan that needs OCR, stored, direct and stored with a bad download,   *)
(* and a clean conversion.                                                 *)
Result(k, isStored, texts, ocr) ==
    [conversion |-> k, stored |-> isStored, downloadable |-> k # k4, hash |-> h1, texts |-> texts, ocr |-> ocr]
MCResults ==
    {Result(k1, TRUE, [b \in {"b"} |-> x], {"b"}), Result(k2, FALSE, <<>>, {"b", "c"}),
     Result(k3, TRUE, [b \in {"b"} |-> x], {}), Result(k4, TRUE, <<>>, {"b"})}

Boundary(action, k, h, o) == Input(action, k, h, o, o)
MCInputs ==
    {Boundary(action, k, h1, o) : action \in {"edit", "approve"}, k \in {k1, k3}, o \in {x, y}}
    \cup {Boundary(action, None, h1, x) : action \in {"edit", "approve"}}
    \cup {Boundary("needs_fix", k1, h1, x), Boundary("edit", k3, None, x),
          Input("edit", k1, h1, x, y), Input("approve", k1, h1, x, y),
          [Boundary("edit", k2, h1, x) EXCEPT !.block = "c"]}
==========================================================================
