-------------------------- MODULE MCTemplateStore --------------------------
(* Small instances of TemplateStore for TLC.                               *)
EXTENDS TemplateStore

CONSTANTS custom, seeded, u1, u2

MCRequest(name, fields, mapping, status, actor, approved_by) ==
    [name |-> name, fields |-> fields, mapping |-> mapping, status |-> status,
     actor |-> actor, approved_by |-> approved_by]

MCSeed == [id \in {seeded} |-> MCRequest("n0", "f0", None, None, SeedActor, None)]

(* Definitions with and without the optional attributes, the status given, *)
(* toggled or left out, claimed and malformed identities.                  *)
MCRequests == {
    MCRequest("n1", "f1", "m1", None, u1, None),
    MCRequest("n2", "f2", None, "inactive", Malformed, None),
    MCRequest("n1", "f2", "m2", "active", u1, Malformed),
    MCRequest("n1", "f1", None, "active", u1, u2)}
============================================================================
