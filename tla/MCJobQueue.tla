---------------------------- MODULE MCJobQueue ----------------------------
(* Small instances of JobQueue for TLC.                                    *)
EXTENDS JobQueue, TLC

CONSTANTS j1, j2, j3, c1, c2, key1, key2, key3

Request(key, mode, src, params) ==
    [key |-> key, mode |-> mode, file |-> "f", src |-> src, tmpl |-> None,
     params |-> params]

(* Three keys; two high-quality requests; the first two share one content. *)
MCRequests ==
    {Request(key1, "standard", c1, 1), Request(key2, "high_quality", c1, 1),
     Request(key3, "high_quality", None, 1)}

JobSymmetry == Permutations(JobIds)
===========================================================================
