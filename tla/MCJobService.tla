--------------------------- MODULE MCJobService ---------------------------
(* Small instances of JobService for TLC.                                  *)
EXTENDS JobService, TLC

CONSTANTS j1, j2, j3, t1, t2, t3, a1, a2, w1, c1, key1, key2

Request(key, mode, src) ==
    [key |-> key, mode |-> mode, file |-> "f", src |-> src, tmpl |-> None,
     params |-> 1]

Upload == Request(key1, "standard", c1)
UploadElsewhere == Request(key1, "high_quality", c1)  \* another binding of key1
HighQuality == Request(key2, "high_quality", c1)
NoSource == Request(key2, "high_quality", None)

MCUpload == {Upload}
MCUploads == {Upload, HighQuality}
MCMixed == {Upload, UploadElsewhere, NoSource}

ServiceSymmetry ==
    Permutations(JobIds) \cup Permutations(Threads) \cup Permutations(Actors)
===========================================================================
