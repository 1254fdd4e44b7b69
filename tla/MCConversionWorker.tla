------------------------ MODULE MCConversionWorker ------------------------
(* Small instances of ConversionWorker for TLC.                            *)
EXTENDS ConversionWorker

CONSTANTS c1, c2
===========================================================================
