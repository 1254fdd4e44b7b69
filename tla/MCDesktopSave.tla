--------------------------- MODULE MCDesktopSave ---------------------------
(* A small instance of DesktopSave for TLC.                                *)
EXTENDS DesktopSave

CONSTANTS s1, s2
============================================================================
