---------------------------- MODULE MCArchiveRun ----------------------------
EXTENDS ArchiveRun

CONSTANTS c1, c2, inv
=============================================================================
