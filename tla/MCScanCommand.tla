----------------------------- MODULE MCScanCommand -----------------------------
EXTENDS ScanCommand

CONSTANTS f1, f2, f3
=============================================================================
