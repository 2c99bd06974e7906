----------------------------- MODULE MCLogFile -----------------------------
EXTENDS LogFile
=============================================================================
