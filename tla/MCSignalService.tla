--------------------------- MODULE MCSignalService ---------------------------
(* An instance of SignalService: two default quit signals, one the vector   *)
(* form can name without SIGQUIT, and one the application may handle.       *)
EXTENDS SignalService

CONSTANTS QUIT, TERM, USR

MCSignal  == {QUIT, TERM, USR}
MCDefault == {QUIT, TERM}
MCVectors == {{TERM}, {USR}}
=============================================================================
