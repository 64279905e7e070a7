----------------------------- MODULE MCLogWriter -----------------------------
(* Two lines of the application, one of autoFlush, a buffer of two.        *)
EXTENDS LogWriter
=============================================================================
