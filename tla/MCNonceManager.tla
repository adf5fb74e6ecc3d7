--------------------------- MODULE MCNonceManager ---------------------------
(* Small instances of NonceManager: three calls, enough for one to delete  *)
(* the lock of a second while a third comes in.                            *)
EXTENDS NonceManager

CONSTANTS s1, s2, s3
=============================================================================
