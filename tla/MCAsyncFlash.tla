---------------------------- MODULE MCAsyncFlash ----------------------------
(***************************************************************************)
(* AsyncFlash for TLC, with a claim of the flash driver interface that the   *)
(* code does not keep.                                                     *)
(***************************************************************************)
EXTENDS AsyncFlash

\* flash/nor/driver.h:137 says of write: "@returns ERROR_OK if successful;
\* otherwise, an error code": ERROR_OK is not returned for a partial write.
WriteReported ==
  (hpc = "idle" /\ retval = "OK") => \A b \in Block : flash[b] = b
=============================================================================
