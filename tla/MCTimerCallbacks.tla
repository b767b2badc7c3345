-------------------------- MODULE MCTimerCallbacks -------------------------
(***************************************************************************)
(* TimerCallbacks for TLC.                                                 *)
(***************************************************************************)
EXTENDS TimerCallbacks

\* What "reuse" breaks: an owner that unregisters, registers and unregisters before
\* a walk leaves an entry behind that is called (armv7m_trace.c:62 and 119).
NeverCalledUnasked ==
  [][~calling /\ calling' => asked[entry'.callback] # "no"]_vars
=============================================================================
