--------------------------- MODULE MCWorkingArea ---------------------------
(***************************************************************************)
(* WorkingArea for TLC.                                                    *)
(***************************************************************************)
EXTENDS WorkingArea

\* "It points to some previous caller's memory. How could we know that the area
\* pointer is still in that place" (target.c:1939): every lent area's user is a
\* variable that still exists.
UsersExist == \A a \in areas : ~a.free => a.user \notin gone
=============================================================================
