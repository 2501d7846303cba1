----------------------------- MODULE LinuxEvent -----------------------------
(***************************************************************************)
(* The event objects of platform/linux_compat.h.  A handle h is a function *)
(* from event names to the flag "signaled"; all events of this program are *)
(* auto-reset, and one thread at most waits for each.                      *)
(***************************************************************************)

SetEvent(h, e) == [h EXCEPT ![e] = TRUE]

\* Mutant of ResetEvent: the event stays as it is.
ResetForgotten(h, e) == h

ResetEvent(h, e) == [h EXCEPT ![e] = FALSE]

\* WaitForSingleObject returns WAIT_OBJECT_0 when the event is signaled, and
\* takes the signal with it.
WaitReturns(h, e) == h[e]
AfterWait(h, e) == [h EXCEPT ![e] = FALSE]
=============================================================================
