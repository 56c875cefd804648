--------------------------- MODULE SignaledEvent ---------------------------
(***************************************************************************)
(* JinEvent with auto-reset (base/jinsignaledevent.cpp, POSIX build) for   *)
(* one waiting thread: a flag, a mutex and a condition variable.  Each     *)
(* operator is what one section under the mutex, or one call on the        *)
(* condition variable, makes of the event; set is two of them, because it  *)
(* signals the condition after it gave the mutex back.                     *)
(***************************************************************************)
Waiters == {"none", "blocked", "woken"}

EventType == [isSignaled : BOOLEAN, waiter : Waiters]

NewEvent == [isSignaled |-> FALSE, waiter |-> "none"]

\* set, under the mutex.
Set(ev) == [ev EXCEPT !.isSignaled = TRUE]

\* set, after the mutex: pthread_cond_signal wakes the thread that is
\* blocked by now, and is lost if there is none.
CondSignal_Lost(ev) == ev

CondSignal(ev) == [ev EXCEPT !.waiter = IF @ = "blocked" THEN "woken" ELSE @]

\* wait, under the mutex: take the signal, or block.
Passes_Never(ev) == FALSE

Passes(ev) == ev.isSignaled

Enter(ev) ==
  IF Passes(ev) THEN [ev EXCEPT !.isSignaled = FALSE]
                ELSE [ev EXCEPT !.waiter = "blocked"]

\* wait, once pthread_cond_wait has returned with the mutex.  It does not
\* test the flag again: it takes whatever was set since.
Leave(ev) == [isSignaled |-> FALSE, waiter |-> "none"]
=============================================================================
