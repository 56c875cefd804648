------------------------------ MODULE AsyncIO ------------------------------
(***************************************************************************)
(* What the asynchronous engine promises its callers (the comments of      *)
(* module/jinasyncengine.h on attach, detach and driveEngine), with no     *)
(* threads, no queues and no counters: an object attaches a session, posts *)
(* operations on it, and gets one callback for each; once it detaches it   *)
(* gets none, and the session's memory goes with its last operation.       *)
(***************************************************************************)
CONSTANTS Objs, Sessions, Ops, NULL

VARIABLES
  sess,     \* the state of each session
  holder,   \* the object that attached it
  on        \* the session each unfinished operation was posted on

absVars == <<sess, holder, on>>

AbsTypeOK ==
  /\ sess \in [Sessions -> {"none", "attached", "detached"}]
  /\ holder \in [Sessions -> Objs \cup {NULL}]
  /\ on \in [Ops -> Sessions \cup {NULL}]

AbsInit ==
  /\ sess = [s \in Sessions |-> "none"]
  /\ holder = [s \in Sessions |-> NULL]
  /\ on = [d \in Ops |-> NULL]

Busy(s, unfinished) == \E d \in Ops : unfinished[d] = s

\* An object holds one session at a time.
AbsAttachTo(s, o) ==
  /\ sess[s] = "none"
  /\ \A t \in Sessions : sess[t] = "attached" => holder[t] # o
  /\ sess' = [sess EXCEPT ![s] = "attached"]
  /\ holder' = [holder EXCEPT ![s] = o]

\* A session that its object gives up is gone unless operations still hold it.
AbsRelease(s, unfinished) ==
  LET kept == Busy(s, unfinished)
  IN /\ sess' = [sess EXCEPT ![s] = IF kept THEN "detached" ELSE "none"]
     /\ holder' = [holder EXCEPT ![s] = IF kept THEN @ ELSE NULL]

Without(d) == [on EXCEPT ![d] = NULL]

AbsAttach(s, o) == AbsAttachTo(s, o) /\ UNCHANGED on

AbsAttachAndPost(s, o, d) ==
  /\ on[d] = NULL
  /\ AbsAttachTo(s, o)
  /\ on' = [on EXCEPT ![d] = s]

AbsPost(s, d) ==
  /\ sess[s] = "attached" /\ on[d] = NULL
  /\ on' = [on EXCEPT ![d] = s]
  /\ UNCHANGED <<sess, holder>>

\* The callback, in which an accepted connection may get a session of its own.
AbsCallback(d) ==
  /\ on[d] # NULL /\ sess[on[d]] = "attached"
  /\ on' = Without(d)
  /\ \/ UNCHANGED <<sess, holder>>
     \/ \E s \in Sessions, o \in Objs : AbsAttachTo(s, o)

AbsDetach(s) ==
  /\ sess[s] = "attached"
  /\ AbsRelease(s, on)
  /\ UNCHANGED on

\* The callback of a disconnect, whose socket is closed by then.
AbsCallbackDetach(d) ==
  /\ on[d] # NULL /\ sess[on[d]] = "attached"
  /\ on' = Without(d)
  /\ AbsRelease(on[d], Without(d))

AbsDiscard(d) ==
  /\ on[d] # NULL /\ sess[on[d]] = "detached"
  /\ on' = Without(d)
  /\ AbsRelease(on[d], Without(d))

AbsNext ==
  \/ \E s \in Sessions, o \in Objs : AbsAttach(s, o)
  \/ \E s \in Sessions, o \in Objs, d \in Ops : AbsAttachAndPost(s, o, d)
  \/ \E s \in Sessions, d \in Ops : AbsPost(s, d)
  \/ \E s \in Sessions : AbsDetach(s)
  \/ \E d \in Ops : AbsCallback(d) \/ AbsCallbackDetach(d) \/ AbsDiscard(d)

AbsSpec == AbsInit /\ [][AbsNext]_absVars
=============================================================================
