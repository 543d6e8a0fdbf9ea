------------------------------ MODULE BlacklistFile ------------------------------
(***************************************************************************)
(* What the bots and the admin CLI rely on when they change the blacklist: *)
(* each change happens in one step, on top of all the changes before it,   *)
(* at most once, and between the call of its update and the call's end.    *)
(* BlacklistLock is how the code does it.                                  *)
(***************************************************************************)
CONSTANT Updates   \* the changes that may be asked for

VARIABLES
  file,      \* the changes the content of the file is the result of
  pending    \* the changes whose call is not over

vars == <<file, pending>>

Init == file = {} /\ pending = {}

\* An update is called; no update is called twice.
Request(u) ==
  /\ u \notin file \cup pending
  /\ pending' = pending \cup {u}
  /\ UNCHANGED file

Apply(u) ==
  /\ u \in pending
  /\ file' = file \cup {u}
  /\ pending' = pending \ {u}

\* The call throws or its process dies; the change will not happen any more.
Fail(u) ==
  /\ u \in pending
  /\ pending' = pending \ {u}
  /\ UNCHANGED file

Next == \E u \in Updates : Request(u) \/ Apply(u) \/ Fail(u)

Spec == Init /\ [][Next]_vars
=============================================================================
