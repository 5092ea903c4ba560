------------------------------- MODULE SetOnce -------------------------------
(***************************************************************************)
(* What a WaitableCell promises to the code that uses it: the cell is      *)
(* given a value once, and whoever waits for it gets that value.  A wait   *)
(* may be given up, as `wait().now_or_never()` does when nothing is there. *)
(***************************************************************************)
CONSTANTS Waiters, Values, None

VARIABLES value, waiting, got

vars == <<value, waiting, got>>

Init ==
  /\ value = None
  /\ waiting = {}
  /\ got = [w \in Waiters |-> None]

Set(v) == value = None /\ value' = v /\ UNCHANGED <<waiting, got>>

Wait(w) ==
  /\ w \notin waiting /\ got[w] = None
  /\ waiting' = waiting \cup {w}
  /\ UNCHANGED <<value, got>>

GiveUp(w) ==
  /\ w \in waiting
  /\ waiting' = waiting \ {w}
  /\ UNCHANGED <<value, got>>

Get(w) ==
  /\ w \in waiting /\ value # None
  /\ waiting' = waiting \ {w}
  /\ got' = [got EXCEPT ![w] = value]
  /\ UNCHANGED value

Leave(w) ==
  /\ got[w] # None
  /\ got' = [got EXCEPT ![w] = None]
  /\ UNCHANGED <<value, waiting>>

Next ==
  \/ \E v \in Values : Set(v)
  \/ \E w \in Waiters : Wait(w) \/ GiveUp(w) \/ Get(w) \/ Leave(w)

Safety == Init /\ [][Next]_vars

Spec == Safety /\ \A w \in Waiters : WF_vars(Get(w))

=============================================================================
