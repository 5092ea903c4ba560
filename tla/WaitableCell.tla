---------------------------- MODULE WaitableCell ----------------------------
(***************************************************************************)
(* WaitableCell (containerd-shimkit sandbox/sync.rs): a std::cell::OnceCell *)
(* and a tokio Notify, shared between threads without a lock.  The shim    *)
(* uses one for the exit code of each instance and one for its own exit.   *)
(*                                                                         *)
(* A setter is a thread that calls set with the values of its program, one *)
(* after the other: the watcher of a guest sets the exit status and then   *)
(* drops the guard, which sets 137.  The steps of set and wait interleave  *)
(* at every access to the cell and to the Notify.  The store of a value    *)
(* becomes visible at once.                                                *)
(***************************************************************************)
EXTENDS Sequences

CONSTANTS
  Setters, Waiters, Values,
  Program,     \* Program[s]: the values that s passes to set
  None

ASSUME ProgramAssumption ==
  /\ Program \in [Setters -> Seq(Values)]
  /\ None \notin Values

VARIABLES
  cell,     \* the OnceCell
  todo,     \* todo[s]: the values s has still to pass to set
  spc,      \* spc[s]: where s is in set
  wpc,      \* wpc[w]: where w is in wait
  woken,    \* the waiters whose Notified future has fired
  got       \* got[w]: what wait returned to w

vars == <<cell, todo, spc, wpc, woken, got>>

(* One type invariant for the module. *)
TypeOK ==
  /\ cell \in Values \cup {None}
  /\ todo \in [Setters -> Seq(Values)]
  /\ spc \in [Setters -> {"idle", "write", "notify"}]
  /\ wpc \in [Waiters -> {"idle", "get", "await", "unwrap", "done"}]
  /\ woken \subseteq Waiters
  /\ got \in [Waiters -> Values \cup {None}]
  /\ \A w \in Waiters : wpc[w] = "done" => got[w] \in Values

Init ==
  /\ cell = None
  /\ todo = Program
  /\ spc = [s \in Setters |-> "idle"]
  /\ wpc = [w \in Waiters |-> "idle"]
  /\ woken = {}
  /\ got = [w \in Waiters |-> None]

-----------------------------------------------------------------------------
(* A waiter has a Notified future from the moment it calls notified(). *)
Notified == {w \in Waiters : wpc[w] \in {"get", "await"}}

(***************************************************************************)
(* OnceCell::set looks whether the cell is empty, then stores the value.   *)
(* A full cell ends the call with the error that returns the value.        *)
(***************************************************************************)
(* The waiters are notified before the value is there. *)
Mut_set_check(s) ==
  /\ spc[s] = "idle" /\ todo[s] # <<>>
  /\ \/ /\ cell # None
        /\ todo' = [todo EXCEPT ![s] = Tail(@)]
        /\ UNCHANGED <<spc, woken>>
     \/ /\ cell = None
        /\ spc' = [spc EXCEPT ![s] = "write"]
        /\ woken' = woken \cup Notified
        /\ UNCHANGED todo
  /\ UNCHANGED <<cell, wpc, got>>

set_check(s) ==
  /\ spc[s] = "idle" /\ todo[s] # <<>>
  /\ \/ /\ cell # None
        /\ todo' = [todo EXCEPT ![s] = Tail(@)]
        /\ UNCHANGED spc
     \/ /\ cell = None
        /\ spc' = [spc EXCEPT ![s] = "write"]
        /\ UNCHANGED todo
  /\ UNCHANGED <<cell, wpc, woken, got>>

set_write(s) ==
  /\ spc[s] = "write"
  /\ cell' = Head(todo[s])
  /\ spc' = [spc EXCEPT ![s] = "notify"]
  /\ UNCHANGED <<todo, wpc, woken, got>>

(* Only one waiter is woken, as notify_one would. *)
Mut_set_notify(s) ==
  /\ spc[s] = "notify"
  /\ IF Notified = {} THEN UNCHANGED woken
     ELSE \E w \in Notified : woken' = woken \cup {w}
  /\ todo' = [todo EXCEPT ![s] = Tail(@)]
  /\ spc' = [spc EXCEPT ![s] = "idle"]
  /\ UNCHANGED <<cell, wpc, got>>

(* notify_waiters fires every Notified future that exists. *)
set_notify(s) ==
  /\ spc[s] = "notify"
  /\ woken' = woken \cup Notified
  /\ todo' = [todo EXCEPT ![s] = Tail(@)]
  /\ spc' = [spc EXCEPT ![s] = "idle"]
  /\ UNCHANGED <<cell, wpc, got>>

-----------------------------------------------------------------------------
wait_notified(w) ==
  /\ wpc[w] = "idle"
  /\ wpc' = [wpc EXCEPT ![w] = "get"]
  /\ UNCHANGED <<cell, todo, spc, woken, got>>

Leaving(w) == woken' = woken \ {w}

wait_get(w) ==
  /\ wpc[w] = "get"
  /\ \/ /\ cell # None
        /\ wpc' = [wpc EXCEPT ![w] = "done"]
        /\ got' = [got EXCEPT ![w] = cell]
        /\ Leaving(w)
     \/ /\ cell = None
        /\ wpc' = [wpc EXCEPT ![w] = "await"]
        /\ UNCHANGED <<got, woken>>
  /\ UNCHANGED <<cell, todo, spc>>

wait_await(w) ==
  /\ wpc[w] = "await" /\ w \in woken
  /\ wpc' = [wpc EXCEPT ![w] = "unwrap"]
  /\ Leaving(w)
  /\ UNCHANGED <<cell, todo, spc, got>>

(* The future is dropped while it is pending (`now_or_never`). *)
wait_drop(w) ==
  /\ wpc[w] = "await"
  /\ wpc' = [wpc EXCEPT ![w] = "idle"]
  /\ Leaving(w)
  /\ UNCHANGED <<cell, todo, spc, got>>

wait_unwrap(w) ==
  /\ wpc[w] = "unwrap"
  /\ wpc' = [wpc EXCEPT ![w] = "done"]
  /\ got' = [got EXCEPT ![w] = cell]
  /\ UNCHANGED <<cell, todo, spc, woken>>

(* The caller is done with the value and may wait again. *)
wait_return(w) ==
  /\ wpc[w] = "done"
  /\ wpc' = [wpc EXCEPT ![w] = "idle"]
  /\ got' = [got EXCEPT ![w] = None]
  /\ UNCHANGED <<cell, todo, spc, woken>>

set(s) == set_check(s) \/ set_write(s) \/ set_notify(s)
wait(w) == wait_get(w) \/ wait_await(w) \/ wait_unwrap(w)

Next ==
  \/ \E s \in Setters : set(s)
  \/ \E w \in Waiters : wait(w) \/ wait_notified(w) \/ wait_drop(w) \/ wait_return(w)

Spec == Init /\ [][Next]_vars

(* Fairness: a thread inside set or wait that can run does run. *)
FairSpec ==
  /\ Spec
  /\ \A s \in Setters : WF_vars(set(s))
  /\ \A w \in Waiters : WF_vars(wait(w))

-----------------------------------------------------------------------------
(***************************************************************************)
(* "safe because we've been notified, which can only happen a call to      *)
(* self.inner.cell.set(..)" (sync.rs:95): a waiter that was notified finds *)
(* a value, so unwrap_unchecked is never applied to an empty cell.         *)
(***************************************************************************)
UnwrapSafe == \A w \in Waiters : wpc[w] = "unwrap" => cell # None

(***************************************************************************)
(* With one setting thread the cell keeps its promise (sync.rs:49-98): the *)
(* first value stays, every waiter gets that one, and no wakeup is lost    *)
(* between a waiter's look at the cell and its wait for the notification.  *)
(***************************************************************************)
Promise == INSTANCE SetOnce
             WITH value <- cell,
                  waiting <- {w \in Waiters : wpc[w] \in {"get", "await", "unwrap"}}

KeepsPromise == Promise!Spec

=============================================================================
