------------------------------- MODULE PidFd -------------------------------
(***************************************************************************)
(* How the exit status of a guest reaches the exit code of its instance:   *)
(* Instance::start and its watcher task (containerd-shim-wasm              *)
(* sys/unix/container/instance.rs) and PidFd (sys/unix/pid_fd.rs).         *)
(*                                                                         *)
(* The guests are children of the shim, and two parties wait for them: the *)
(* watcher, through a pidfd, and the SIGCHLD reaper of containerd-shim,    *)
(* which calls waitpid for every child and then hands the status to all    *)
(* the subscribers of its monitor.  A status is collected only once, so a  *)
(* watcher that comes second has to find it in its subscription.  The      *)
(* reaper and the kernel are external.                                     *)
(***************************************************************************)
EXTENDS Integers, Sequences

CONSTANTS
  Guests,
  Statuses,    \* how a process may end: [how, n], an exit status or a signal
  GuardCode,   \* the code that a failure leaves (137)
  ReaperLags,  \* whether 2 s may pass between waitpid and the notification
  CallsFail,   \* whether the system calls of start and of the watcher may fail
  None

ASSUME StatusAssumption ==
  \A s \in Statuses : s.how \in {"exited", "signaled"} /\ s.n \in Nat
ASSUME GuardAssumption == GuardCode \in Nat
ASSUME ModeAssumption == ReaperLags \in BOOLEAN /\ CallsFail \in BOOLEAN
ASSUME NoneAssumption ==
  None \notin Nat \cup Statuses \cup [pid : Guests, exit_code : Nat]

VARIABLES
  proc,       \* proc[g]: the process of the guest
  died,       \* died[g]: how it ended
  released,   \* the guests that container.start() has let go
  subs,       \* subs[g]: what is queued in the watcher's subscription
  listening,  \* the guests whose subscription exists
  reaper,     \* the event the reaper is about to hand out
  ready,      \* the guests whose AsyncFd has seen the end of the process
  pc,         \* pc[g]: where start, and later the watcher, of g is
  exit_code   \* exit_code[g]: the WaitableCell of the instance

kernel == <<proc, died, reaper>>
vars == <<proc, died, released, subs, listening, reaper, ready, pc, exit_code>>

(* The exit code of a status, the same for the watcher and the reaper. *)
Code(s) == IF s.how = "exited" THEN s.n ELSE 128 + s.n

Events == [pid : Guests, exit_code : {Code(s) : s \in Statuses}]

(* One type invariant for the module. *)
TypeOK ==
  /\ proc \in [Guests -> {"alive", "zombie", "reaped"}]
  /\ died \in [Guests -> Statuses \cup {None}]
  /\ released \subseteq Guests /\ listening \subseteq Guests /\ ready \subseteq Guests
  /\ subs \in [Guests -> Seq(Events)]
  /\ reaper \in Events \cup {None}
  /\ pc \in [Guests -> {"idle", "subscribe", "open", "start", "register",
                        "waitid", "readable", "recv", "done"}]
  /\ exit_code \in [Guests -> Nat \cup {None}]

Init ==
  /\ proc = [g \in Guests |-> "alive"]
  /\ died = [g \in Guests |-> None]
  /\ released = {} /\ listening = {} /\ ready = {}
  /\ subs = [g \in Guests |-> <<>>]
  /\ reaper = None
  /\ pc = [g \in Guests |-> "idle"]
  /\ exit_code = [g \in Guests |-> None]

-----------------------------------------------------------------------------
(* A guest ends; an AsyncFd that is registered sees the edge. *)
guest_exit(g) ==
  /\ proc[g] = "alive"
  /\ proc' = [proc EXCEPT ![g] = "zombie"]
  /\ \E s \in Statuses : died' = [died EXCEPT ![g] = s]
  /\ ready' = IF pc[g] \in {"waitid", "readable"} THEN ready \cup {g} ELSE ready
  /\ UNCHANGED <<released, subs, listening, reaper, pc, exit_code>>

(* The reaper's waitpid ... *)
reaper_wait(g) ==
  /\ reaper = None
  /\ proc[g] = "zombie"
  /\ proc' = [proc EXCEPT ![g] = "reaped"]
  /\ reaper' = [pid |-> g, exit_code |-> Code(died[g])]
  /\ UNCHANGED <<died, released, subs, listening, ready, pc, exit_code>>

(* ... and the notification of everybody who has subscribed by then. *)
reaper_notify ==
  /\ reaper # None
  /\ subs' = [g \in Guests |-> IF g \in listening THEN Append(subs[g], reaper)
                               ELSE subs[g]]
  /\ reaper' = None
  /\ UNCHANGED <<proc, died, released, listening, ready, pc, exit_code>>

-----------------------------------------------------------------------------
(* start or the watcher is over: the exit code is set, the PidFd dropped. *)
Finish(g, code) ==
  /\ pc' = [pc EXCEPT ![g] = "done"]
  /\ exit_code' = [exit_code EXCEPT ![g] = code]
  /\ listening' = listening \ {g}
  /\ subs' = [subs EXCEPT ![g] = <<>>]
  /\ ready' = ready \ {g}

(* The subscription and the pidfd are made after the guest was let go. *)
Mut_after ==
  [idle |-> "start", start |-> "subscribe", subscribe |-> "open",
   open |-> "register", register |-> "waitid"]

(* The watcher waits for the edge before it looks at the process. *)
Mut_after_register ==
  [idle |-> "subscribe", subscribe |-> "open", open |-> "start",
   start |-> "register", register |-> "readable"]

(* The order of the calls of start and of the watcher's first ones. *)
after ==
  [idle |-> "subscribe", subscribe |-> "open", open |-> "start",
   start |-> "register", register |-> "waitid"]

Proceed(g) == pc' = [pc EXCEPT ![g] = after[pc[g]]]

(* The exit code guard of start, or the watcher's match, turns any error   *)
(* into GuardCode.                                                         *)
fail(g) ==
  /\ \/ pc[g] \in {"open", "start"} /\ proc[g] # "alive"
     \/ pc[g] \in DOMAIN after \cup {"waitid"} /\ CallsFail
  /\ Finish(g, GuardCode)
  /\ UNCHANGED <<kernel, released>>

start_pid(g) ==
  /\ pc[g] = "idle"
  /\ Proceed(g)
  /\ UNCHANGED <<kernel, released, subs, listening, ready, exit_code>>

new_subscribe(g) ==
  /\ pc[g] = "subscribe"
  /\ listening' = listening \cup {g}
  /\ Proceed(g)
  /\ UNCHANGED <<kernel, released, subs, ready, exit_code>>

(* pidfd_open finds a process until it has been reaped. *)
new_open(g) ==
  /\ pc[g] = "open"
  /\ proc[g] # "reaped"
  /\ Proceed(g)
  /\ UNCHANGED <<kernel, released, subs, listening, ready, exit_code>>

container_start(g) ==
  /\ pc[g] = "start"
  /\ released' = released \cup {g}
  /\ Proceed(g)
  /\ UNCHANGED <<kernel, subs, listening, ready, exit_code>>

wait_register(g) ==
  /\ pc[g] = "register"
  /\ Proceed(g)
  /\ UNCHANGED <<kernel, released, subs, listening, ready, exit_code>>

(* waitid collects the status of a zombie unless the reaper has it. *)
wait_waitid(g) ==
  /\ pc[g] = "waitid"
  /\ \/ /\ proc[g] = "alive"
        /\ pc' = [pc EXCEPT ![g] = "readable"]
        /\ UNCHANGED <<proc, subs, listening, ready, exit_code>>
     \/ /\ proc[g] = "zombie"
        /\ proc' = [proc EXCEPT ![g] = "reaped"]
        /\ Finish(g, Code(died[g]))
     \/ /\ proc[g] = "reaped"
        /\ pc' = [pc EXCEPT ![g] = "recv"]
        /\ UNCHANGED <<proc, subs, listening, ready, exit_code>>
  /\ UNCHANGED <<died, released, reaper>>

wait_readable(g) ==
  /\ pc[g] = "readable" /\ g \in ready
  /\ pc' = [pc EXCEPT ![g] = "waitid"]
  /\ UNCHANGED <<kernel, released, subs, listening, ready, exit_code>>

(* Events of other processes are skipped ... *)
try_wait_pid(g) ==
  /\ pc[g] = "recv"
  /\ subs[g] # <<>>
  /\ \/ /\ Head(subs[g]).pid = g
        /\ Finish(g, Head(subs[g]).exit_code)
     \/ /\ Head(subs[g]).pid # g
        /\ subs' = [subs EXCEPT ![g] = Tail(@)]
        /\ UNCHANGED <<listening, ready, pc, exit_code>>
  /\ UNCHANGED <<kernel, released>>

(* ... until 2 s pass without one. *)
recv_timeout(g) ==
  /\ pc[g] = "recv"
  /\ subs[g] = <<>>
  /\ ReaperLags \/ reaper = None
  /\ Finish(g, GuardCode)
  /\ UNCHANGED <<kernel, released>>

(* One step of the thread that runs start, and of the watcher it spawns. *)
watcher(g) ==
  \/ start_pid(g) \/ new_subscribe(g) \/ new_open(g) \/ container_start(g)
  \/ wait_register(g) \/ wait_waitid(g) \/ wait_readable(g)
  \/ try_wait_pid(g) \/ recv_timeout(g) \/ fail(g)

Next ==
  \/ reaper_notify
  \/ \E g \in Guests : guest_exit(g) \/ reaper_wait(g) \/ watcher(g)

Spec == Init /\ [][Next]_vars

(* Fairness: the threads of the shim run.  No guest has to end. *)
FairSpec ==
  /\ Spec
  /\ WF_vars(reaper_notify)
  /\ \A g \in Guests : WF_vars(watcher(g))

-----------------------------------------------------------------------------
(***************************************************************************)
(* "to ensure we never miss the SIGCHLD event" (instance.rs:145): a guest  *)
(* that was let go gets its own status as exit code, and only after it has *)
(* ended, whichever of the watcher and the reaper collects the status.  A  *)
(* reaper that takes longer than the timeout of try_wait_pid costs the     *)
(* status: the guard's code takes its place.                               *)
(***************************************************************************)
StatusReported ==
  \A g \in released :
    exit_code[g] # None =>
      /\ died[g] # None
      /\ exit_code[g] = Code(died[g]) \/ (ReaperLags /\ exit_code[g] = GuardCode)

(***************************************************************************)
(* The end of a guest whose start has begun is reported, whether the       *)
(* process ends before, while or after the AsyncFd is registered, and      *)
(* whatever call fails (pid_fd.rs:30-58).                                  *)
(***************************************************************************)
DeathReported ==
  \A g \in Guests :
    died[g] # None /\ pc[g] # "idle" ~> exit_code[g] # None

=============================================================================
