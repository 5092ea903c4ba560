------------------------------- MODULE Hooks -------------------------------
(***************************************************************************)
(* setup_prestart_hooks (containerd-shimkit sandbox/oci.rs), which runs    *)
(* the prestart hooks of a container, one after the other, before its      *)
(* instance is made.  The hooks and the shim's reaper, which waits for any *)
(* child of the shim, are external.                                        *)
(***************************************************************************)
EXTENDS Integers, Sequences

CONSTANTS
  MaxHooks,
  Codes,       \* the statuses that hooks exit with
  Behaviours,  \* what hooks do with stdin: "ignores", "reads", "reads_to_end"
  Reaper,      \* whether the shim's reaper runs
  CallsFail,   \* whether spawn and write may fail
  None

VARIABLES
  hooks,    \* the prestart hooks: what each does; None if there is no prestart list
  pc, idx,
  stdin,    \* the pipe of the hook at hand: its content, and whether the shim holds it open
  child,    \* child[i]: "none", "running", "zombie", "reaped"
  code,     \* code[i]: its exit status, once it ended
  broken,   \* whether a call failed
  result    \* "none", "ok", "err", "panic"

vars == <<hooks, pc, idx, stdin, child, code, broken, result>>

I == 1 .. MaxHooks

(* One type invariant for the module. *)
TypeOK ==
  /\ pc \in {"spawn", "write", "kill", "close", "wait", "return"}
  /\ idx \in 1 .. MaxHooks + 1
  /\ stdin \in [data : BOOLEAN, open : BOOLEAN]
  /\ child \in [I -> {"none", "running", "zombie", "reaped"}]
  /\ code \in [I -> Codes \cup {None}]
  /\ result \in {"none", "ok", "err", "panic"}

Init ==
  /\ hooks \in {None} \cup UNION {[1 .. n -> Behaviours] : n \in 0 .. MaxHooks}
  /\ pc = "spawn" /\ idx = 1
  /\ stdin = [data |-> FALSE, open |-> FALSE]
  /\ child = [i \in I |-> "none"] /\ code = [i \in I |-> None]
  /\ broken = FALSE /\ result = "none"

Return(r) == pc' = "return" /\ result' = r

(* hooks().prestart() is unwrapped. *)
unwrap ==
  /\ pc = "spawn" /\ hooks = None
  /\ Return("panic")
  /\ UNCHANGED <<hooks, idx, stdin, child, code, broken>>

spawn ==
  /\ pc = "spawn" /\ hooks # None
  /\ \/ /\ idx > Len(hooks)
        /\ Return("ok")
        /\ UNCHANGED <<idx, stdin, child, broken>>
     \/ /\ idx <= Len(hooks)
        /\ child' = [child EXCEPT ![idx] = "running"]
        /\ stdin' = [data |-> FALSE, open |-> TRUE]
        /\ pc' = "write"
        /\ UNCHANGED <<idx, broken, result>>
     \/ /\ idx <= Len(hooks) /\ CallsFail
        /\ broken' = TRUE
        /\ Return("err")
        /\ UNCHANGED <<idx, stdin, child>>
  /\ UNCHANGED <<hooks, code>>

(* write_all of the state: the hook has it, or the pipe is broken because  *)
(* the hook ended, or it is another error and the hook is killed.          *)
write_state ==
  /\ pc = "write"
  /\ \/ /\ child[idx] = "running"
        /\ stdin' = [stdin EXCEPT !.data = TRUE]
        /\ pc' = "close"
        /\ UNCHANGED broken
     \/ /\ child[idx] # "running"
        /\ pc' = "close"
        /\ UNCHANGED <<stdin, broken>>
     \/ /\ CallsFail
        /\ pc' = "kill"
        /\ broken' = TRUE
        /\ UNCHANGED stdin
  /\ UNCHANGED <<hooks, idx, child, code, result>>

kill ==
  /\ pc = "kill"
  /\ pc' = "close"
  /\ \/ /\ child[idx] = "running"
        /\ child' = [child EXCEPT ![idx] = "zombie"]
        /\ \E c \in Codes \ {0} : code' = [code EXCEPT ![idx] = c]
     \/ child[idx] # "running" /\ UNCHANGED <<child, code>>
  /\ UNCHANGED <<hooks, idx, stdin, broken, result>>

(* stdin stays open during the wait. *)
Mut_close ==
  /\ pc = "close"
  /\ pc' = "wait"
  /\ UNCHANGED <<hooks, idx, stdin, child, code, broken, result>>

(* Child::wait drops stdin first ... *)
close ==
  /\ pc = "close"
  /\ stdin' = [stdin EXCEPT !.open = FALSE]
  /\ pc' = "wait"
  /\ UNCHANGED <<hooks, idx, child, code, broken, result>>

(* The hook is not waited for if the write failed. *)
Mut_wait ==
  /\ pc = "wait"
  /\ pc' = "spawn" /\ idx' = idx + 1
  /\ \/ child[idx] = "zombie" /\ child' = [child EXCEPT ![idx] = "reaped"]
     \/ broken /\ UNCHANGED child
  /\ UNCHANGED <<hooks, stdin, code, broken, result>>

(* ... and then waits.  The status is not looked at; that the child was    *)
(* reaped by somebody else is an error.                                    *)
wait ==
  /\ pc = "wait"
  /\ \/ /\ child[idx] = "zombie"
        /\ child' = [child EXCEPT ![idx] = "reaped"]
        /\ pc' = "spawn" /\ idx' = idx + 1
        /\ UNCHANGED result
     \/ /\ child[idx] = "reaped"
        /\ Return("err")
        /\ UNCHANGED <<idx, child>>
  /\ UNCHANGED <<hooks, stdin, code, broken>>

-----------------------------------------------------------------------------
(* A hook ends, once it has read what it reads. *)
hook_exit(i) ==
  /\ child[i] = "running"
  /\ CASE hooks[i] = "ignores" -> TRUE
       [] hooks[i] = "reads" -> stdin.data \/ ~stdin.open
       [] OTHER -> ~stdin.open
  /\ child' = [child EXCEPT ![i] = "zombie"]
  /\ \E c \in Codes : code' = [code EXCEPT ![i] = c]
  /\ UNCHANGED <<hooks, pc, idx, stdin, broken, result>>

reaper_wait(i) ==
  /\ Reaper
  /\ child[i] = "zombie"
  /\ child' = [child EXCEPT ![i] = "reaped"]
  /\ UNCHANGED <<hooks, pc, idx, stdin, code, broken, result>>

setup_prestart_hooks == unwrap \/ spawn \/ write_state \/ kill \/ close \/ wait

Next ==
  \/ setup_prestart_hooks
  \/ \E i \in I : hook_exit(i) \/ reaper_wait(i)

Spec == Init /\ [][Next]_vars

(* The function runs, and a hook that has what it reads ends. *)
Fairness == WF_vars(setup_prestart_hooks) /\ \A i \in I : WF_vars(hook_exit(i))

-----------------------------------------------------------------------------
(* One hook runs at a time, and none runs, or is left as a zombie, when    *)
(* the function returns (the wait at the end of the loop), even after a    *)
(* hook was killed.                                                        *)
OneHookAtATime ==
  /\ \A i \in I : child[i] \in {"running", "zombie"} => i = idx
  /\ pc = "return" => \A i \in I : child[i] \in {"none", "reaped"}

(* Hooks that wait for the end of their input end: the shim does not wait  *)
(* for a hook that waits for the shim (wait drops stdin).                  *)
HooksEnd == <>(result # "none")

(* "If the hook command was successful, ... we should not fail this step": *)
(* an error has a cause, a call or a hook that failed.                     *)
SuccessfulHooksPass ==
  result = "err" => broken \/ \E i \in I : code[i] \notin {0, None}

=============================================================================
