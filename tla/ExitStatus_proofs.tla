-------------------------- MODULE ExitStatus_proofs --------------------------
(***************************************************************************)
(* How an exit status reaches the callers of wait.  WaitableCell for any   *)
(* number of threads: a notified waiter always finds a value, and with one *)
(* setting thread the cell implements SetOnce, but for liveness.  PidFd    *)
(* for any number of guests: the exit status of a guest is never lost      *)
(* between the watcher and the reaper.                                     *)
(***************************************************************************)
EXTENDS WaitableCell, Integers, SequenceTheorems, TLAPS

OneSetter == \A s, t \in Setters : s = t

(***************************************************************************)
(* The inductive invariant.  Nobody is woken, nor about to be, before the  *)
(* cell has a value; a thread in the middle of set has a value to set; and *)
(* wait has returned something to the waiters that are done only.          *)
(***************************************************************************)
WokenInv ==
  /\ woken # {} => cell # None
  /\ \A s \in Setters : spc[s] = "notify" => cell # None
  /\ \A w \in Waiters : wpc[w] = "unwrap" => cell # None

ProgramInv == \A s \in Setters : spc[s] # "idle" => todo[s] # <<>>

GotInv == \A w \in Waiters : wpc[w] # "done" => got[w] = None

IInv == TypeOK /\ WokenInv /\ ProgramInv /\ GotInv

LEMMA InitIInv == Init => IInv
BY ProgramAssumption DEF Init, IInv, TypeOK, WokenInv, ProgramInv, GotInv

LEMMA StepIInv == IInv /\ [Next]_vars => IInv'
<1> SUFFICES ASSUME IInv, [Next]_vars PROVE IInv'
  OBVIOUS
<1> USE ProgramAssumption DEF IInv, TypeOK, WokenInv, ProgramInv, GotInv
<1>1. ASSUME NEW s \in Setters, set_check(s) PROVE IInv'
  <2>1. todo[s] \in Seq(Values) /\ todo[s] # <<>>
    BY <1>1 DEF set_check
  <2>2. Tail(todo[s]) \in Seq(Values)
    BY <2>1, HeadTailProperties
  <2> QED BY <1>1, <2>2 DEF set_check
<1>2. ASSUME NEW s \in Setters, set_write(s) PROVE IInv'
  <2>1. todo[s] \in Seq(Values) /\ todo[s] # <<>>
    BY <1>2 DEF set_write
  <2>2. Head(todo[s]) \in Values
    BY <2>1, HeadTailProperties
  <2> QED BY <1>2, <2>2 DEF set_write
<1>3. ASSUME NEW s \in Setters, set_notify(s) PROVE IInv'
  <2>1. todo[s] \in Seq(Values) /\ todo[s] # <<>>
    BY <1>3 DEF set_notify
  <2>2. Tail(todo[s]) \in Seq(Values)
    BY <2>1, HeadTailProperties
  <2> QED BY <1>3, <2>2 DEF set_notify, Notified
<1>4. ASSUME NEW w \in Waiters, wait_notified(w) PROVE IInv'
  BY <1>4 DEF wait_notified
<1>5. ASSUME NEW w \in Waiters, wait_get(w) PROVE IInv'
  BY <1>5 DEF wait_get, Leaving
<1>6. ASSUME NEW w \in Waiters, wait_await(w) PROVE IInv'
  BY <1>6 DEF wait_await, Leaving
<1>7. ASSUME NEW w \in Waiters, wait_drop(w) PROVE IInv'
  BY <1>7 DEF wait_drop, Leaving
<1>8. ASSUME NEW w \in Waiters, wait_unwrap(w) PROVE IInv'
  BY <1>8 DEF wait_unwrap
<1>9. ASSUME NEW w \in Waiters, wait_return(w) PROVE IInv'
  BY <1>9 DEF wait_return
<1>10. CASE UNCHANGED vars
  BY <1>10 DEF vars
<1> QED
  BY <1>1, <1>2, <1>3, <1>4, <1>5, <1>6, <1>7, <1>8, <1>9, <1>10
     DEF Next, set, wait

(* IInv holds throughout every behaviour of the cell. *)
THEOREM Invariance == Spec => []IInv
<1>1. Init => IInv
  BY InitIInv
<1>2. IInv /\ [Next]_vars => IInv'
  BY StepIInv
<1> QED BY <1>1, <1>2, PTL DEF Spec

(* The unwrap_unchecked of wait (sync.rs:97) never meets an empty cell. *)
THEOREM UnwrapIsSafe == Spec => []UnwrapSafe
<1>1. IInv => UnwrapSafe
  BY DEF IInv, WokenInv, UnwrapSafe
<1> QED BY <1>1, Invariance, PTL

(* The state of the cell has its type: a wait that returned gave a value. *)
THEOREM CellTypeCorrect == Spec => []TypeOK
<1>1. IInv => TypeOK
  BY DEF IInv
<1> QED BY <1>1, Invariance, PTL

-----------------------------------------------------------------------------
(* With one setting thread, nobody fills the cell between the look at it   *)
(* and the store.                                                          *)
StoreInv == \A s \in Setters : spc[s] = "write" => cell = None

LEMMA StepStoreInv ==
  ASSUME OneSetter, TypeOK, StoreInv, [Next]_vars
  PROVE  StoreInv'
<1> USE DEF OneSetter, TypeOK, StoreInv
<1>1. ASSUME NEW s \in Setters, set(s) PROVE StoreInv'
  BY <1>1 DEF set, set_check, set_write, set_notify
<1>2. ASSUME NEW w \in Waiters,
             wait(w) \/ wait_notified(w) \/ wait_drop(w) \/ wait_return(w)
      PROVE  StoreInv'
  BY <1>2 DEF wait, wait_get, wait_await, wait_unwrap, wait_notified,
     wait_drop, wait_return
<1>3. CASE UNCHANGED vars
  BY <1>3 DEF vars
<1> QED BY <1>1, <1>2, <1>3 DEF Next

(* A step of the cell is a step of SetOnce, or leaves its state alone. *)
LEMMA StepPromise ==
  ASSUME IInv, StoreInv, [Next]_vars
  PROVE  [Promise!Next]_Promise!vars
<1> USE ProgramAssumption DEF IInv, TypeOK, Promise!vars
<1>1. ASSUME NEW s \in Setters, set_write(s)
      PROVE  \E v \in Values : Promise!Set(v)
  <2>1. todo[s] \in Seq(Values) /\ todo[s] # <<>>
    BY <1>1 DEF set_write, ProgramInv
  <2>2. Head(todo[s]) \in Values
    BY <2>1, HeadTailProperties
  <2>3. Promise!Set(Head(todo[s]))
    BY <1>1 DEF set_write, StoreInv, Promise!Set
  <2> QED BY <2>2, <2>3
<1>2. ASSUME NEW s \in Setters, set_check(s) \/ set_notify(s)
      PROVE  UNCHANGED Promise!vars
  BY <1>2 DEF set_check, set_notify
<1>3. ASSUME NEW w \in Waiters, wait_notified(w) PROVE Promise!Wait(w)
  BY <1>3 DEF wait_notified, GotInv, Promise!Wait
<1>4. ASSUME NEW w \in Waiters, wait_get(w)
      PROVE  Promise!Get(w) \/ UNCHANGED Promise!vars
  BY <1>4 DEF wait_get, Promise!Get
<1>5. ASSUME NEW w \in Waiters, wait_await(w) PROVE UNCHANGED Promise!vars
  BY <1>5 DEF wait_await
<1>6. ASSUME NEW w \in Waiters, wait_drop(w) PROVE Promise!GiveUp(w)
  BY <1>6 DEF wait_drop, Promise!GiveUp
<1>7. ASSUME NEW w \in Waiters, wait_unwrap(w) PROVE Promise!Get(w)
  BY <1>7 DEF wait_unwrap, WokenInv, Promise!Get
<1>8. ASSUME NEW w \in Waiters, wait_return(w) PROVE Promise!Leave(w)
  BY <1>8 DEF wait_return, Promise!Leave
<1>9. CASE UNCHANGED vars
  BY <1>9 DEF vars
<1> QED
  BY <1>1, <1>2, <1>3, <1>4, <1>5, <1>6, <1>7, <1>8, <1>9
     DEF Next, set, wait, Promise!Next

(***************************************************************************)
(* With one setting thread, which is how the exit code of an instance is   *)
(* set, the cell is set once and every waiter gets that value              *)
(* (sync.rs:49-98).                                                        *)
(***************************************************************************)
THEOREM ImplementsSetOnce == OneSetter => (Spec => Promise!Safety)
<1> SUFFICES ASSUME OneSetter PROVE Spec => Promise!Safety
  OBVIOUS
<1>1. Init => StoreInv /\ Promise!Init
  BY DEF Init, StoreInv, Promise!Init
<1>2. IInv /\ StoreInv /\ [Next]_vars => StoreInv'
  BY StepStoreInv DEF IInv
<1>3. IInv /\ StoreInv /\ [Next]_vars => [Promise!Next]_Promise!vars
  BY StepPromise
<1> QED BY <1>1, <1>2, <1>3, Invariance, PTL DEF Spec, Promise!Safety

-----------------------------------------------------------------------------
(* PidFd: from the process to the cell.                                    *)

CONSTANTS Guests, Statuses, GuardCode, ReaperLags, CallsFail
VARIABLES
  proc, died, released, subs, listening, reaper, ready, pc, exit_code

Pid == INSTANCE PidFd

(* The assumptions of PidFd. *)
PidAssumption ==
  /\ \A s \in Statuses : s.how \in {"exited", "signaled"} /\ s.n \in Nat
  /\ GuardCode \in Nat
  /\ ReaperLags \in BOOLEAN /\ CallsFail \in BOOLEAN
  /\ None \notin Nat \cup Statuses \cup [pid : Guests, exit_code : Nat]

(* The watcher has subscribed, and it has made the pidfd. *)
Subscribed == {"open", "start", "register", "waitid", "readable", "recv"}
Opened == Subscribed \ {"open"}
Watched == {"register", "waitid", "readable", "recv", "done"}

(* An event tells the truth about a process that has been reaped. *)
True(e) == proc[e.pid] = "reaped" /\ e.exit_code = Pid!Code(died[e.pid])

(* The status of g is with the reaper or in the subscription of g. *)
Findable(g) ==
  \/ reaper # None /\ reaper.pid = g
  \/ \E k \in 1 .. Len(subs[g]) : subs[g][k].pid = g

(***************************************************************************)
(* The strengthening: events are true, and from the moment the pidfd is    *)
(* open a status that the reaper collects can be found by the watcher.     *)
(***************************************************************************)
Truthful ==
  /\ reaper # None => True(reaper)
  /\ \A g \in Guests : \A k \in 1 .. Len(subs[g]) : True(subs[g][k])

Placed ==
  /\ \A g \in Guests : died[g] = None <=> proc[g] = "alive"
  /\ \A g \in Guests : exit_code[g] # None => pc[g] = "done"
  /\ \A g \in Guests : pc[g] \in Subscribed => g \in listening
  /\ \A g \in Guests : pc[g] \in Opened /\ proc[g] = "reaped" => Findable(g)
  /\ \A g \in Guests : pc[g] = "recv" => proc[g] = "reaped"
  /\ \A g \in released : pc[g] \in Watched

StatusInv == Pid!TypeOK /\ Truthful /\ Placed /\ Pid!StatusReported

LEMMA CodeType == PidAssumption => \A s \in Statuses : Pid!Code(s) \in Nat
  BY DEF PidAssumption, Pid!Code

(* What is queued and what the reaper holds are events about guests. *)
LEMMA EventType ==
  ASSUME Pid!TypeOK
  PROVE  /\ \A g \in Guests : \A k \in 1 .. Len(subs[g]) :
              subs[g][k] \in Pid!Events /\ subs[g][k].pid \in Guests
         /\ reaper # None => reaper \in Pid!Events /\ reaper.pid \in Guests
<1>1. \A g \in Guests : \A k \in 1 .. Len(subs[g]) : subs[g][k] \in Pid!Events
  BY ElementOfSeq DEF Pid!TypeOK
<1>2. reaper # None => reaper \in Pid!Events
  BY DEF Pid!TypeOK
<1> QED BY <1>1, <1>2 DEF Pid!Events

LEMMA EventNotNone == PidAssumption => \A e \in Pid!Events : e # None
  BY CodeType DEF PidAssumption, Pid!Events

LEMMA StatusInit == Pid!Init => StatusInv
  BY DEF Pid!Init, StatusInv, Pid!TypeOK, Truthful, Placed, Pid!StatusReported,
         Opened, Subscribed, Findable

(* A watcher that stops listening disturbs no other guest. *)
LEMMA FinishStep ==
  ASSUME StatusInv, NEW g \in Guests, NEW code \in Nat, Pid!Finish(g, code),
         UNCHANGED <<died, released, reaper>>,
         proc' = proc \/ (proc[g] = "zombie" /\ proc' = [proc EXCEPT ![g] = "reaped"]),
         g \in released =>
           died[g] # None /\ (code = Pid!Code(died[g]) \/ (ReaperLags /\ code = GuardCode))
  PROVE  StatusInv'
<1> USE DEF Pid!Finish
<1>1. Pid!TypeOK'
  BY DEF StatusInv, Pid!TypeOK
<1>2. Truthful'
  <2>1. ASSUME NEW e, e.pid \in Guests, True(e) PROVE True(e)'
    BY <2>1 DEF True, StatusInv, Pid!TypeOK
  <2>2. \A h \in Guests \ {g} : subs'[h] = subs[h]
    BY DEF StatusInv, Pid!TypeOK
  <2>3. subs'[g] = <<>>
    BY DEF StatusInv, Pid!TypeOK
  <2> QED BY <2>1, <2>2, <2>3, EventType DEF StatusInv, Truthful
<1>3. Placed'
  BY DEF StatusInv, Pid!TypeOK, Placed, Subscribed, Opened, Watched, Findable
<1>4. Pid!StatusReported'
  BY DEF StatusInv, Pid!TypeOK, Pid!StatusReported
<1> QED BY <1>1, <1>2, <1>3, <1>4 DEF StatusInv

(* The steps of start and of the watcher that only move on. *)
LEMMA ProceedStep ==
  ASSUME StatusInv, NEW g \in Guests, UNCHANGED <<Pid!kernel, subs, ready, exit_code>>,
         pc[g] \in DOMAIN Pid!after, Pid!Proceed(g),
         pc[g] = "open" => proc[g] # "reaped",
         listening' = IF pc[g] = "subscribe" THEN listening \cup {g} ELSE listening,
         released' = IF pc[g] = "start" THEN released \cup {g} ELSE released
  PROVE  StatusInv'
<1> USE DEF Pid!Proceed, Pid!after, Pid!kernel
<1>1. Pid!TypeOK'
  BY DEF StatusInv, Pid!TypeOK
<1>2. Truthful'
  BY DEF StatusInv, Pid!TypeOK, Truthful, True
<1>3. Placed'
  BY DEF StatusInv, Pid!TypeOK, Placed, Subscribed, Opened, Watched, Findable
<1>4. Pid!StatusReported'
  BY DEF StatusInv, Pid!TypeOK, Pid!StatusReported, Placed
<1> QED BY <1>1, <1>2, <1>3, <1>4 DEF StatusInv

LEMMA StatusNext ==
  ASSUME PidAssumption, ~CallsFail, StatusInv, [Pid!Next]_Pid!vars
  PROVE  StatusInv'
<1> USE CodeType DEF PidAssumption
<1>1. ASSUME NEW g \in Guests, Pid!guest_exit(g) PROVE StatusInv'
  <2> USE <1>1 DEF Pid!guest_exit
  <2>1. Pid!TypeOK'
    BY DEF StatusInv, Pid!TypeOK
  <2>2. Truthful'
    BY DEF StatusInv, Pid!TypeOK, Truthful, True, Pid!Events
  <2>3. Placed'
    BY DEF StatusInv, Pid!TypeOK, Placed, Findable
  <2>4. Pid!StatusReported'
    BY DEF StatusInv, Pid!TypeOK, Placed, Pid!StatusReported
  <2> QED BY <2>1, <2>2, <2>3, <2>4 DEF StatusInv
<1>2. ASSUME NEW g \in Guests, Pid!reaper_wait(g) PROVE StatusInv'
  <2> USE <1>2 DEF Pid!reaper_wait
  <2>1. died[g] \in Statuses
    BY DEF StatusInv, Pid!TypeOK, Placed
  <2>2. Pid!TypeOK'
    BY <2>1 DEF StatusInv, Pid!TypeOK, Pid!Events
  <2>3. reaper' # None
    BY <2>1, EventNotNone DEF StatusInv, Pid!TypeOK, Pid!Events
  <2>4. Truthful'
    BY <2>1 DEF StatusInv, Pid!TypeOK, Truthful, True, Pid!Events
  <2>5. Placed'
    BY <2>3 DEF StatusInv, Pid!TypeOK, Placed, Findable
  <2>6. Pid!StatusReported'
    BY DEF StatusInv, Pid!StatusReported
  <2> QED BY <2>2, <2>4, <2>5, <2>6 DEF StatusInv
<1>3. CASE Pid!reaper_notify
  <2> USE <1>3 DEF Pid!reaper_notify
  <2>1. Pid!TypeOK'
    BY DEF StatusInv, Pid!TypeOK
  <2>2. Truthful'
    BY DEF StatusInv, Pid!TypeOK, Truthful, True
  <2>3. ASSUME NEW g \in Guests, g \in listening, Findable(g) PROVE Findable(g)'
    <3>1. /\ subs'[g] = Append(subs[g], reaper) /\ subs[g] \in Seq(Pid!Events)
          /\ reaper \in Pid!Events
      BY <2>3 DEF StatusInv, Pid!TypeOK
    <3>2. CASE reaper.pid = g
      BY <3>1, <3>2 DEF Findable
    <3>3. CASE reaper.pid # g
      BY <2>3, <3>1, <3>3 DEF Findable
    <3> QED BY <3>2, <3>3
  <2>5. Placed'
    BY <2>3 DEF StatusInv, Placed, Opened, Subscribed
  <2>4. Pid!StatusReported'
    BY DEF StatusInv, Pid!StatusReported
  <2> QED BY <2>1, <2>2, <2>4, <2>5 DEF StatusInv
<1>4. ASSUME NEW g \in Guests, Pid!watcher(g) PROVE StatusInv'
  <2>1. CASE Pid!start_pid(g) \/ Pid!new_subscribe(g) \/ Pid!new_open(g) \/ Pid!container_start(g)
             \/ Pid!wait_register(g)
    BY <2>1, ProceedStep
       DEF Pid!start_pid, Pid!new_subscribe, Pid!new_open, Pid!container_start, Pid!wait_register, Pid!after
  <2>2. CASE Pid!wait_waitid(g)
    <3>1. CASE proc[g] = "zombie"
      <4>1. died[g] \in Statuses
        BY <3>1 DEF StatusInv, Pid!TypeOK, Placed
      <4> QED BY <2>2, <3>1, <4>1, FinishStep DEF Pid!wait_waitid
    <3>2. CASE proc[g] # "zombie"
      <4> USE <2>2, <3>2 DEF Pid!wait_waitid
      <4>1. Pid!TypeOK'
        BY DEF StatusInv, Pid!TypeOK
      <4>2. Truthful'
        BY DEF StatusInv, Pid!TypeOK, Truthful, True
      <4>3. /\ \A h \in Guests \ {g} : pc'[h] = pc[h]
            /\ pc'[g] \in {"readable", "recv"}
            /\ pc'[g] = "recv" => proc[g] = "reaped"
            /\ pc[g] = "waitid" /\ UNCHANGED <<proc, died, listening, exit_code, released>>
            /\ released \subseteq Guests
        BY DEF StatusInv, Pid!TypeOK
      <4>5. \A h \in Guests : Findable(h)' <=> Findable(h)
        BY DEF Findable
      <4>6. Placed'
        BY <4>3, <4>5 DEF StatusInv, Placed, Subscribed, Opened, Watched
      <4>4. Pid!StatusReported'
        BY DEF StatusInv, Pid!TypeOK, Pid!StatusReported
      <4> QED BY <4>1, <4>2, <4>4, <4>6 DEF StatusInv
    <3> QED BY <3>1, <3>2
  <2>3. CASE Pid!wait_readable(g)
    <3> USE <2>3 DEF Pid!wait_readable, Pid!kernel
    <3>1. Pid!TypeOK'
      BY DEF StatusInv, Pid!TypeOK
    <3>2. Truthful'
      BY DEF StatusInv, Pid!TypeOK, Truthful, True
    <3>3. Placed'
      BY DEF StatusInv, Pid!TypeOK, Placed, Subscribed, Opened, Watched, Findable
    <3>4. Pid!StatusReported'
      BY DEF StatusInv, Pid!TypeOK, Pid!StatusReported
    <3> QED BY <3>1, <3>2, <3>3, <3>4 DEF StatusInv
  <2>4. CASE Pid!try_wait_pid(g)
    <3>1. /\ subs[g] \in Seq(Pid!Events) /\ Head(subs[g]) = subs[g][1]
          /\ 1 \in 1 .. Len(subs[g]) /\ Tail(subs[g]) \in Seq(Pid!Events)
          /\ Len(Tail(subs[g])) = Len(subs[g]) - 1
          /\ \A k \in 1 .. Len(Tail(subs[g])) : Tail(subs[g])[k] = subs[g][k + 1]
      BY <2>4, HeadTailProperties DEF StatusInv, Pid!TypeOK, Pid!try_wait_pid
    <3>2. CASE Head(subs[g]).pid = g
      <4>1. /\ proc[g] = "reaped" /\ died[g] \in Statuses
            /\ Head(subs[g]).exit_code = Pid!Code(died[g])
        BY <3>1, <3>2 DEF StatusInv, Pid!TypeOK, Truthful, True, Placed
      <4> QED BY <2>4, <3>2, <4>1, FinishStep DEF Pid!try_wait_pid, Pid!kernel
    <3>3. CASE Head(subs[g]).pid # g
      <4> USE <2>4, <3>1, <3>3 DEF Pid!try_wait_pid, Pid!kernel
      <4>1. Pid!TypeOK'
        BY DEF StatusInv, Pid!TypeOK
      <4>0. subs'[g] = Tail(subs[g]) /\ \A h \in Guests \ {g} : subs'[h] = subs[h]
        BY DEF StatusInv, Pid!TypeOK
      <4>2. Truthful'
        <5>1. \A k \in 1 .. Len(subs'[g]) : k + 1 \in 1 .. Len(subs[g])
          BY <4>0
        <5>2. \A k \in 1 .. Len(subs'[g]) : subs'[g][k] = subs[g][k + 1]
          BY <4>0
        <5>3. \A e : True(e) => True(e)'
          BY DEF True
        <5>4. ASSUME NEW h \in Guests, NEW k \in 1 .. Len(subs'[h]) PROVE True(subs[h][k])'
          <6>1. CASE h = g
            <7>1. True(subs[g][k + 1])
              BY <5>1, <6>1, <5>4 DEF StatusInv, Truthful
            <7> QED BY <5>2, <5>3, <6>1, <7>1
          <6>2. CASE h # g
            <7>1. True(subs[h][k])
              BY <4>0, <6>2 DEF StatusInv, Truthful
            <7> QED BY <4>0, <5>3, <6>2, <7>1
          <6> QED BY <6>1, <6>2
        <5> QED BY <5>3, <5>4 DEF StatusInv, Truthful
      <4>3. ASSUME NEW h \in Guests, Findable(h) PROVE Findable(h)'
        <5>1. CASE h = g /\ ~(reaper # None /\ reaper.pid = g)
          <6>1. PICK k \in 1 .. Len(subs[g]) : subs[g][k].pid = g
            BY <4>3, <5>1 DEF Findable
          <6>2. k - 1 \in 1 .. Len(Tail(subs[g])) /\ Tail(subs[g])[k - 1] = subs[g][k]
            BY <6>1
          <6>3. subs'[g][k - 1].pid = g /\ k - 1 \in 1 .. Len(subs'[g])
            BY <4>0, <6>1, <6>2
          <6> QED BY <5>1, <6>3 DEF Findable
        <5>2. CASE h # g \/ (reaper # None /\ reaper.pid = g)
          BY <4>0, <4>3, <5>2 DEF Findable
        <5> QED BY <5>1, <5>2
      <4>4. Placed'
        BY <4>3 DEF StatusInv, Pid!TypeOK, Placed
      <4>5. Pid!StatusReported'
        BY DEF StatusInv, Pid!StatusReported
      <4> QED BY <4>1, <4>2, <4>4, <4>5 DEF StatusInv
    <3> QED BY <3>2, <3>3
  <2>5. CASE Pid!recv_timeout(g)
    <3>1. pc[g] = "recv" /\ subs[g] = <<>> /\ (ReaperLags \/ reaper = None)
      BY <2>5 DEF Pid!recv_timeout
    <3>2. died[g] # None /\ proc[g] = "reaped"
      BY <3>1 DEF StatusInv, Placed
    <3>3. ReaperLags
      BY <3>1, <3>2 DEF StatusInv, Placed, Opened, Subscribed, Findable
    <3> QED BY <2>5, <3>2, <3>3, FinishStep DEF Pid!recv_timeout, Pid!kernel
  <2>6. CASE Pid!fail(g)
    <3>1. g \notin released
      BY <2>6 DEF Pid!fail, StatusInv, Placed, Watched
    <3> QED BY <2>6, <3>1, FinishStep DEF Pid!fail, Pid!kernel
  <2> QED BY <1>4, <2>1, <2>2, <2>3, <2>4, <2>5, <2>6 DEF Pid!watcher
<1>5. CASE UNCHANGED Pid!vars
  <2> USE <1>5 DEF Pid!vars
  <2>1. Pid!TypeOK'
    BY DEF StatusInv, Pid!TypeOK
  <2>2. Truthful'
    BY DEF StatusInv, Truthful, True
  <2>3. Placed' /\ Pid!StatusReported'
    BY DEF StatusInv, Placed, Findable, Pid!StatusReported
  <2> QED BY <2>1, <2>2, <2>3 DEF StatusInv
<1> QED BY <1>1, <1>2, <1>3, <1>4, <1>5 DEF Pid!Next

(***************************************************************************)
(* A guest that was let go gets its own status, for any number of guests,  *)
(* as long as no system call fails (instance.rs:136-171).                  *)
(***************************************************************************)
THEOREM StatusIsReported ==
  PidAssumption /\ ~CallsFail => (Pid!Spec => []Pid!StatusReported)
<1> SUFFICES ASSUME PidAssumption, ~CallsFail
             PROVE  Pid!Spec => []Pid!StatusReported
  OBVIOUS
<1>1. Pid!Init => StatusInv
  BY StatusInit
<1>2. StatusInv /\ [Pid!Next]_Pid!vars => StatusInv'
  BY StatusNext
<1>3. StatusInv => Pid!StatusReported
  BY DEF StatusInv
<1> QED BY <1>1, <1>2, <1>3, PTL DEF Pid!Spec

(***************************************************************************)
(* The state has its type also when calls fail: the status that waitid or  *)
(* the reaper collects is that of a process that has ended.                *)
(***************************************************************************)
EndedInv == \A g \in Guests : died[g] = None <=> proc[g] = "alive"

(* Every way to finish leaves a number as exit code. *)
LEMMA FinishType ==
  ASSUME Pid!TypeOK, EndedInv, NEW g \in Guests, NEW code \in Nat, Pid!Finish(g, code),
         UNCHANGED <<died, released, reaper>>,
         proc' = proc \/ (proc[g] = "zombie" /\ proc' = [proc EXCEPT ![g] = "reaped"])
  PROVE  Pid!TypeOK' /\ EndedInv'
<1>1. Pid!TypeOK'
  BY DEF Pid!TypeOK, Pid!Finish
<1>2. EndedInv'
  BY DEF Pid!TypeOK, EndedInv
<1> QED BY <1>1, <1>2

(* Every step keeps the types. *)
LEMMA TypeNext ==
  ASSUME PidAssumption, Pid!TypeOK, EndedInv, [Pid!Next]_Pid!vars
  PROVE  Pid!TypeOK' /\ EndedInv'
<1> USE DEF Pid!TypeOK, EndedInv, Pid!kernel
<1>1. ASSUME NEW g \in Guests, Pid!guest_exit(g) PROVE Pid!TypeOK' /\ EndedInv'
  BY <1>1 DEF Pid!guest_exit, PidAssumption
<1>2. ASSUME NEW g \in Guests, Pid!reaper_wait(g) PROVE Pid!TypeOK' /\ EndedInv'
  <2>1. died[g] \in Statuses
    BY <1>2 DEF Pid!reaper_wait
  <2>2. [pid |-> g, exit_code |-> Pid!Code(died[g])] \in Pid!Events
    BY <2>1 DEF Pid!Events
  <2> QED BY <1>2, <2>2 DEF Pid!reaper_wait
<1>3. CASE Pid!reaper_notify
  BY <1>3 DEF Pid!reaper_notify
<1>4. ASSUME NEW g \in Guests, Pid!watcher(g) PROVE Pid!TypeOK' /\ EndedInv'
  <2>1. CASE Pid!start_pid(g) \/ Pid!new_subscribe(g) \/ Pid!new_open(g)
             \/ Pid!container_start(g) \/ Pid!wait_register(g)
    <3>0. pc[g] \in {"idle", "subscribe", "open", "start", "register"}
      BY <2>1 DEF Pid!start_pid, Pid!new_subscribe, Pid!new_open, Pid!container_start,
         Pid!wait_register
    <3>1. /\ Pid!Proceed(g)
          /\ UNCHANGED <<proc, died, reaper, subs, ready, exit_code>>
          /\ listening' \subseteq Guests /\ released' \subseteq Guests
      BY <2>1 DEF Pid!start_pid, Pid!new_subscribe, Pid!new_open, Pid!container_start,
         Pid!wait_register
    <3>2. Pid!after[pc[g]] \in {"subscribe", "open", "start", "register", "waitid"}
      <4> HIDE DEF Pid!TypeOK, EndedInv
      <4> QED BY <3>0 DEF Pid!after
    <3>3. pc' = [pc EXCEPT ![g] = Pid!after[pc[g]]]
      BY <3>1 DEF Pid!Proceed
    <3>4. pc' \in [Guests -> {"idle", "subscribe", "open", "start", "register",
                              "waitid", "readable", "recv", "done"}]
      <4>1. pc \in [Guests -> {"idle", "subscribe", "open", "start", "register",
                               "waitid", "readable", "recv", "done"}]
        OBVIOUS
      <4> HIDE DEF Pid!TypeOK, EndedInv
      <4> QED BY <3>2, <3>3, <4>1
    <3> QED BY <3>1, <3>4
  <2>2. CASE Pid!wait_waitid(g)
    <3>1. CASE proc[g] = "zombie"
      <4>1. Pid!Code(died[g]) \in Nat
        BY <3>1, CodeType
      <4> QED BY <2>2, <3>1, <4>1, FinishType DEF Pid!wait_waitid
    <3>2. CASE proc[g] # "zombie"
      BY <2>2, <3>2 DEF Pid!wait_waitid
    <3> QED BY <3>1, <3>2
  <2>3. CASE Pid!wait_readable(g)
    BY <2>3 DEF Pid!wait_readable
  <2>4. CASE Pid!try_wait_pid(g)
    <3>1. Head(subs[g]) \in Pid!Events /\ Tail(subs[g]) \in Seq(Pid!Events)
      BY <2>4, HeadTailProperties DEF Pid!try_wait_pid
    <3>2. Head(subs[g]).exit_code \in Nat
      BY <3>1, CodeType DEF Pid!Events
    <3>3. CASE Head(subs[g]).pid = g
      BY <2>4, <3>2, <3>3, FinishType DEF Pid!try_wait_pid
    <3>4. CASE Head(subs[g]).pid # g
      BY <2>4, <3>1, <3>4 DEF Pid!try_wait_pid
    <3> QED BY <3>3, <3>4
  <2>5. CASE Pid!recv_timeout(g) \/ Pid!fail(g)
    <3>1. GuardCode \in Nat
      BY DEF PidAssumption
    <3> QED BY <2>5, <3>1, FinishType DEF Pid!recv_timeout, Pid!fail
  <2> QED BY <1>4, <2>1, <2>2, <2>3, <2>4, <2>5 DEF Pid!watcher
<1>5. CASE UNCHANGED Pid!vars
  BY <1>5 DEF Pid!vars
<1> QED BY <1>1, <1>2, <1>3, <1>4, <1>5 DEF Pid!Next

(* What is queued for a watcher are events, and exit codes are numbers,    *)
(* whatever call fails and however late the reaper is (pid_fd.rs:30-75).   *)
THEOREM PidTypeCorrect == PidAssumption => (Pid!Spec => []Pid!TypeOK)
<1> SUFFICES ASSUME PidAssumption PROVE Pid!Spec => []Pid!TypeOK
  OBVIOUS
<1>1. Pid!Init => Pid!TypeOK /\ EndedInv
  BY DEF Pid!Init, Pid!TypeOK, EndedInv
<1>2. Pid!TypeOK /\ EndedInv /\ [Pid!Next]_Pid!vars => Pid!TypeOK' /\ EndedInv'
  BY TypeNext
<1> QED BY <1>1, <1>2, PTL DEF Pid!Spec

=============================================================================
