--------------------------- MODULE Startup_proofs ---------------------------
(***************************************************************************)
(* Proofs about how a container comes up: the start of the shim            *)
(* (ShimStart), the prestart hooks (Hooks) and the executor (Executor).    *)
(***************************************************************************)
EXTENDS ShimStart, SequenceTheorems, TLAPS

(***************************************************************************)
(* The inductive invariant of ShimStart.  A process that has not been      *)
(* started has nothing; threads come after the zygote; a shim that has not *)
(* shut down has the socket of its group, so that none other can be        *)
(* spawned for it; a `start` that has not yet set the trace context has    *)
(* none, and hands its own on to the shim it spawns.                       *)
(***************************************************************************)
Fresh(p) ==
  pc[p] = "unborn" => role[p].what = "none" /\ context[p] = None /\ ~threads[p]

OneThread(p) ==
  /\ pc[p] \in {"main", "otel"} => ~threads[p]
  /\ zygote[p] # "unsafe"
  /\ pc[p] = "exit" => traced[p] # "on"

Listens(p) ==
  /\ pc[p] = "serve" => role[p].what = "shim"
  /\ role[p].what = "shim" /\ pc[p] \in {"main", "otel", "context", "run", "serve"} =>
       socket[role[p].of] = p

Context(p) ==
  /\ role[p].what = "start" =>
       /\ pc[p] \in {"main", "otel", "context"} => context[p] = None
       /\ pc[p] = "run" => context[p] = p
  /\ role[p].what = "shim" =>
       /\ context[p] \in Procs /\ role[context[p]].what = "start"
       /\ grouping(role[context[p]].of) = role[p].of
       /\ pc[p] \in {"run", "serve"} => parent[p] = context[p]

Answered(c) == address[c] \in {None, "failed", grouping(c)}

StartInv ==
  /\ TypeOK
  /\ \A c \in Containers : Answered(c)
  /\ \A p \in Procs : Fresh(p) /\ OneThread(p) /\ Listens(p) /\ Context(p)

LEMMA RoleType ==
  ASSUME TypeOK, NEW p \in Procs
  PROVE  /\ role[p].what \in {"none", "start", "shim"}
         /\ pc[p] # "unborn" => role[p].what # "none"
         /\ role[p].what = "start" => role[p].of \in Containers
         /\ role[p].what = "shim" => role[p].of \in Addresses
<1>1. role[p] \in Roles \cup {[what |-> "none", of |-> None]}
  BY Zenon DEF TypeOK
<1>2. role[p] \in Roles =>
        \/ role[p].what = "start" /\ role[p].of \in Containers
        \/ role[p].what = "shim" /\ role[p].of \in Addresses
  BY DEF Roles
<1>3. role[p] = [what |-> "none", of |-> None] => role[p].what = "none"
  OBVIOUS
<1>4. pc[p] # "unborn" => role[p] \in Roles
  BY Zenon DEF TypeOK
<1> QED BY <1>1, <1>2, <1>3, <1>4, Zenon

LEMMA GroupingType ==
  ASSUME NEW c \in Containers
  PROVE  grouping(c) \in Addresses
  BY AnnotationAssumption, Zenon DEF grouping, Addresses

(* A step of p that changes nobody's role and no socket. *)
LEMMA OwnStep ==
  ASSUME StartInv, NEW p \in Procs, TypeOK', role' = role, socket' = socket,
         \A c \in Containers : Answered(c)',
         \A q \in Procs \ {p} :
           /\ pc'[q] = pc[q] /\ context'[q] = context[q] /\ parent'[q] = parent[q]
           /\ threads'[q] = threads[q] /\ zygote'[q] = zygote[q] /\ traced'[q] = traced[q],
         pc'[p] # "unborn", OneThread(p)', Listens(p)', Context(p)'
  PROVE  StartInv'
<1>1. ASSUME NEW q \in Procs PROVE Fresh(q)' /\ OneThread(q)' /\ Listens(q)' /\ Context(q)'
  <2>1. CASE q = p
    BY <2>1, Zenon DEF Fresh
  <2>2. CASE q # p
    <3>1. Fresh(q)' /\ OneThread(q)' /\ Listens(q)'
      BY <2>2, Zenon DEF StartInv, Fresh, OneThread, Listens
    <3>2. Context(q) /\ pc'[q] = pc[q] /\ context'[q] = context[q] /\ parent'[q] = parent[q]
      BY <2>2, Zenon DEF StartInv
    <3>3. Context(q)'
      BY <3>2 DEF Context, grouping
    <3> QED BY <3>1, <3>3, Zenon
  <2> QED BY <2>1, <2>2, Zenon
<1> QED BY <1>1, Zenon DEF StartInv

LEMMA Moves ==
  ASSUME TypeOK, NEW p \in Procs, NEW label, Goto(p, label)
  PROVE  pc'[p] = label /\ \A q \in Procs \ {p} : pc'[q] = pc[q]
  BY Zenon DEF TypeOK, Goto

LEMMA PanicStep ==
  ASSUME StartInv, NEW p \in Procs, pc[p] # "unborn", Panic(p)
  PROVE  StartInv'
<1>1. pc'[p] = "panic" /\ \A q \in Procs \ {p} : pc'[q] = pc[q]
  BY Moves, Zenon DEF Panic, StartInv
<1>2. /\ address' \in [Containers -> Addresses \cup {None, "failed"}]
      /\ \A c \in Containers : Answered(c)'
  <2>1. role[p].what = "start" => role[p].of \in Containers
    BY RoleType, Zenon DEF StartInv
  <2>2. \A c \in Containers : address'[c] \in {address[c], "failed"}
    BY <2>1 DEF Panic, StartInv, TypeOK
  <2>3. address' \in [Containers -> Addresses \cup {None, "failed"}]
    BY <2>1 DEF Panic, StartInv, TypeOK
  <2> QED BY <2>2, <2>3, Zenon DEF StartInv, Answered, grouping
<1>3. TypeOK'
  <2>1. pc' \in [Procs -> {"unborn", "main", "otel", "context", "run", "serve", "guard", "exit",
                           "panic"}]
    BY Zenon DEF Panic, Goto, StartInv, TypeOK
  <2>2. \A q \in Procs : pc'[q] # "unborn" => role[q] \in Roles
    BY <1>1, Zenon DEF StartInv, TypeOK
  <2> QED BY <1>2, <2>1, <2>2, Zenon DEF Panic, StartInv, TypeOK
<1>4. OneThread(p)' /\ Listens(p)' /\ Context(p)'
  BY <1>1, Zenon DEF Panic, StartInv, OneThread, Listens, Context, grouping
<1> QED BY <1>1, <1>2, <1>3, <1>4, OwnStep, Zenon DEF Panic

(* shim_main, up to the service. *)
LEMMA MainStep ==
  ASSUME StartInv, NEW p \in Procs,
         init_zygote_and_logger(p) \/ otel_init(p) \/ set_context(p) \/ serve(p) \/ drop_guard(p)
  PROVE  StartInv'
<1> USE DEF At
<1>0. pc[p] # "unborn" /\ TypeOK /\ OneThread(p) /\ Listens(p) /\ Context(p)
  BY Zenon DEF init_zygote_and_logger, otel_init, set_context, serve, drop_guard, StartInv
<1>1. ASSUME \/ init_zygote_and_logger(p)
             \/ otel_init(p) /\ ~Panic(p)
             \/ set_context(p) \/ serve(p) \/ drop_guard(p)
      PROVE  /\ role' = role /\ socket' = socket /\ address' = address
             /\ \E label \in {"otel", "context", "run", "serve", "exit"} : Goto(p, label)
             /\ \A q \in Procs \ {p} :
                  /\ context'[q] = context[q] /\ parent'[q] = parent[q]
                  /\ threads'[q] = threads[q] /\ zygote'[q] = zygote[q] /\ traced'[q] = traced[q]
  <2>1. CASE init_zygote_and_logger(p)
    BY <2>1 DEF init_zygote_and_logger, StartInv, TypeOK
  <2>2. CASE otel_init(p) /\ ~Panic(p)
    BY <2>2 DEF otel_init, StartInv, TypeOK
  <2>3. CASE set_context(p)
    BY <2>3 DEF set_context, StartInv, TypeOK
  <2>4. CASE serve(p)
    BY <2>4 DEF serve, StartInv, TypeOK
  <2>5. CASE drop_guard(p)
    BY <2>5 DEF drop_guard, StartInv, TypeOK
  <2> QED BY <1>1, <2>1, <2>2, <2>3, <2>4, <2>5, Zenon
<1>2. ASSUME \/ init_zygote_and_logger(p)
             \/ otel_init(p) /\ ~Panic(p)
             \/ set_context(p) \/ serve(p) \/ drop_guard(p)
      PROVE  TypeOK'
  <2>1. PICK label \in {"otel", "context", "run", "serve", "exit"} : Goto(p, label)
    BY <1>1, <1>2, Zenon
  <2>2. pc' \in [Procs -> {"unborn", "main", "otel", "context", "run", "serve", "guard", "exit",
                           "panic"}]
    BY <2>1, Zenon DEF Goto, StartInv, TypeOK
  <2>3. \A q \in Procs : pc'[q] # "unborn" => role'[q] \in Roles
    <3>1. \A q \in Procs : pc'[q] # "unborn" => pc[q] # "unborn"
      BY <1>0, <2>1, Moves, Zenon
    <3> QED BY <1>0, <1>1, <1>2, <3>1, Zenon DEF TypeOK
  <2>4. /\ context' \in [Procs -> Procs \cup {None}] /\ parent' \in [Procs -> Procs \cup {None}]
        /\ threads' \in [Procs -> BOOLEAN]
        /\ zygote' \in [Procs -> {"none", "forked", "unsafe"}]
        /\ traced' \in [Procs -> {"off", "on", "flushed"}]
    <3>1. CASE init_zygote_and_logger(p)
      BY <1>0, <3>1 DEF init_zygote_and_logger, TypeOK
    <3>2. CASE otel_init(p) /\ ~Panic(p)
      BY <1>0, <3>2 DEF otel_init, TypeOK
    <3>3. CASE set_context(p)
      BY <1>0, <3>3 DEF set_context, TypeOK
    <3>4. CASE serve(p)
      BY <1>0, <3>4 DEF serve, TypeOK
    <3>5. CASE drop_guard(p)
      BY <1>0, <3>5 DEF drop_guard, TypeOK
    <3> QED BY <1>2, <3>1, <3>2, <3>3, <3>4, <3>5, Zenon
  <2> QED BY <1>0, <1>1, <1>2, <2>2, <2>3, <2>4, Zenon DEF TypeOK
<1>3. ASSUME \/ init_zygote_and_logger(p)
             \/ otel_init(p) /\ ~Panic(p)
             \/ set_context(p) \/ serve(p) \/ drop_guard(p)
      PROVE  pc'[p] # "unborn" /\ OneThread(p)' /\ Listens(p)' /\ Context(p)'
  <2>0. role[p].what \in {"start", "shim"}
    BY <1>0, RoleType, Zenon
  <2>1. CASE init_zygote_and_logger(p)
    <3>1. /\ pc[p] = "main" /\ pc'[p] \in {"otel", "context"} /\ zygote'[p] = "forked"
          /\ UNCHANGED <<role, context, parent, threads, traced, socket>>
      BY <1>0, <2>1 DEF init_zygote_and_logger, TypeOK, Goto, OneThread
    <3> QED BY <1>0, <3>1, Zenon DEF OneThread, Listens, Context, grouping
  <2>2. CASE otel_init(p) /\ ~Panic(p)
    <3>1. /\ pc[p] = "otel" /\ pc'[p] = "context"
          /\ UNCHANGED <<role, context, parent, zygote, socket>>
      BY <1>0, <2>2, Moves, Zenon DEF otel_init
    <3> QED BY <1>0, <3>1, Zenon DEF OneThread, Listens, Context, grouping
  <2>3. CASE set_context(p)
    <3>1. /\ pc[p] = "context" /\ pc'[p] = "run"
          /\ UNCHANGED <<role, threads, zygote, traced, socket>>
          /\ \/ context[p] # None /\ parent'[p] = context[p] /\ context' = context
             \/ context[p] = None /\ context'[p] = p /\ parent' = parent
          /\ \A q \in Procs \ {p} : context'[q] = context[q]
      BY <1>0, <2>3 DEF set_context, TypeOK, Goto
    <3>2. OneThread(p)' /\ Listens(p)'
      BY <1>0, <3>1, Zenon DEF OneThread, Listens
    <3>3. Context(p)'
      BY <1>0, <2>0, <3>1, ProcsAssumption DEF Context, grouping
    <3> QED BY <3>1, <3>2, <3>3, Zenon
  <2>4. CASE serve(p)
    <3>1. /\ pc[p] = "run" /\ pc'[p] = "serve" /\ role[p].what = "shim"
          /\ UNCHANGED <<role, context, parent, zygote, traced, socket>>
      BY <1>0, <2>4, Moves, Zenon DEF serve
    <3> QED BY <1>0, <3>1, Zenon DEF OneThread, Listens, Context, grouping
  <2>5. CASE drop_guard(p)
    <3>1. /\ pc[p] = "guard" /\ pc'[p] = "exit" /\ traced'[p] # "on"
          /\ UNCHANGED <<role, context, parent, threads, zygote, socket>>
      BY <1>0, <2>5 DEF drop_guard, TypeOK, Goto
    <3> QED BY <1>0, <3>1, Zenon DEF OneThread, Listens, Context, grouping
  <2> QED BY <1>3, <2>1, <2>2, <2>3, <2>4, <2>5, Zenon
<1>4. ASSUME \/ init_zygote_and_logger(p)
             \/ otel_init(p) /\ ~Panic(p)
             \/ set_context(p) \/ serve(p) \/ drop_guard(p)
      PROVE  StartInv'
  <2>1. PICK label \in {"otel", "context", "run", "serve", "exit"} : Goto(p, label)
    BY <1>1, <1>4, Zenon
  <2>2. \A q \in Procs \ {p} : pc'[q] = pc[q]
    BY <1>0, <2>1, Moves, Zenon
  <2>3. \A c \in Containers : Answered(c)'
    BY <1>1, <1>4, Zenon DEF StartInv, Answered, grouping
  <2> QED BY <1>1, <1>2, <1>3, <1>4, <2>2, <2>3, OwnStep, Zenon
<1>5. CASE Panic(p)
  BY <1>0, <1>5, PanicStep, Zenon
<1> QED BY <1>4, <1>5, Zenon

(* start_shim finds the socket of the group taken, or makes a shim that    *)
(* takes it.                                                               *)
LEMMA StartShimStep ==
  ASSUME StartInv, NEW p \in Procs, start_shim(p)
  PROVE  StartInv'
<1> USE DEF At
<1>0. /\ pc[p] = "run" /\ TypeOK /\ role[p].what = "start" /\ role[p].of \in Containers
      /\ OneThread(p) /\ Listens(p) /\ context[p] = p
  BY RoleType, Zenon DEF start_shim, StartInv, Context
<1>1. CASE Panic(p)
  BY <1>0, <1>1, PanicStep, Zenon
<1>2. ASSUME NEW g, g = grouping(role[p].of), spawn(p, g),
             address' = [address EXCEPT ![role[p].of] = g],
             UNCHANGED <<env, parent, threads, zygote, traced>>
      PROVE  StartInv'
  <2>0. g \in Addresses
    BY <1>0, <1>2, GroupingType, Zenon
  <2>1. /\ address' \in [Containers -> Addresses \cup {None, "failed"}]
        /\ \A c \in Containers : Answered(c)'
    <3>1. address' \in [Containers -> Addresses \cup {None, "failed"}]
      BY <1>0, <1>2, <2>0, Zenon DEF TypeOK
    <3>2. ASSUME NEW c \in Containers PROVE Answered(c)'
      <4>1. address'[c] = IF c = role[p].of THEN g ELSE address[c]
        BY <1>0, <1>2, Zenon DEF TypeOK
      <4>2. CASE c = role[p].of
        BY <1>2, <4>1, <4>2, Zenon DEF Answered, grouping
      <4>3. CASE c # role[p].of
        BY <4>1, <4>3, Zenon DEF StartInv, Answered, grouping
      <4> QED BY <4>2, <4>3, Zenon
    <3> QED BY <3>1, <3>2, Zenon
  <2>2. CASE UNCHANGED <<role, context, socket>> /\ Goto(p, "guard")
    <3>1. pc'[p] = "guard" /\ \A q \in Procs \ {p} : pc'[q] = pc[q]
      BY <1>0, <2>2, Moves, Zenon
    <3>2. TypeOK'
      <4>1. pc' \in [Procs -> {"unborn", "main", "otel", "context", "run", "serve", "guard",
                               "exit", "panic"}]
        BY <2>2, Zenon DEF Goto, StartInv, TypeOK
      <4>2. \A q \in Procs : pc'[q] # "unborn" => role'[q] \in Roles
        BY <1>0, <2>2, <3>1, Zenon DEF TypeOK
      <4> QED BY <1>0, <1>2, <2>1, <2>2, <4>1, <4>2, Zenon DEF TypeOK
    <3>3. OneThread(p)' /\ Listens(p)' /\ Context(p)'
      <4>1. role'[p].what = "start"
        BY <1>0, <2>2, Zenon
      <4> QED BY <1>0, <1>2, <3>1, <4>1, Zenon DEF OneThread, Listens, Context
    <3> QED BY <1>2, <2>1, <2>2, <3>1, <3>2, <3>3, OwnStep, Zenon
  <2>3. ASSUME NEW n \in Procs, Unborn(n), socket[g] = None,
               pc' = [pc EXCEPT ![p] = "guard", ![n] = "main"],
               role' = [role EXCEPT ![n] = [what |-> "shim", of |-> g]],
               context' = [context EXCEPT ![n] = context[p]],
               socket' = [socket EXCEPT ![g] = n]
        PROVE  StartInv'
    <3>0. pc[n] = "unborn" /\ n # p /\ Fresh(n) /\ role[n].what = "none"
      BY <1>0, <2>3, Zenon DEF Unborn, StartInv, Fresh
    <3>1. /\ pc'[p] = "guard" /\ pc'[n] = "main"
          /\ role'[n] = [what |-> "shim", of |-> g] /\ role'[n].what = "shim" /\ role'[n].of = g
          /\ context'[n] = p /\ socket'[g] = n
          /\ role'[p] = role[p] /\ context'[p] = p
      BY <1>0, <2>0, <2>3, <3>0 DEF TypeOK
    <3>2. /\ \A q \in Procs \ {p, n} : pc'[q] = pc[q]
          /\ \A q \in Procs \ {n} : role'[q] = role[q] /\ context'[q] = context[q]
          /\ \A h \in Addresses \ {g} : socket'[h] = socket[h]
      BY <1>0, <2>0, <2>3, Zenon DEF TypeOK
    <3>3. TypeOK'
      <4>1. pc' \in [Procs -> {"unborn", "main", "otel", "context", "run", "serve", "guard",
                               "exit", "panic"}]
        BY <2>3, Zenon DEF StartInv, TypeOK
      <4>2. [what |-> "shim", of |-> g] \in Roles
        BY <2>0 DEF Roles
      <4>3. role' \in [Procs -> Roles \cup {[what |-> "none", of |-> None]}]
        BY <1>0, <2>3, <4>2, Zenon DEF TypeOK
      <4>4. ASSUME NEW q \in Procs, pc'[q] # "unborn" PROVE role'[q] \in Roles
        <5>1. CASE q = n
          BY <3>1, <4>2, <5>1, Zenon
        <5>2. CASE q # n
          <6>1. role'[q] = role[q] /\ pc[q] # "unborn"
            BY <1>0, <3>2, <4>4, <5>2, Zenon
          <6> QED BY <1>0, <6>1, Zenon DEF TypeOK
        <5> QED BY <5>1, <5>2, Zenon
      <4>5. context' \in [Procs -> Procs \cup {None}]
        BY <1>0, <2>3, Zenon DEF TypeOK
      <4>6. socket' \in [Addresses -> Procs \cup {None}]
        BY <1>0, <2>3, Zenon DEF TypeOK
      <4> QED BY <1>0, <1>2, <2>1, <4>1, <4>3, <4>4, <4>5, <4>6, Zenon DEF TypeOK
    <3>4. ASSUME NEW q \in Procs PROVE Fresh(q)' /\ OneThread(q)' /\ Listens(q)' /\ Context(q)'
      <4>0. Fresh(q) /\ OneThread(q) /\ Listens(q) /\ Context(q)
        BY Zenon DEF StartInv
      <4>1. CASE q = n
        <5>1. Fresh(q)' /\ OneThread(q)' /\ Listens(q)'
          BY <1>2, <3>0, <3>1, <4>0, <4>1, Zenon DEF Fresh, OneThread, Listens
        <5>2. Context(q)'
          BY <1>0, <1>2, <3>1, <4>1 DEF Context, grouping
        <5> QED BY <5>1, <5>2, Zenon
      <4>2. CASE q = p
        BY <1>0, <1>2, <3>0, <3>1, <4>0, <4>2, Zenon DEF Fresh, OneThread, Listens, Context
      <4>3. CASE q \notin {p, n}
        <5>0. pc'[q] = pc[q] /\ role'[q] = role[q] /\ context'[q] = context[q] /\ UNCHANGED parent
          BY <1>2, <3>2, <4>3, Zenon
        <5>1. Fresh(q)' /\ OneThread(q)'
          BY <1>2, <4>0, <5>0, Zenon DEF Fresh, OneThread
        <5>2. Listens(q)'
          <6>1. role[q].what = "shim" => role[q].of \in Addresses
            BY <1>0, RoleType, Zenon
          <6>2. q # None
            BY ProcsAssumption, Zenon
          <6>3. role[q].what = "shim" /\ pc[q] \in {"main", "otel", "context", "run", "serve"} =>
                  role[q].of # g /\ socket[role[q].of] = q
            BY <2>3, <4>0, <6>2, Zenon DEF Listens
          <6> QED BY <3>2, <4>0, <5>0, <6>1, <6>3 DEF Listens
        <5>3. Context(q)'
          <6>1. role[q].what = "shim" => context[q] # n
            BY <3>0, <4>0, Zenon DEF Context
          <6>2. role[q].what = "shim" => role'[context[q]] = role[context[q]]
            BY <3>2, <4>0, <6>1, Zenon DEF Context
          <6> QED BY <4>0, <5>0, <6>2 DEF Context, grouping
        <5> QED BY <5>1, <5>2, <5>3, Zenon
      <4> QED BY <4>1, <4>2, <4>3, Zenon
    <3> QED BY <2>1, <3>3, <3>4, Zenon DEF StartInv
  <2> QED BY <1>2, <2>2, <2>3, Zenon DEF spawn
<1> QED BY <1>1, <1>2, Zenon DEF start_shim

(* The shim that shuts down is the one that has the socket. *)
LEMMA ShutdownStep ==
  ASSUME StartInv, NEW p \in Procs, shutdown(p)
  PROVE  StartInv'
<1> USE DEF At, shutdown
<1>0. /\ pc[p] = "serve" /\ TypeOK /\ role[p].what = "shim" /\ role[p].of \in Addresses
      /\ socket[role[p].of] = p
  BY RoleType, Zenon DEF StartInv, Listens
<1>1. /\ pc'[p] = "guard" /\ \A q \in Procs \ {p} : pc'[q] = pc[q]
      /\ socket'[role[p].of] = None
      /\ \A h \in Addresses \ {role[p].of} : socket'[h] = socket[h]
  BY <1>0, Moves, Zenon DEF TypeOK
<1>2. TypeOK'
  <2>1. pc' \in [Procs -> {"unborn", "main", "otel", "context", "run", "serve", "guard",
                           "exit", "panic"}]
    BY Zenon DEF Goto, StartInv, TypeOK
  <2>2. socket' \in [Addresses -> Procs \cup {None}]
    BY <1>0, Zenon DEF TypeOK
  <2>3. \A q \in Procs : pc'[q] # "unborn" => role'[q] \in Roles
    BY <1>0, <1>1, Zenon DEF TypeOK
  <2> QED BY <1>0, <2>1, <2>2, <2>3, Zenon DEF TypeOK
<1>3. ASSUME NEW q \in Procs PROVE Fresh(q)' /\ OneThread(q)' /\ Listens(q)' /\ Context(q)'
  <2>0. Fresh(q) /\ OneThread(q) /\ Listens(q) /\ Context(q)
    BY Zenon DEF StartInv
  <2>1. CASE q = p
    <3>1. Fresh(q)' /\ OneThread(q)' /\ Listens(q)'
      BY <1>0, <1>1, <2>0, <2>1, Zenon DEF Fresh, OneThread, Listens
    <3>2. Context(q)'
      BY <1>0, <1>1, <2>0, <2>1 DEF Context, grouping
    <3> QED BY <3>1, <3>2, Zenon
  <2>2. CASE q # p
    <3>0. pc'[q] = pc[q] /\ UNCHANGED <<role, context, parent, threads, zygote, traced>>
      BY <1>1, <2>2, Zenon
    <3>1. Fresh(q)' /\ OneThread(q)'
      BY <2>0, <3>0, Zenon DEF Fresh, OneThread
    <3>2. Listens(q)'
      <4>1. role[q].what = "shim" => role[q].of \in Addresses
        BY <1>0, RoleType, Zenon
      <4> QED BY <1>0, <1>1, <2>0, <2>2, <3>0, <4>1, Zenon DEF Listens
    <3>3. Context(q)'
      BY <2>0, <3>0 DEF Context, grouping
    <3> QED BY <3>1, <3>2, <3>3, Zenon
  <2> QED BY <2>1, <2>2, Zenon
<1>4. \A c \in Containers : Answered(c)'
  BY Zenon DEF StartInv, Answered, grouping
<1> QED BY <1>2, <1>3, <1>4, Zenon DEF StartInv

LEMMA StartStep ==
  ASSUME StartInv, NEW p \in Procs, NEW c \in Containers, start(c, p)
  PROVE  StartInv'
<1> USE DEF start
<1>0. /\ pc[p] = "unborn" /\ TypeOK /\ Fresh(p) /\ role[p].what = "none" /\ context[p] = None
      /\ ~threads[p]
  BY Zenon DEF StartInv, Fresh, Unborn
<1>1. /\ pc'[p] = "main" /\ role'[p] = [what |-> "start", of |-> c] /\ role'[p].what = "start"
      /\ \A q \in Procs \ {p} : pc'[q] = pc[q] /\ role'[q] = role[q]
  BY <1>0 DEF TypeOK, Goto
<1>2. TypeOK'
  <2>1. pc' \in [Procs -> {"unborn", "main", "otel", "context", "run", "serve", "guard",
                           "exit", "panic"}]
    BY <1>0, Zenon DEF Goto, TypeOK
  <2>2. [what |-> "start", of |-> c] \in Roles
    BY DEF Roles
  <2>3. role' \in [Procs -> Roles \cup {[what |-> "none", of |-> None]}]
    BY <1>0, <2>2, Zenon DEF TypeOK
  <2>4. ASSUME NEW q \in Procs, pc'[q] # "unborn" PROVE role'[q] \in Roles
    <3>1. CASE q = p
      BY <1>1, <2>2, <3>1, Zenon
    <3>2. CASE q # p
      BY <1>0, <1>1, <2>4, <3>2, Zenon DEF TypeOK
    <3> QED BY <3>1, <3>2, Zenon
  <2> QED BY <1>0, <2>1, <2>3, <2>4, Zenon DEF TypeOK
<1>3. ASSUME NEW q \in Procs PROVE Fresh(q)' /\ OneThread(q)' /\ Listens(q)' /\ Context(q)'
  <2>0. Fresh(q) /\ OneThread(q) /\ Listens(q) /\ Context(q)
    BY Zenon DEF StartInv
  <2>1. CASE q = p
    BY <1>0, <1>1, <2>0, <2>1, Zenon DEF Fresh, OneThread, Listens, Context
  <2>2. CASE q # p
    <3>0. pc'[q] = pc[q] /\ role'[q] = role[q]
      BY <1>1, <2>2, Zenon
    <3>1. Fresh(q)' /\ OneThread(q)' /\ Listens(q)'
      BY <2>0, <3>0, Zenon DEF Fresh, OneThread, Listens
    <3>2. Context(q)'
      <4>1. role[q].what = "shim" => context[q] \in Procs \ {p}
        BY <1>0, <2>0, Zenon DEF Context
      <4>2. role[q].what = "shim" => role'[context[q]] = role[context[q]]
        BY <1>1, <4>1, Zenon
      <4> QED BY <2>0, <3>0, <4>2 DEF Context, grouping
    <3> QED BY <3>1, <3>2, Zenon
  <2> QED BY <2>1, <2>2, Zenon
<1>4. \A d \in Containers : Answered(d)'
  BY Zenon DEF StartInv, Answered, grouping
<1> QED BY <1>2, <1>3, <1>4, Zenon DEF StartInv

LEMMA StartInvariance == Spec => []StartInv
<1>1. Init => StartInv
  <2> SUFFICES ASSUME Init PROVE StartInv
    OBVIOUS
  <2> USE DEF Init
  <2>1. TypeOK
    BY Zenon DEF TypeOK
  <2>2. \A p \in Procs : role[p].what = "none"
    OBVIOUS
  <2>3. \A p \in Procs : Fresh(p) /\ OneThread(p) /\ Listens(p) /\ Context(p)
    BY <2>2, Zenon DEF Fresh, OneThread, Listens, Context
  <2>4. \A c \in Containers : Answered(c)
    BY Zenon DEF Answered
  <2> QED BY <2>1, <2>3, <2>4, Zenon DEF StartInv
<1>2. StartInv /\ [Next]_vars => StartInv'
  <2> SUFFICES ASSUME StartInv, [Next]_vars PROVE StartInv'
    OBVIOUS
  <2>1. CASE UNCHANGED vars
    <3>1. TypeOK' /\ \A c \in Containers : Answered(c)'
      BY <2>1, Zenon DEF vars, StartInv, TypeOK, Answered, grouping
    <3>2. ASSUME NEW p \in Procs PROVE Fresh(p)' /\ OneThread(p)' /\ Listens(p)'
      BY <2>1, Zenon DEF vars, StartInv, Fresh, OneThread, Listens
    <3>3. ASSUME NEW p \in Procs PROVE Context(p)'
      BY <2>1 DEF vars, StartInv, Context, grouping
    <3> QED BY <3>1, <3>2, <3>3, Zenon DEF StartInv
  <2>2. ASSUME NEW p \in Procs, step(p) PROVE StartInv'
    BY <2>2, MainStep, StartShimStep, Zenon DEF step
  <2> QED BY <2>1, <2>2, ShutdownStep, StartStep, Zenon DEF Next
<1> QED BY <1>1, <1>2, PTL DEF Spec

(***************************************************************************)
(* For any processes, containers and annotations, and however `start`s,    *)
(* failed starts and shutdowns interleave: the containers of a sandbox,    *)
(* and only they, are told one address, and no two shims serve it          *)
(* (Shim::start_shim).                                                     *)
(***************************************************************************)
THEOREM GroupsShareOneShim == Spec => []OneShimPerGroup
<1>1. StartInv => OneShimPerGroup
  <2> SUFFICES ASSUME StartInv PROVE OneShimPerGroup
    OBVIOUS
  <2>1. ASSUME NEW c \in Containers, NEW d \in Containers, c # d, Served(c), Served(d)
        PROVE  address[c] = address[d] <=> Annotation[c] = Annotation[d] /\ Annotation[c] # None
    <3>1. address[c] = grouping(c) /\ address[d] = grouping(d)
      BY <2>1, Zenon DEF StartInv, Answered, Served
    <3>2. /\ Annotation[c] \in Groups \cup {None} /\ Annotation[d] \in Groups \cup {None}
          /\ Annotation[c] = d => Annotation[d] = d
          /\ Annotation[d] = c => Annotation[c] = c
      BY AnnotationAssumption, Zenon
    <3> QED BY <2>1, <3>1, <3>2 DEF grouping
  <2>2. ASSUME NEW p \in Procs, NEW q \in Procs, At(p, "serve"), At(q, "serve"), role[p] = role[q]
        PROVE  p = q
    <3>1. socket[role[p].of] = p /\ socket[role[q].of] = q
      BY <2>2, Zenon DEF StartInv, Listens, At
    <3> QED BY <2>2, <3>1, Zenon
  <2> QED BY <2>1, <2>2, Zenon DEF OneShimPerGroup
<1> QED BY <1>1, StartInvariance, PTL

(***************************************************************************)
(* For any settings of the tracing variables: the zygote is forked while   *)
(* there is one thread, the spans of a shim belong to the `start` that     *)
(* spawned it, although later ones found it running, and a process that    *)
(* ends by itself has flushed its spans (shim_main, ShutdownGuard).        *)
(***************************************************************************)
THEOREM ShimStartsClean == Spec => []CleanStart
<1>1. StartInv => CleanStart
  <2> SUFFICES ASSUME StartInv PROVE CleanStart
    OBVIOUS
  <2>1. ZygoteIsClean /\ SpansFlushed
    BY Zenon DEF StartInv, OneThread, ZygoteIsClean, SpansFlushed, At
  <2>2. TraceFollowsStart
    <3> SUFFICES ASSUME NEW p \in Procs, At(p, "serve")
                 PROVE  /\ parent[p] \in Procs /\ role[parent[p]].what = "start"
                        /\ grouping(role[parent[p]].of) = role[p].of
      BY Zenon DEF TraceFollowsStart
    <3>1. role[p].what = "shim" /\ pc[p] = "serve" /\ Context(p)
      BY Zenon DEF StartInv, Listens, At
    <3> QED BY <3>1 DEF Context, grouping
  <2> QED BY <2>1, <2>2, Zenon DEF CleanStart
<1> QED BY <1>1, StartInvariance, PTL

(* The state of the shims and of containerd has its type, for any          *)
(* containers and groups.                                                  *)
THEOREM ShimTypeCorrect == Spec => []TypeOK
<1>1. StartInv => TypeOK
  BY DEF StartInv
<1> QED BY <1>1, StartInvariance, PTL

-----------------------------------------------------------------------------
(***************************************************************************)
(* Hooks, for any number of hooks, whatever they do and exit with, with    *)
(* the reaper or without.                                                  *)
(***************************************************************************)
CONSTANTS MaxHooks, Codes, Behaviours, Reaper, CallsFail
VARIABLES hooks, hooks_pc, idx, stdin, child, code, broken, hooks_result

Prestart == INSTANCE Hooks WITH pc <- hooks_pc, result <- hooks_result

HooksAssumption == MaxHooks \in Nat

(***************************************************************************)
(* The inductive invariant of Hooks: the hooks before the one at hand are  *)
(* reaped and the ones after it have not been spawned; the one at hand has *)
(* been once the loop is past the spawn.  Without the reaper it is not     *)
(* reaped before the wait.                                                 *)
(***************************************************************************)
Waiting == {"write", "kill", "close", "wait"}

HooksInv ==
  /\ hooks_pc \in {"spawn", "return"} \cup Waiting
  /\ idx \in Nat \ {0} /\ child \in [1 .. MaxHooks -> {"none", "running", "zombie", "reaped"}]
  /\ hooks # None => Len(hooks) \in Nat /\ Len(hooks) <= MaxHooks
  /\ \A i \in 1 .. MaxHooks : (i < idx => child[i] = "reaped") /\ (i > idx => child[i] = "none")
  /\ hooks_pc \in Waiting => idx \in 1 .. MaxHooks /\ child[idx] # "none"
  /\ hooks_pc \in Waiting /\ ~Reaper => child[idx] # "reaped"
  /\ hooks_pc = "spawn" => \A i \in 1 .. MaxHooks : i = idx => child[i] = "none"
  /\ hooks_pc = "return" => \A i \in 1 .. MaxHooks : child[i] \in {"none", "reaped"}
  /\ hooks_result = "err" /\ ~Reaper => broken
  /\ hooks_result = "err" => hooks_pc = "return"

LEMMA HooksInvariance == HooksAssumption => (Prestart!Spec => []HooksInv)
<1> SUFFICES ASSUME HooksAssumption PROVE Prestart!Spec => []HooksInv
  OBVIOUS
<1> USE DEF Prestart!I
<1>1. Prestart!Init => HooksInv
  <2> SUFFICES ASSUME Prestart!Init PROVE HooksInv
    OBVIOUS
  <2>1. hooks # None => Len(hooks) \in Nat /\ Len(hooks) <= MaxHooks
    <3> SUFFICES ASSUME hooks # None PROVE Len(hooks) \in Nat /\ Len(hooks) <= MaxHooks
      OBVIOUS
    <3>1. PICK n \in 0 .. MaxHooks : hooks \in [1 .. n -> Behaviours]
      BY Zenon DEF Prestart!Init
    <3>2. hooks \in Seq(Behaviours) /\ n \in Nat
      BY <3>1, IsASeq DEF HooksAssumption
    <3>3. Len(hooks) = n
      BY <3>1, <3>2, LenProperties
    <3> QED BY <3>1, <3>3 DEF HooksAssumption
  <2> QED BY <2>1 DEF Prestart!Init, HooksInv, Waiting, HooksAssumption
<1>2. HooksInv /\ [Prestart!Next]_Prestart!vars => HooksInv'
  <2> SUFFICES ASSUME HooksInv, [Prestart!Next]_Prestart!vars PROVE HooksInv'
    OBVIOUS
  <2>1. CASE Prestart!unwrap
    BY <2>1 DEF Prestart!unwrap, Prestart!Return, HooksInv, Waiting, HooksAssumption
  <2>2. CASE Prestart!spawn
    <3>1. CASE idx > Len(hooks)
      BY <2>2, <3>1 DEF Prestart!spawn, Prestart!Return, HooksInv, Waiting, HooksAssumption
    <3>2. CASE child' = [child EXCEPT ![idx] = "running"] /\ hooks_pc' = "write"
      <4>1. idx \in 1 .. MaxHooks /\ UNCHANGED <<hooks, idx, hooks_result, broken>>
        BY <2>2, <3>2 DEF Prestart!spawn, Prestart!Return, HooksInv, Waiting, HooksAssumption
      <4> QED BY <3>2, <4>1, <2>2 DEF Prestart!spawn, HooksInv, Waiting, HooksAssumption
    <3>3. CASE broken' /\ UNCHANGED <<hooks, idx, child>> /\ Prestart!Return("err")
      BY <2>2, <3>3 DEF Prestart!spawn, Prestart!Return, HooksInv, Waiting, HooksAssumption
    <3> QED BY <2>2, <3>1, <3>2, <3>3 DEF Prestart!spawn, HooksInv
  <2>3. CASE Prestart!write_state \/ Prestart!kill \/ Prestart!close
    BY <2>3 DEF Prestart!write_state, Prestart!kill, Prestart!close, HooksInv, Waiting, HooksAssumption
  <2>4. CASE Prestart!wait
    BY <2>4 DEF Prestart!wait, Prestart!Return, HooksInv, Waiting, HooksAssumption
  <2>5. ASSUME NEW i \in 1 .. MaxHooks, Prestart!hook_exit(i) \/ Prestart!reaper_wait(i)
        PROVE  HooksInv'
    BY <2>5 DEF Prestart!hook_exit, Prestart!reaper_wait, HooksInv, Waiting, HooksAssumption
  <2>6. CASE UNCHANGED Prestart!vars
    BY <2>6, Zenon DEF Prestart!vars, HooksInv
  <2> QED BY <2>1, <2>2, <2>3, <2>4, <2>5, <2>6, Zenon
          DEF Prestart!Next, Prestart!setup_prestart_hooks
<1> QED BY <1>1, <1>2, PTL DEF Prestart!Spec

(***************************************************************************)
(* One hook runs at a time, and none runs, or is left as a zombie, when    *)
(* setup_prestart_hooks returns, even after a hook was killed and while    *)
(* the reaper takes statuses away.                                         *)
(***************************************************************************)
THEOREM HooksRunOneAtATime == HooksAssumption => (Prestart!Spec => []Prestart!OneHookAtATime)
<1> SUFFICES ASSUME HooksAssumption PROVE Prestart!Spec => []Prestart!OneHookAtATime
  OBVIOUS
<1>1. HooksInv => Prestart!OneHookAtATime
  BY DEF HooksInv, Prestart!OneHookAtATime, Prestart!I, HooksAssumption
<1>2. Prestart!Spec => []HooksInv
  BY HooksInvariance
<1> QED BY <1>1, <1>2, PTL

(***************************************************************************)
(* "If the hook command was successful, ... we should not fail this step": *)
(* in a process without a reaper an error of setup_prestart_hooks has a    *)
(* cause.  A run finds that it has none when the shim reaps the hook.      *)
(***************************************************************************)
THEOREM HooksFailForACause ==
  HooksAssumption /\ ~Reaper => (Prestart!Spec => []Prestart!SuccessfulHooksPass)
<1> SUFFICES ASSUME HooksAssumption, ~Reaper PROVE Prestart!Spec => []Prestart!SuccessfulHooksPass
  OBVIOUS
<1>1. HooksInv => Prestart!SuccessfulHooksPass
  BY Zenon DEF HooksInv, Prestart!SuccessfulHooksPass
<1>2. Prestart!Spec => []HooksInv
  BY HooksInvariance
<1> QED BY <1>1, <1>2, PTL

(* The state of setup_prestart_hooks has its type. *)
THEOREM HooksTypeCorrect == HooksAssumption => (Prestart!Spec => []Prestart!TypeOK)
<1> SUFFICES ASSUME HooksAssumption PROVE Prestart!Spec => []Prestart!TypeOK
  OBVIOUS
<1> USE DEF Prestart!I
<1>1. Prestart!Spec => []HooksInv
  BY HooksInvariance
<1>2. Prestart!Init => Prestart!TypeOK
  BY DEF Prestart!Init, Prestart!TypeOK, HooksAssumption
<1>3. HooksInv /\ HooksInv' /\ Prestart!TypeOK /\ [Prestart!Next]_Prestart!vars => Prestart!TypeOK'
  <2> SUFFICES ASSUME HooksInv, HooksInv', Prestart!TypeOK, [Prestart!Next]_Prestart!vars
               PROVE  Prestart!TypeOK'
    OBVIOUS
  <2>1. /\ hooks_pc' \in {"spawn", "write", "kill", "close", "wait", "return"}
        /\ child' \in [1 .. MaxHooks -> {"none", "running", "zombie", "reaped"}]
    BY DEF HooksInv, Waiting
  <2>2. CASE Prestart!unwrap \/ Prestart!spawn
    <3>1. /\ UNCHANGED <<idx, code>>
          /\ stdin' = stdin \/ stdin' = [data |-> FALSE, open |-> TRUE]
          /\ hooks_result' = hooks_result \/ hooks_result' \in {"ok", "err", "panic"}
      BY <2>2 DEF Prestart!unwrap, Prestart!spawn, Prestart!Return
    <3>2. [data |-> FALSE, open |-> TRUE] \in [data : BOOLEAN, open : BOOLEAN]
      OBVIOUS
    <3>3. stdin' \in [data : BOOLEAN, open : BOOLEAN]
      BY <3>1, <3>2, Zenon DEF Prestart!TypeOK
    <3> QED BY <2>1, <3>1, <3>3 DEF Prestart!TypeOK
  <2>3. CASE Prestart!write_state \/ Prestart!close
    BY <2>1, <2>3 DEF Prestart!write_state, Prestart!close, Prestart!TypeOK
  <2>4. CASE Prestart!kill
    <3>1. code' = code \/ \E n \in Codes : code' = [code EXCEPT ![idx] = n]
      BY <2>4, Zenon DEF Prestart!kill
    <3>2. code' \in [1 .. MaxHooks -> Codes \cup {None}]
      BY <3>1 DEF Prestart!TypeOK
    <3>3. UNCHANGED <<idx, stdin, hooks_result>>
      BY <2>4, Zenon DEF Prestart!kill
    <3> QED BY <2>1, <3>2, <3>3 DEF Prestart!TypeOK
  <2>5. CASE Prestart!wait
    <3>1. idx \in 1 .. MaxHooks
      BY <2>5 DEF Prestart!wait, HooksInv, Waiting
    <3> QED BY <2>1, <2>5, <3>1 DEF Prestart!wait, Prestart!Return, Prestart!TypeOK, HooksAssumption
  <2>6. ASSUME NEW i \in 1 .. MaxHooks, Prestart!hook_exit(i) \/ Prestart!reaper_wait(i)
        PROVE  Prestart!TypeOK'
    BY <2>1, <2>6 DEF Prestart!hook_exit, Prestart!reaper_wait, Prestart!TypeOK
  <2>7. CASE UNCHANGED Prestart!vars
    BY <2>7, Zenon DEF Prestart!vars, Prestart!TypeOK
  <2> QED BY <2>2, <2>3, <2>4, <2>5, <2>6, <2>7, Zenon
          DEF Prestart!Next, Prestart!setup_prestart_hooks
<1> QED BY <1>1, <1>2, <1>3, PTL DEF Prestart!Spec

-----------------------------------------------------------------------------
(***************************************************************************)
(* Executor, for any containers, arguments, files, images and exit codes.  *)
(***************************************************************************)
CONSTANTS Engines, PATH, Cwd, Specs, Contents, ImageLayers, Exits, FilesChange
VARIABLES
  oci_client, connecting, exec_pc, engine, spec, files, image, layers, ty, checked,
  ran, result, status

Exec == INSTANCE Executor WITH pc <- exec_pc

(* The engines are the four of the repository, and None is none of the     *)
(* values that it is told from.                                            *)
ExecAssumption ==
  /\ Engines \subseteq {"wasmtime", "wasmedge", "wasmer", "wamr"}
  /\ \E L : ImageLayers \subseteq Seq(L)
  /\ None \notin Int \cup {"Wasm", "Linux", "CantHandle"}

(***************************************************************************)
(* The inductive invariant of Executor, of one container: nothing is       *)
(* decided before the build, what the build lets through is decided for    *)
(* good, and the files that were checked are the ones there at the start   *)
(* unless files change.                                                    *)
(***************************************************************************)
Undecided == {"new", "connect", "load", "build"}
Built == {"created", "running", "exited"}

Checked(c) ==
  /\ checked[c] = Exec!opened(c)
  /\ Exec!can_handle(c)

RanAsDecided(c) ==
  /\ ran[c].as = ty[c]
  /\ layers[c] # <<>> => ran[c].bytes \in {layers[c][i] : i \in DOMAIN layers[c]} \cup {None}
  /\ ty[c] = "Wasm" /\ layers[c] = <<>> /\ spec[c].sep /\ ~FilesChange =>
       checked[c] # None /\ ran[c].bytes = checked[c].magic

Reported(c) ==
  status[c] = 0 =>
    /\ ran[c].bytes \in Exec!Runnable(c)
    /\ result[c].how # "trap"
    /\ engine[c] # "wamr" => result[c].code = 0

Decided(c) ==
  /\ exec_pc[c] \in Undecided \cup Built \cup {"failed"}
  /\ exec_pc[c] \in Undecided => ty[c] = None
  /\ exec_pc[c] \in Built => ty[c] \in {"Wasm", "Linux"} /\ (ty[c] = "Linux" => layers[c] = <<>>)
  /\ exec_pc[c] = "created" /\ ty[c] = "Wasm" /\ layers[c] = <<>> /\ ~FilesChange => Checked(c)
  /\ exec_pc[c] \notin {"running", "exited"} => ran[c] = None
  /\ exec_pc[c] \in {"running", "exited"} => RanAsDecided(c)
  /\ exec_pc[c] # "exited" => status[c] = None
  /\ Reported(c)

ExecTypes ==
  /\ exec_pc \in [Containers -> Undecided \cup Built \cup {"failed"}]
  /\ engine \in [Containers -> Engines]
  /\ image \in [Containers -> ImageLayers]
  /\ \A c \in Containers : layers[c] = <<>> \/ layers[c] = image[c]
  /\ DOMAIN files = Containers
  /\ DOMAIN layers = Containers /\ DOMAIN ty = Containers /\ DOMAIN checked = Containers
  /\ DOMAIN ran = Containers /\ DOMAIN result = Containers /\ DOMAIN status = Containers

ExecInv == ExecTypes /\ \A c \in Containers : Decided(c)

(* A step of one container leaves the others as they are. *)
Same(c) ==
  UNCHANGED <<exec_pc[c], engine[c], spec[c], files[c], layers[c], ty[c], checked[c],
              ran[c], result[c], status[c]>>

LEMMA SameDecided ==
  ASSUME NEW c \in Containers, Decided(c), Same(c)
  PROVE  Decided(c)'
<1>1. Exec!opened(c)' = Exec!opened(c) /\ Exec!can_handle(c)' = Exec!can_handle(c)
  BY DEF Same, Exec!opened, Exec!can_handle, Exec!IsFile, Exec!resolve_in_path_or_cwd,
         Exec!resolve_in_dirs
<1>2. Exec!Runnable(c)' = Exec!Runnable(c)
  BY Zenon DEF Same, Exec!Runnable
<1>3. Checked(c)' = Checked(c) /\ RanAsDecided(c)' = RanAsDecided(c) /\ Reported(c)' = Reported(c)
  BY <1>1, <1>2, Zenon DEF Same, Checked, RanAsDecided, Reported
<1> QED BY <1>3 DEF Same, Decided

(* What the engines make of a guest: 0 only for one that did not fail. *)
LEMMA ZeroIsSuccess ==
  ASSUME ExecAssumption, NEW c \in Containers, engine[c] \in Engines,
         NEW res \in Exec!Results, Exec!ExitStatus(Exec!run_wasi(c, res)) = 0
  PROVE  /\ ran[c].bytes \in Exec!Runnable(c)
         /\ res.how # "trap"
         /\ engine[c] # "wamr" => res.code = 0
<1> USE DEF Exec!Error, Exec!ErrorStatus, Exec!Panic
<1>1. Exec!run_wasi(c, res) = 0
  BY DEF Exec!ExitStatus
<1>2. ran[c].bytes \in Exec!Runnable(c)
  BY <1>1 DEF Exec!run_wasi
<1>3. CASE engine[c] \in {"wasmtime", "wasmedge"}
  BY <1>1, <1>2, <1>3 DEF Exec!run_wasi, Exec!run_wasmtime, Exec!run_wasmedge
<1>4. CASE engine[c] = "wasmer"
  BY <1>1, <1>2, <1>4 DEF Exec!run_wasi, Exec!run_wasmer
<1>5. CASE engine[c] = "wamr"
  BY <1>1, <1>2, <1>5 DEF Exec!run_wasi, Exec!run_wamr
<1> QED BY <1>2, <1>3, <1>4, <1>5 DEF ExecAssumption

(* Executor::validate: what it does not refuse is Wasm or Linux; layers    *)
(* are never Linux, and a file that is Wasm was looked at.                 *)
LEMMA KindProperties ==
  ASSUME NEW c \in Containers
  PROVE  /\ Exec!Kind(c) \in {"Linux", "Wasm", "CantHandle"}
         /\ Exec!Kind(c) = "Linux" => layers[c] = <<>>
         /\ Exec!Kind(c) = "Wasm" => Exec!can_handle(c)
<1>1. Exec!is_linux_container(c) => layers[c] = <<>>
  BY Zenon DEF Exec!is_linux_container, Exec!IsFile
<1> QED BY <1>1 DEF Exec!Kind

(* Source::as_bytes: of layers, one of them or an error; of a path with a  *)
(* separator, the file that can_handle opens.                              *)
LEMMA LayerBytes ==
  ASSUME ExecAssumption, NEW c \in Containers, layers[c] \in ImageLayers, layers[c] # <<>>
  PROVE  Exec!as_bytes(c) \in {layers[c][i] : i \in DOMAIN layers[c]} \cup {None}
<1>1. PICK L : layers[c] \in Seq(L)
  BY DEF ExecAssumption
<1>2. CASE Len(layers[c]) = 1
  <2>1. 1 \in DOMAIN layers[c] /\ Head(layers[c]) = layers[c][1]
    BY <1>1, <1>2
  <2>2. Exec!as_bytes(c) = Head(layers[c])
    BY <1>2 DEF Exec!as_bytes, Exec!IsFile
  <2> QED BY <2>1, <2>2, Zenon
<1>3. CASE Len(layers[c]) # 1
  BY <1>3 DEF Exec!as_bytes, Exec!IsFile
<1> QED BY <1>2, <1>3

LEMMA FileBytes ==
  ASSUME NEW c \in Containers, layers[c] = <<>>, spec[c].sep, Exec!can_handle(c)
  PROVE  Exec!opened(c) # None /\ Exec!as_bytes(c) = Exec!opened(c).magic
<1> DEFINE found == Exec!resolve_in_path_or_cwd(c, "path")
<1>1. /\ DOMAIN found # {}
      /\ Exec!opened(c) # None
  BY Zenon DEF Exec!can_handle, Exec!IsFile
<1>2. found = [i \in {j \in DOMAIN <<Cwd>> : spec[c].arg /\ files[c]["path"][<<Cwd>>[j]] # None} |->
                files[c]["path"][<<Cwd>>[i]]]
  BY DEF Exec!resolve_in_path_or_cwd, Exec!resolve_in_dirs
<1>3. DOMAIN <<Cwd>> = {1} /\ <<Cwd>>[1] = Cwd
  OBVIOUS
<1>4. DOMAIN found \subseteq {1}
  BY <1>2, <1>3, Zenon
<1>5. DOMAIN found = {1}
  BY <1>1, <1>4, Zenon
<1>6. found[1] = Exec!opened(c)
  BY <1>2, <1>3, <1>5, Zenon DEF Exec!opened
<1>7. Exec!First({1}) = 1
  BY DEF Exec!First
<1>8. Exec!as_bytes(c) = found[Exec!First(DOMAIN found)].magic
  BY <1>1 DEF Exec!as_bytes, Exec!IsFile
<1> QED BY <1>1, <1>5, <1>6, <1>7, <1>8, Zenon

LEMMA ExecStep ==
  ASSUME ExecAssumption, ExecInv, NEW c \in Containers, Exec!step(c)
  PROVE  ExecInv'
<1> USE DEF Undecided, Built, Exec!Goto, Exec!inputs, Exec!once
<1>1. ExecTypes' /\ \A d \in Containers \ {c} : Same(d)
  <2>1. CASE Exec!new(c) \/ Exec!connect(c)
    BY <2>1 DEF Exec!new, Exec!connect, ExecInv, ExecTypes, Same
  <2>2. CASE Exec!load_modules(c)
    BY <2>2 DEF Exec!load_modules, ExecInv, ExecTypes, Same
  <2>3. CASE Exec!build(c)
    BY <2>3 DEF Exec!build, ExecInv, ExecTypes, Same
  <2>4. CASE Exec!change_file(c)
    BY <2>4 DEF Exec!change_file, ExecInv, ExecTypes, Same
  <2>5. CASE Exec!exec(c)
    BY <2>5 DEF Exec!exec, ExecInv, ExecTypes, Same
  <2>6. CASE Exec!exit(c)
    BY <2>6 DEF Exec!exit, ExecInv, ExecTypes, Same
  <2> QED BY <2>1, <2>2, <2>3, <2>4, <2>5, <2>6, Zenon DEF Exec!step
<1>2. Decided(c)'
  <2>0. Decided(c) /\ None # 0 /\ None \notin {"Wasm", "Linux", "CantHandle"}
    BY DEF ExecInv, ExecAssumption
  <2>1. CASE Exec!new(c) \/ Exec!connect(c) \/ Exec!load_modules(c)
    BY <2>0, <2>1 DEF Exec!new, Exec!connect, Exec!load_modules, Decided, Reported, ExecInv, ExecTypes
  <2>3. CASE Exec!build(c)
    <3>1. ty[c] = None /\ ran[c] = None /\ status[c] = None
      BY <2>0, <2>3 DEF Exec!build, Decided
    <3>2. UNCHANGED <<files, layers, spec, engine, ran, result, status>>
      BY <2>3, Zenon DEF Exec!build
    <3>3. Exec!opened(c)' = Exec!opened(c) /\ Exec!can_handle(c)' = Exec!can_handle(c)
      BY <3>2 DEF Exec!opened, Exec!can_handle, Exec!IsFile, Exec!resolve_in_path_or_cwd,
                  Exec!resolve_in_dirs
    <3>4. CASE /\ ty' = [ty EXCEPT ![c] = Exec!ty_of(c)]
               /\ checked' = [checked EXCEPT ![c] =
                                IF Exec!IsFile(c) THEN Exec!opened(c) ELSE None]
               /\ Exec!Goto(c, IF ty'[c] = "CantHandle" THEN "failed" ELSE "created")
      <4>1. ty'[c] = Exec!Kind(c)
        BY <3>1, <3>4 DEF Exec!ty_of, ExecInv, ExecTypes
      <4>2. exec_pc'[c] = IF ty'[c] = "CantHandle" THEN "failed" ELSE "created"
        BY <3>4 DEF ExecInv, ExecTypes
      <4>3. layers[c] = <<>> => checked'[c] = Exec!opened(c)
        BY <3>4 DEF ExecInv, ExecTypes, Exec!IsFile
      <4>4. ty'[c] = "Wasm" /\ layers[c] = <<>> => Checked(c)'
        BY <3>3, <4>1, <4>3, KindProperties, Zenon DEF Checked
      <4> QED BY <2>0, <3>1, <3>2, <4>1, <4>2, <4>4, KindProperties DEF Decided, Reported
    <3>5. CASE Exec!Goto(c, "failed") /\ UNCHANGED <<ty, checked>>
      BY <2>0, <3>1, <3>2, <3>5 DEF Decided, Reported, ExecInv, ExecTypes
    <3> QED BY <2>3, <3>4, <3>5, Zenon DEF Exec!build
  <2>4. CASE Exec!change_file(c)
    BY <2>0, <2>4 DEF Exec!change_file, Decided, Reported
  <2>5. CASE Exec!exec(c)
    <3>1. ty[c] \in {"Wasm", "Linux"} /\ status[c] = None /\ (ty[c] = "Linux" => layers[c] = <<>>)
      BY <2>0, <2>5 DEF Exec!exec, Decided
    <3>2. ty'[c] = ty[c]
      BY <2>0, <2>5, <3>1 DEF Exec!exec, Exec!ty_of, ExecInv, ExecTypes
    <3>3. /\ ran'[c] = [as |-> ty[c], bytes |-> IF ty[c] = "Wasm" THEN Exec!as_bytes(c) ELSE None]
          /\ exec_pc'[c] = "running"
          /\ UNCHANGED <<layers, spec, checked, result, status>>
      BY <2>5, <3>2 DEF Exec!exec, ExecInv, ExecTypes
    <3>4. layers[c] # <<>> => ran'[c].bytes \in {layers[c][i] : i \in DOMAIN layers[c]} \cup {None}
      <4>1. layers[c] # <<>> => layers[c] \in ImageLayers
        BY DEF ExecInv, ExecTypes
      <4> QED BY <3>1, <3>3, <4>1, LayerBytes
    <3>5. ty[c] = "Wasm" /\ layers[c] = <<>> /\ spec[c].sep /\ ~FilesChange =>
            checked[c] # None /\ ran'[c].bytes = checked[c].magic
      <4> SUFFICES ASSUME ty[c] = "Wasm", layers[c] = <<>>, spec[c].sep, ~FilesChange
                   PROVE  checked[c] # None /\ ran'[c].bytes = checked[c].magic
        OBVIOUS
      <4>1. Checked(c)
        BY <2>0, <2>5 DEF Exec!exec, Decided
      <4>2. ran'[c].bytes = Exec!as_bytes(c)
        BY <3>3
      <4> QED BY <4>1, <4>2, FileBytes, Zenon DEF Checked
    <3>6. RanAsDecided(c)'
      BY <3>2, <3>3, <3>4, <3>5 DEF RanAsDecided
    <3> QED BY <2>0, <3>1, <3>2, <3>3, <3>6 DEF Decided, Reported
  <2>6. CASE Exec!exit(c)
    <3>1. PICK res \in Exec!Results :
            /\ result' = [result EXCEPT ![c] = res]
            /\ status' = [status EXCEPT ![c] =
                 IF ran[c].as = "Linux" THEN Exec!Linux
                 ELSE Exec!ExitStatus(Exec!run_wasi(c, res))]
      BY <2>6, Zenon DEF Exec!exit
    <3>2. UNCHANGED <<layers, spec, engine, ty, checked, ran>> /\ exec_pc'[c] = "exited"
      BY <2>6 DEF Exec!exit, ExecInv, ExecTypes
    <3>3. RanAsDecided(c) /\ ty[c] \in {"Wasm", "Linux"} /\ (ty[c] = "Linux" => layers[c] = <<>>)
      BY <2>0, <2>6 DEF Exec!exit, Decided
    <3>4. result'[c] = res
      BY <3>1 DEF ExecInv, ExecTypes
    <3>5. status'[c] = 0 => Exec!ExitStatus(Exec!run_wasi(c, res)) = 0
      BY <3>1 DEF ExecInv, ExecTypes, Exec!Linux
    <3>6. Reported(c)'
      <4>1. engine[c] \in Engines /\ Exec!Runnable(c)' = Exec!Runnable(c)
        BY <3>2 DEF ExecInv, ExecTypes, Exec!Runnable
      <4> QED BY <3>2, <3>4, <3>5, <4>1, ZeroIsSuccess, Zenon DEF Reported
    <3>7. RanAsDecided(c)'
      BY <3>2, <3>3, Zenon DEF RanAsDecided
    <3> QED BY <3>2, <3>3, <3>6, <3>7 DEF Decided
  <2> QED BY <2>1, <2>3, <2>4, <2>5, <2>6, Zenon DEF Exec!step
<1>3. \A d \in Containers \ {c} : Decided(d)'
  BY <1>1, SameDecided, Zenon DEF ExecInv
<1> QED BY <1>1, <1>2, <1>3, Zenon DEF ExecInv

LEMMA ExecInvariance == ExecAssumption => (Exec!Spec => []ExecInv)
<1> SUFFICES ASSUME ExecAssumption PROVE Exec!Spec => []ExecInv
  OBVIOUS
<1>1. Exec!Init => ExecInv
  BY DEF Exec!Init, ExecInv, ExecTypes, Decided, Reported, Undecided, Built, ExecAssumption
<1>2. ExecInv /\ [Exec!Next]_Exec!vars => ExecInv'
  <2> SUFFICES ASSUME ExecInv, [Exec!Next]_Exec!vars PROVE ExecInv'
    OBVIOUS
  <2>1. CASE Exec!Next
    BY <2>1, ExecStep, Zenon DEF Exec!Next
  <2>2. CASE UNCHANGED Exec!vars
    <3>1. ExecTypes' /\ \A c \in Containers : Same(c)
      BY <2>2 DEF Exec!vars, Exec!inputs, Exec!once, ExecInv, ExecTypes, Same
    <3> QED BY <3>1, SameDecided, Zenon DEF ExecInv
  <2> QED BY <2>1, <2>2, Zenon
<1> QED BY <1>1, <1>2, PTL DEF Exec!Spec

(***************************************************************************)
(* What validate accepted at create is what exec runs after the start,     *)
(* whatever happens to the files in between (Executor::ty).                *)
(***************************************************************************)
THEOREM ExecutorDecidesOnce == ExecAssumption => (Exec!Spec => []Exec!DecidedOnce)
<1> SUFFICES ASSUME ExecAssumption PROVE Exec!Spec => []Exec!DecidedOnce
  OBVIOUS
<1>1. ExecInv => Exec!DecidedOnce
  BY DEF ExecInv, Decided, RanAsDecided, Exec!DecidedOnce, Undecided, Built
<1>2. Exec!Spec => []ExecInv
  BY ExecInvariance
<1> QED BY <1>1, <1>2, PTL

(***************************************************************************)
(* A guest that fails is never reported as a success, by any of the        *)
(* engines (exec, run_wasi).                                               *)
(***************************************************************************)
THEOREM GuestFailureIsReported == ExecAssumption => (Exec!Spec => []Exec!FailureIsReported)
<1> SUFFICES ASSUME ExecAssumption PROVE Exec!Spec => []Exec!FailureIsReported
  OBVIOUS
<1>1. ExecInv => Exec!FailureIsReported
  BY Zenon DEF ExecInv, Decided, Reported, Exec!FailureIsReported
<1>2. Exec!Spec => []ExecInv
  BY ExecInvariance
<1> QED BY <1>1, <1>2, PTL

(***************************************************************************)
(* With a separator in the argument, and files that stay as they are, the  *)
(* file that can_handle looked at is the one whose bytes are run           *)
(* (can_handle, Source::as_bytes).                                         *)
(***************************************************************************)
THEOREM CheckedFileIsRun == ExecAssumption => (Exec!Spec => []Exec!ChecksWhatItRuns)
<1> SUFFICES ASSUME ExecAssumption PROVE Exec!Spec => []Exec!ChecksWhatItRuns
  OBVIOUS
<1>1. ExecInv => Exec!ChecksWhatItRuns
  BY DEF ExecInv, Decided, RanAsDecided, Exec!ChecksWhatItRuns, Undecided, Built
<1>2. Exec!Spec => []ExecInv
  BY ExecInvariance
<1> QED BY <1>1, <1>2, PTL

(***************************************************************************)
(* OCI_CLIENT.  One container at a time is connecting, which is the one    *)
(* that the cell is locked for.                                            *)
(***************************************************************************)
(* None is no container, and exit codes are numbers. *)
CellAssumption == None \notin Containers /\ Exits \subseteq Int

OnceInv ==
  /\ oci_client \in Containers \cup {None} /\ connecting \in Containers \cup {None}
  /\ \A c \in Containers : exec_pc[c] = "connect" <=> connecting = c
  /\ \A c \in Containers : exec_pc[c] = "connect" => oci_client = None
  /\ (\E c \in Containers : exec_pc[c] \in {"load", "build"} \cup Built) => oci_client # None

(* A cell that is locked or initialized is so for a reason. *)
LEMMA OnceStep ==
  ASSUME CellAssumption, ExecInv, OnceInv, NEW c \in Containers, Exec!step(c)
  PROVE  OnceInv'
<1> USE DEF Undecided, Built, Exec!Goto, Exec!inputs, Exec!once
<1>0. exec_pc \in [Containers -> Undecided \cup Built \cup {"failed"}]
  BY DEF ExecInv, ExecTypes
<1>1. CASE Exec!new(c)
  BY <1>0, <1>1 DEF Exec!new, OnceInv, CellAssumption
<1>2. CASE Exec!connect(c)
  <2>1. connecting = c /\ oci_client = None /\ connecting' = None
    BY <1>2 DEF Exec!connect, OnceInv
  <2>2. \A d \in Containers \ {c} : exec_pc[d] # "connect" /\ exec_pc'[d] = exec_pc[d]
    BY <1>0, <1>2, <2>1 DEF Exec!connect, OnceInv
  <2>3. exec_pc'[c] \in {"load", "failed"}
    BY <1>0, <1>2 DEF Exec!connect
  <2>4. \A d \in Containers : exec_pc'[d] # "connect"
    BY <2>2, <2>3
  <2>5. oci_client' = c \/ (exec_pc'[c] = "failed" /\ oci_client' = oci_client)
    BY <1>0, <1>2 DEF Exec!connect
  <2> QED BY <2>1, <2>2, <2>4, <2>5 DEF OnceInv, CellAssumption
<1>3. CASE Exec!load_modules(c) \/ Exec!build(c) \/ Exec!change_file(c) \/ Exec!exec(c) \/ Exec!exit(c)
  <2>1. /\ UNCHANGED <<oci_client, connecting>>
        /\ \A d \in Containers \ {c} : exec_pc'[d] = exec_pc[d]
        /\ exec_pc[c] \in {"load", "build"} \cup Built
        /\ exec_pc'[c] \in {"build", "failed"} \cup Built
    BY <1>0, <1>3 DEF Exec!load_modules, Exec!build, Exec!change_file, Exec!exec, Exec!exit
  <2> QED BY <2>1 DEF OnceInv
<1> QED BY <1>1, <1>2, <1>3, Zenon DEF Exec!step

(* A process that has ended has a status. *)
StatusInv ==
  /\ \A c \in Containers : exec_pc[c] = "exited" => status[c] # None
  /\ ty \in [Containers -> {"Wasm", "Linux", "CantHandle", None}]

(* Every step keeps it: what the engines and Linux give is a number. *)
LEMMA StatusStep ==
  ASSUME ExecAssumption, CellAssumption, ExecInv, StatusInv, NEW c \in Containers, Exec!step(c)
  PROVE  StatusInv'
<1> USE DEF Undecided, Built, Exec!Goto, Exec!inputs, Exec!once
<1>0. /\ exec_pc \in [Containers -> Undecided \cup Built \cup {"failed"}]
      /\ DOMAIN status = Containers
  BY DEF ExecInv, ExecTypes
<1>1. ty' \in [Containers -> {"Wasm", "Linux", "CantHandle", None}]
  <2>1. Exec!ty_of(c) \in {"Wasm", "Linux", "CantHandle"}
    BY KindProperties DEF Exec!ty_of, StatusInv
  <2>2. ty' = ty \/ ty' = [ty EXCEPT ![c] = Exec!ty_of(c)]
    BY DEF Exec!step, Exec!new, Exec!connect, Exec!load_modules, Exec!build, Exec!change_file,
           Exec!exec, Exec!exit
  <2> QED BY <2>1, <2>2 DEF StatusInv
<1>2. CASE Exec!exit(c)
  <2>1. PICK r \in Exec!Results :
          status' = [status EXCEPT ![c] = IF ran[c].as = "Linux" THEN Exec!Linux
                                          ELSE Exec!ExitStatus(Exec!run_wasi(c, r))]
    BY <1>2, Zenon DEF Exec!exit
  <2>2. r.code \in Int
    BY DEF Exec!Results, Exec!Result, CellAssumption
  <2>3. engine[c] \in {"wasmtime", "wasmedge", "wasmer", "wamr"}
    BY DEF ExecInv, ExecTypes, ExecAssumption
  <2>4. Exec!run_wasi(c, r) \in Int
    <3> USE DEF Exec!Error, Exec!Panic
    <3>1. /\ Exec!run_wasmtime(c, r) \in Int /\ Exec!run_wasmedge(c, r) \in Int
          /\ Exec!run_wasmer(c, r) \in Int /\ Exec!run_wamr(c, r) \in Int
      BY <2>2 DEF Exec!run_wasmtime, Exec!run_wasmedge, Exec!run_wasmer, Exec!run_wamr
    <3> QED BY <2>3, <3>1 DEF Exec!run_wasi
  <2>5. status'[c] \in Int
    BY <1>0, <2>1, <2>4 DEF Exec!Linux, Exec!ExitStatus, Exec!ErrorStatus
  <2>6. \A d \in Containers \ {c} : exec_pc'[d] = exec_pc[d] /\ status'[d] = status[d]
    BY <1>0, <1>2, <2>1 DEF Exec!exit
  <2> QED BY <1>1, <2>5, <2>6 DEF StatusInv, ExecAssumption
<1>3. CASE ~Exec!exit(c)
  <2>1. /\ status' = status /\ \A d \in Containers \ {c} : exec_pc'[d] = exec_pc[d]
        /\ exec_pc'[c] # "exited"
    BY <1>0, <1>3 DEF Exec!step, Exec!new, Exec!connect, Exec!load_modules, Exec!build,
                      Exec!change_file, Exec!exec
  <2> QED BY <1>1, <2>1 DEF StatusInv
<1> QED BY <1>2, <1>3

(* Both hold in every run. *)
LEMMA OnceInvariance ==
  ExecAssumption /\ CellAssumption => (Exec!Spec => []ExecInv /\ []OnceInv /\ []StatusInv)
<1> SUFFICES ASSUME ExecAssumption, CellAssumption
             PROVE  Exec!Spec => []ExecInv /\ []OnceInv /\ []StatusInv
  OBVIOUS
<1>1. Exec!Spec => []ExecInv
  BY ExecInvariance
<1>2. Exec!Init => OnceInv /\ StatusInv
  BY DEF Exec!Init, OnceInv, StatusInv, Built, CellAssumption
<1>3. ExecInv /\ OnceInv /\ StatusInv /\ [Exec!Next]_Exec!vars => OnceInv' /\ StatusInv'
  <2> SUFFICES ASSUME ExecInv, OnceInv, StatusInv, [Exec!Next]_Exec!vars
               PROVE  OnceInv' /\ StatusInv'
    OBVIOUS
  <2>1. CASE Exec!Next
    BY <2>1, OnceStep, StatusStep, Zenon DEF Exec!Next
  <2>2. CASE UNCHANGED Exec!vars
    BY <2>2, Zenon DEF Exec!vars, Exec!inputs, Exec!once, OnceInv, StatusInv
  <2> QED BY <2>1, <2>2, Zenon
<1> QED BY <1>1, <1>2, <1>3, PTL DEF Exec!Spec

(* The state of the executors has its type. *)
THEOREM ExecutorTypeCorrect ==
  ExecAssumption /\ CellAssumption => (Exec!Spec => []Exec!TypeOK)
<1> SUFFICES ASSUME ExecAssumption, CellAssumption PROVE Exec!Spec => []Exec!TypeOK
  OBVIOUS
<1>1. Exec!Spec => []ExecInv /\ []OnceInv /\ []StatusInv
  BY OnceInvariance
<1>2. ExecInv /\ OnceInv /\ StatusInv => Exec!TypeOK
  BY DEF ExecInv, ExecTypes, Decided, OnceInv, StatusInv, Exec!TypeOK, Undecided, Built
<1> QED BY <1>1, <1>2, PTL

(***************************************************************************)
(* A create that waits for the client waits for one that is connecting,    *)
(* whatever connections failed before, and nothing is loaded without a     *)
(* client (OCI_CLIENT.get_or_try_init).  It is the part of StartupEnds     *)
(* that is about the cell: nobody waits for a lock that was left behind.   *)
(***************************************************************************)
NoLockLeft ==
  /\ connecting # None => connecting \in Containers /\ exec_pc[connecting] = "connect"
  /\ \A c \in Containers : exec_pc[c] = "load" => oci_client # None

(* It holds for any number of creates and of failures. *)
THEOREM CreatesWaitForAConnection ==
  ExecAssumption /\ CellAssumption => (Exec!Spec => []NoLockLeft)
<1> SUFFICES ASSUME ExecAssumption, CellAssumption PROVE Exec!Spec => []NoLockLeft
  OBVIOUS
<1>1. Exec!Spec => []OnceInv
  BY OnceInvariance
<1>2. OnceInv => NoLockLeft
  BY DEF OnceInv, NoLockLeft
<1> QED BY <1>1, <1>2, PTL

=============================================================================
