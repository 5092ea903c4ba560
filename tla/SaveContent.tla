---------------------------- MODULE SaveContent ----------------------------
(***************************************************************************)
(* Client::save_content (containerd-shim-wasm containerd/client.rs): the   *)
(* write of compiled content to containerd, message by message.  All the   *)
(* writers of one engine use the same lease id and the same ingest         *)
(* reference, whatever layer they write, so a writer may find the partial  *)
(* ingest of another one, which it then continues.                         *)
(*                                                                         *)
(* containerd's side of the messages and its collector are external.  The  *)
(* digest of content is the content.                                       *)
(***************************************************************************)
EXTENDS Integers, Sequences

CONSTANTS
  Writers,
  Data,        \* Data[w]: the bytes that w saves
  MaxChunk,    \* MAX_WRITE_CHUNK_SIZE_BYTES
  MaxFaults,   \* the bound on lost messages and crashes
  None

VARIABLES
  holder,   \* the writer whose lease exists
  ingest,   \* the bytes ingested under the reference
  blobs,    \* the content that was committed
  pc, offset,
  excuse,   \* excuse[w]: what w met that may make its save fail
  faults

containerd == <<holder, ingest, blobs>>
vars == <<holder, ingest, blobs, pc, offset, excuse, faults>>

Prefix(s, t) == Len(s) <= Len(t) /\ s = SubSeq(t, 1, Len(s))

(* One type invariant for the module. *)
TypeOK ==
  /\ holder \in Writers \cup {None}
  /\ ingest = None \/ Len(ingest) \in Nat
  /\ blobs \subseteq {Data[w] : w \in Writers}
  /\ pc \in [Writers -> {"idle", "stat", "chunk", "drop", "saved", "failed"}]
  /\ \A w \in Writers : offset[w] \in 0 .. Len(Data[w]) \/ "foreign" \in excuse[w]
  /\ excuse \in [Writers -> SUBSET {"lease", "lost", "foreign"}]
  /\ faults \in 0 .. MaxFaults

Init ==
  /\ holder = None /\ ingest = None /\ blobs = {}
  /\ pc = [w \in Writers |-> "idle"]
  /\ offset = [w \in Writers |-> 0]
  /\ excuse = [w \in Writers |-> {}]
  /\ faults = 0

Goto(w, label) == pc' = [pc EXCEPT ![w] = label]
Excuse(w, why) == excuse' = [excuse EXCEPT ![w] = @ \cup {why}]

-----------------------------------------------------------------------------
(* lease(): the id is the same for every writer. *)
save_content(w) ==
  /\ pc[w] \in {"idle", "saved", "failed"}
  /\ \/ /\ holder = None
        /\ holder' = w
        /\ Goto(w, "stat")
        /\ excuse' = [excuse EXCEPT ![w] = {}]
     \/ /\ holder # None
        /\ Goto(w, "failed")
        /\ excuse' = [excuse EXCEPT ![w] = {"lease"}]
        /\ UNCHANGED holder
  /\ offset' = [offset EXCEPT ![w] = 0]
  /\ UNCHANGED <<ingest, blobs, faults>>

(* Stat: content that exists ends the write, an ingest is continued. *)
stat(w) ==
  /\ pc[w] = "stat"
  /\ \/ /\ Data[w] \in blobs
        /\ holder' = None
        /\ Goto(w, "saved")
        /\ UNCHANGED <<ingest, offset, excuse>>
     \/ /\ Data[w] \notin blobs
        /\ ingest' = IF ingest = None THEN <<>> ELSE ingest
        /\ offset' = [offset EXCEPT ![w] = Len(ingest')]
        /\ Goto(w, "chunk")
        /\ IF Prefix(ingest', Data[w]) THEN UNCHANGED excuse ELSE Excuse(w, "foreign")
        /\ UNCHANGED holder
  /\ UNCHANGED <<blobs, faults>>

(* containerd takes bytes at the end of the ingest; offset 0 restarts it. *)
Accepts(at) == at = 0 \/ at = Len(ingest)
Ingested(at, data) == IF at = 0 THEN data ELSE ingest \o data

Lose == faults < MaxFaults /\ faults' = faults + 1

(* An error: the guard is dropped. *)
Err(w) == Goto(w, "drop") /\ UNCHANGED <<holder, offset, blobs>>

chunk_end(w) ==
  LET end == offset[w] + MaxChunk IN
  IF end < Len(Data[w]) THEN end ELSE Len(Data[w])

chunk(w) == SubSeq(Data[w], offset[w] + 1, chunk_end(w))

(* The message, containerd's work and its answer; a lost message may have  *)
(* been worked on or not.                                                  *)
send_chunk(w) ==
  /\ pc[w] = "chunk" /\ offset[w] < Len(Data[w])
  /\ LET write == ingest' = Ingested(offset[w], chunk(w)) IN
     \/ /\ Accepts(offset[w]) /\ write
        /\ offset' = [offset EXCEPT ![w] = chunk_end(w)]
        /\ UNCHANGED <<holder, blobs, pc, excuse, faults>>
     \/ /\ ~Accepts(offset[w])
        /\ Err(w) /\ UNCHANGED <<ingest, excuse, faults>>
     \/ /\ Lose
        /\ write \/ UNCHANGED ingest
        /\ Err(w) /\ Excuse(w, "lost")

(* containerd compares the size and the digest of what was ingested. *)
Complete(w) == Accepts(Len(Data[w])) /\ Ingested(Len(Data[w]), <<>>) = Data[w]

Commit(w) == Complete(w) /\ blobs' = blobs \cup {Data[w]} /\ ingest' = None

(* A refused commit is taken for a success. *)
Mut_send_commit(w) ==
  /\ pc[w] = "chunk" /\ offset[w] >= Len(Data[w])
  /\ \/ Commit(w)
     \/ ~Complete(w) /\ UNCHANGED <<blobs, ingest>>
  /\ holder' = None
  /\ Goto(w, "saved")
  /\ UNCHANGED <<offset, excuse, faults>>

(* The lease is released by the caller once the labels refer to the blob.  *)
send_commit(w) ==
  /\ pc[w] = "chunk" /\ offset[w] >= Len(Data[w])
  /\ \/ /\ Commit(w)
        /\ holder' = None
        /\ Goto(w, "saved")
        /\ UNCHANGED <<offset, excuse, faults>>
     \/ /\ ~Complete(w)
        /\ Err(w) /\ UNCHANGED <<ingest, excuse, faults>>
     \/ /\ Lose
        /\ Commit(w) \/ UNCHANGED <<blobs, ingest>>
        /\ Goto(w, "drop")
        /\ Excuse(w, "lost")
        /\ UNCHANGED <<holder, offset>>

(* The guard deletes the lease; what was ingested stays. *)
drop(w) ==
  /\ pc[w] = "drop"
  /\ holder' = None
  /\ Goto(w, "failed")
  /\ UNCHANGED <<ingest, blobs, offset, excuse, faults>>

(* The shim is killed, and a new one takes its place. *)
crash(w) ==
  /\ pc[w] \in {"stat", "chunk", "drop"}
  /\ Lose
  /\ Goto(w, "idle")
  /\ UNCHANGED <<containerd, offset, excuse>>

(* The collector: a lease without a writer expires after 24 hours, and an  *)
(* ingest without a lease is removed.                                      *)
expire ==
  /\ holder # None /\ pc[holder] \in {"idle", "saved", "failed"}
  /\ holder' = None
  /\ UNCHANGED <<ingest, blobs, pc, offset, excuse, faults>>

collect ==
  /\ holder = None /\ ingest # None
  /\ ingest' = None
  /\ UNCHANGED <<holder, blobs, pc, offset, excuse, faults>>

Next ==
  \/ \E w \in Writers : save_content(w) \/ stat(w) \/ send_chunk(w) \/ send_commit(w)
                         \/ drop(w) \/ crash(w)
  \/ expire \/ collect

Spec == Init /\ [][Next]_vars

-----------------------------------------------------------------------------
(***************************************************************************)
(* "Client should validate that all bytes were written and that the digest *)
(* matches" (client.rs:256): content that save_content has returned is in  *)
(* the store, complete.                                                    *)
(***************************************************************************)
SavedIsWhole == \A w \in Writers : pc[w] = "saved" => Data[w] \in blobs

(***************************************************************************)
(* The chunks add up (client.rs:213-236), for content of any length and    *)
(* for an ingest that is continued from any point: a save fails only when  *)
(* another writer has the lease, a message is lost, or the ingest that it  *)
(* continues was begun with other bytes.                                   *)
(***************************************************************************)
FailureHasCause == \A w \in Writers : pc[w] \in {"drop", "failed"} => excuse[w] # {}

=============================================================================
