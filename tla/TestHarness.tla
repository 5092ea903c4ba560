---------------------------- MODULE TestHarness ----------------------------
(***************************************************************************)
(* The harness that the engines' tests are written with                    *)
(* (containerd-shim-wasm testing.rs): WasiTest, which runs a module as a   *)
(* container, and OCICleanup, which removes what a test put into           *)
(* containerd.  Tests run one after the other (#[serial]); a test runs     *)
(* some containers from images and cleans up when it returns.              *)
(*                                                                         *)
(* containerd, driven with ctr, and the guests are external.               *)
(***************************************************************************)
EXTENDS Integers, Sequences

CONSTANTS
  Tests,        \* Tests[i]: the containers of test i, each [image, container]
  CtrFails,     \* whether the ctr commands that change something,
                \* and the operations of an instance, may fail
  ListFails,    \* whether `ctr i ls` may fail
  GuestsEnd     \* whether guests end

Uses == UNION {{Tests[i][j] : j \in DOMAIN Tests[i]} : i \in DOMAIN Tests}
Images == {u.image : u \in Uses}
Names == {u.container : u \in Uses}

VARIABLES
  images, content,   \* what containerd has: images, and those whose content it has
  containers,
  test, round, pc,
  file,              \* whether hello.wasm is in the rootfs
  instance,          \* "none", "created", "running", "exited", "deleted"
  code,              \* the exit code the test expects, another, or none yet
  guards,            \* the OCICleanups of the test, in the order they were made
  panics,            \* how many panics there were in this test
  verdict            \* of the test that ended last

ctr == <<images, content, containers>>
vars == <<ctr, test, round, pc, file, instance, code, guards, panics, verdict>>

Use == Tests[test][round]
Last == guards[Len(guards)]

(* One type invariant for the module. *)
TypeOK ==
  /\ images \subseteq Images /\ content \subseteq Images /\ containers \subseteq Names
  /\ test \in 1 .. Len(Tests) + 1
  /\ pc \in {"new", "exists", "import", "remove_file", "create_container", "build", "start",
             "wait", "drop", "clean_image", "removal", "end", "abort"}
  /\ instance \in {"none", "created", "running", "exited", "deleted"}
  /\ Len(guards) <= Len(Tests[IF test > Len(Tests) THEN 1 ELSE test])
  /\ code \in {"none", "expected", "other"}
  /\ verdict \in {"none", "ok", "failed"}

Init ==
  /\ images = {} /\ content = {} /\ containers = {}
  /\ test = 1 /\ round = 1 /\ pc = "new" /\ file = FALSE
  /\ instance = "none" /\ code = "none"
  /\ guards = <<>> /\ panics = 0 /\ verdict = "none"

Goto(label) == pc' = label
(* A `?` returns: the guards are dropped. *)
Bail ==
  /\ Goto("drop") /\ verdict' = "failed"
  /\ UNCHANGED <<ctr, test, round, file, instance, code, guards, panics>>

-----------------------------------------------------------------------------
(* WasiTestBuilder::new and with_wasm. *)
new ==
  /\ pc = "new" /\ test <= Len(Tests)
  /\ Goto("exists")
  /\ file' = TRUE /\ instance' = "none" /\ code' = "none"
  /\ verdict' = IF round = 1 THEN "none" ELSE verdict
  /\ UNCHANGED <<ctr, test, round, guards, panics>>

(* as_oci_image: an image that is there is used as it is.  A listing that  *)
(* fails lists nothing.                                                    *)
image_exists ==
  /\ pc = "exists"
  /\ \/ Use.image \in images /\ Goto("create_container")
     \/ (Use.image \notin images \/ ListFails) /\ Goto("import")
  /\ UNCHANGED <<ctr, test, round, file, instance, code, guards, panics, verdict>>

import_image ==
  /\ pc = "import"
  /\ \/ /\ images' = images \cup {Use.image}
        /\ content' = content \cup {Use.image}
        /\ Goto("remove_file")
        /\ UNCHANGED <<containers, test, round, file, instance, code, guards, panics, verdict>>
     \/ CtrFails /\ Bail

remove_file ==
  /\ pc = "remove_file"
  /\ file' = FALSE
  /\ Goto("create_container")
  /\ UNCHANGED <<ctr, test, round, instance, code, guards, panics, verdict>>

(* A container of that name must not exist.  The guard is made last. *)
create_container ==
  /\ pc = "create_container"
  /\ \/ /\ Use.container \notin containers
        /\ containers' = containers \cup {Use.container}
        /\ guards' = Append(guards, Use)
        /\ Goto("build")
        /\ UNCHANGED <<images, content, test, round, file, instance, code, panics, verdict>>
     \/ (CtrFails \/ Use.container \in containers) /\ Bail

build ==
  /\ pc = "build"
  /\ \/ /\ instance' = "created"
        /\ Goto("start")
        /\ UNCHANGED <<ctr, test, round, file, code, guards, panics, verdict>>
     \/ CtrFails /\ Bail

start ==
  /\ pc = "start"
  /\ \/ /\ instance' = "running"
        /\ Goto("wait")
        /\ UNCHANGED <<ctr, test, round, file, code, guards, panics, verdict>>
     \/ CtrFails /\ Bail

guest_exit ==
  /\ GuestsEnd
  /\ instance = "running"
  /\ instance' = "exited"
  /\ code' \in {"expected", "other"}
  /\ UNCHANGED <<ctr, test, round, pc, file, guards, panics, verdict>>

(* wait deletes the instance, and the test asserts on the code and goes    *)
(* on; or it times out, and the guest is killed and left.                  *)
wait ==
  /\ pc = "wait"
  /\ \/ /\ instance = "exited"
        /\ instance' = "deleted"
        /\ \/ /\ code = "expected" /\ round < Len(Tests[test])
              /\ Goto("new") /\ round' = round + 1
              /\ UNCHANGED <<panics, verdict>>
           \/ /\ code = "expected" /\ round = Len(Tests[test])
              /\ Goto("drop") /\ verdict' = "ok"
              /\ UNCHANGED <<round, panics>>
           \/ /\ code = "other"
              /\ Goto("drop") /\ verdict' = "failed" /\ panics' = 1
              /\ UNCHANGED round
        /\ UNCHANGED <<ctr, test, file, code, guards>>
     \/ /\ instance = "running"
        /\ instance' = "exited"
        /\ Goto("drop") /\ verdict' = "failed"
        /\ UNCHANGED <<ctr, test, round, file, code, guards, panics>>
     \/ CtrFails /\ Bail

-----------------------------------------------------------------------------
(* The drop of an OCICleanup unwraps: a first panic fails the test and the *)
(* other guards are dropped, a second one aborts the program.              *)
Pop == guards' = SubSeq(guards, 1, Len(guards) - 1)
Panic ==
  /\ panics' = panics + 1
  /\ verdict' = "failed"
  /\ Pop
  /\ Goto(IF panics > 0 THEN "abort" ELSE "drop")
  /\ UNCHANGED <<ctr, test, round, file, instance, code>>

(* The last guard is dropped first: its container ... *)
clean_container ==
  /\ pc = "drop" /\ guards # <<>>
  /\ \/ /\ Last.container \in containers
        /\ containers' = containers \ {Last.container}
        /\ Goto("clean_image")
        /\ UNCHANGED <<images, content, test, round, file, instance, code, guards, panics, verdict>>
     \/ (CtrFails \/ Last.container \notin containers) /\ Panic

(* The image is left to other tests. *)
Mut_clean_image_kept ==
  /\ pc = "clean_image"
  /\ Goto("drop") /\ Pop
  /\ UNCHANGED <<ctr, test, round, file, instance, code, panics, verdict>>

(* ... and its image.  When its digest is not found, for whatever reason,  *)
(* the image is taken not to exist ...                                     *)
clean_image ==
  /\ pc = "clean_image"
  /\ \/ /\ Last.image \notin images \/ ListFails
        /\ Goto("drop") /\ Pop
        /\ UNCHANGED <<ctr, test, round, file, instance, code, panics, verdict>>
     \/ /\ Last.image \in images
        /\ images' = images \ {Last.image}
        /\ Goto("removal")
        /\ UNCHANGED <<content, containers, test, round, file, instance, code, guards, panics, verdict>>
     \/ CtrFails /\ Last.image \in images /\ Panic

(* ... whose content it waits for, for a while. *)
wait_for_content_removal ==
  /\ pc = "removal"
  /\ Goto("drop") /\ Pop
  /\ UNCHANGED <<ctr, test, round, file, instance, code, panics, verdict>>

collect ==
  /\ \E i \in content \ images : content' = content \ {i}
  /\ UNCHANGED <<images, containers, test, round, pc, file, instance, code, guards, panics, verdict>>

next_test ==
  /\ pc = "drop" /\ guards = <<>>
  /\ Goto(IF test < Len(Tests) THEN "new" ELSE "end")
  /\ test' = test + 1 /\ round' = 1 /\ panics' = 0
  /\ UNCHANGED <<ctr, file, instance, code, guards, verdict>>

harness ==
  \/ new \/ image_exists \/ import_image \/ remove_file \/ create_container \/ build \/ start
  \/ wait \/ clean_container \/ clean_image \/ wait_for_content_removal \/ next_test

Next == harness \/ guest_exit \/ collect

Spec == Init /\ [][Next]_vars
Fairness == WF_vars(harness)

-----------------------------------------------------------------------------
(* The image and the container of a round are there while it runs, also    *)
(* in a second round on the same image (the lifetime of OCICleanup).       *)
ImageOutlivesRun ==
  pc \in {"build", "start", "wait"} => Use.image \in images /\ Use.container \in containers

(* A test that passes leaves no image and no container behind, whatever    *)
(* the tests before it left (the drop of OCICleanup; "doesn't exist").     *)
PassLeavesNothing ==
  pc = "drop" /\ guards = <<>> /\ verdict = "ok" =>
    \A j \in DOMAIN Tests[test] :
      Tests[test][j].image \notin images /\ Tests[test][j].container \notin containers

(* When the commands work, only a guest that hangs or exits with another   *)
(* code fails a test: what the tests before it left does not, and a second *)
(* guard for an image that is gone is no error (clean_image).              *)
NoSpuriousFailure == verdict = "failed" => code # "expected"

(* The tests end, although guests hang and content is not collected        *)
(* (the time limits of wait and wait_for_content_removal).                 *)
TestsEnd == <>(pc \in {"end", "abort"})

=============================================================================
