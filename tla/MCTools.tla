------------------------------ MODULE MCTools ------------------------------
(***************************************************************************)
(* TLC instances of the programs that are built and tested with the shims. *)
(* They share nothing, so a behaviour is of one program in one setting,    *)
(* the one that `tool` names, and the others have not begun.               *)
(***************************************************************************)
EXTENDS StressTest, TLC

CONSTANTS t1, t2, p1, p2, p3, c1, c2, OtherType

VARIABLES tool

VARIABLES
  path_file, args, build_pc, runs, todo, layers, unique, idx, dgst,
  layer_digests, tar, out, io_failed, built
oci_tar_builder ==
  <<path_file, args, build_pc, runs, todo, layers, unique, idx, dgst,
    layer_digests, tar, out, io_failed, built>>

VARIABLES
  images, content, containers, test, round, test_pc, file, instance, code,
  guards, panics, verdict
testing ==
  <<images, content, containers, test, round, test_pc, file, instance, code,
    guards, panics, verdict>>

stress_test == vars
allVars == <<tool, stress_test, oci_tar_builder, testing>>

(* Two tasks, one at a time or without a limit, through containerd or      *)
(* straight to the shim; a shim, the process that it forked and the child  *)
(* of that one are left.                                                   *)
TwoTasks == {t1, t2}
StressLines == [containerd : BOOLEAN, parallel : 0 .. 1]
Leftover == {p1, p2, p3}
Chain == p1 :> {p2} @@ p2 :> {p3} @@ p3 :> {}

(* Modules and layers, the same file twice, components, and wrong lines;   *)
(* and one build while a compiler rewrites the files.                      *)
Line(as_artifact, module, layer, components) ==
  [as_artifact |-> as_artifact, module |-> module, layer |-> layer, components |-> components]
C(p, wasm) == [path |-> p, wasm |-> wasm]
Lines ==
  { Line(FALSE, <<p1, p2>>, <<p3>>, {}), Line(FALSE, <<p1>>, <<p2, p1>>, {}),
    Line(FALSE, <<>>, <<p3>>, {C(p1, TRUE), C(p2, TRUE), C(p3, FALSE)}),
    Line(FALSE, <<p1>>, <<>>, {C(p2, TRUE)}), Line(FALSE, <<>>, <<p1>>, {}),
    Line(TRUE, <<p1, p2>>, <<>>, {}) }
Builder ==
  INSTANCE OciTarBuilder WITH
    Paths <- {p1, p2, p3}, Contents <- {c1, c2}, ArgSets <- Lines,
    FilesChange <- FALSE, IoFails <- TRUE, MaxRuns <- 2,
    file <- path_file, pc <- build_pc, failed <- io_failed, images <- built
Rewritten ==
  INSTANCE OciTarBuilder WITH
    Paths <- {p1, p2}, Contents <- {c1, c2},
    ArgSets <- {Line(FALSE, <<p1, p2>>, <<>>, {}), Line(FALSE, <<p1>>, <<p2>>, {})},
    FilesChange <- TRUE, IoFails <- TRUE, MaxRuns <- 1,
    file <- path_file, pc <- build_pc, failed <- io_failed, images <- built

(* The shape of Wasmtime's tests, one container, then two on one image,    *)
(* with commands that fail, without, and with guests that hang.            *)
U(image, name) == [image |-> image, container |-> name]
Suite ==
  << <<U("hello", "test")>>, <<U("hello", "c1"), U("hello", "c2")>>, <<U("hello", "test")>> >>
Harness ==
  INSTANCE TestHarness WITH
    Tests <- Suite, CtrFails <- TRUE, ListFails <- FALSE, GuestsEnd <- TRUE, pc <- test_pc
Quiet ==
  INSTANCE TestHarness WITH
    Tests <- Suite, CtrFails <- FALSE, ListFails <- FALSE, GuestsEnd <- TRUE, pc <- test_pc
Hanging ==
  INSTANCE TestHarness WITH
    Tests <- Suite, CtrFails <- TRUE, ListFails <- TRUE, GuestsEnd <- FALSE, pc <- test_pc

-----------------------------------------------------------------------------
(* A program that has not begun has one initial state. *)
AllInit ==
  /\ tool \in {"stress-test", "builder", "rewritten", "harness", "quiet", "hanging"}
  /\ Harness!Init
  /\ Init /\ (tool # "stress-test" => cli.containerd /\ cli.parallel = 0)
  /\ \/ tool = "builder" /\ Builder!Init
     \/ tool = "rewritten" /\ Rewritten!Init
     \/ /\ tool \notin {"builder", "rewritten"} /\ Rewritten!Init
        /\ path_file = [p \in {p1, p2} |-> c1] /\ args.layer = <<>>

AllNext ==
  /\ UNCHANGED tool
  /\ \/ /\ tool = "stress-test" /\ Next
        /\ UNCHANGED <<oci_tar_builder, testing>>
     \/ /\ \/ tool = "builder" /\ Builder!Next
           \/ tool = "rewritten" /\ Rewritten!Next
        /\ UNCHANGED <<stress_test, testing>>
     \/ /\ \/ tool = "harness" /\ Harness!Next
           \/ tool = "quiet" /\ Quiet!Next
           \/ tool = "hanging" /\ Hanging!Next
        /\ UNCHANGED <<stress_test, oci_tar_builder>>

(* The fairness of the programs, each while it is the one that runs. *)
Stress(action) ==
  /\ tool = "stress-test" /\ action
  /\ UNCHANGED <<tool, oci_tar_builder, testing>>
harness ==
  /\ tool = "hanging" /\ Hanging!harness
  /\ UNCHANGED <<tool, stress_test, oci_tar_builder>>

AllSpec ==
  /\ AllInit /\ [][AllNext]_allVars
  /\ WF_allVars(Stress(run)) /\ WF_allVars(Stress(watchdog)) /\ WF_allVars(harness)
  /\ \A t \in Tasks : WF_allVars(Stress(future(t)))

-----------------------------------------------------------------------------
(* The properties of the programs, each for the settings it is about; they *)
(* are explained in the modules of the programs.  TypeOK and               *)
(* StressTestCorrect are those of StressTest.                              *)

(***************************************************************************)
(* Builder: a run that ends leaves a whole tar or none, and the manifest   *)
(* of a tar names only blobs that are in it, even when files are rewritten *)
(* meanwhile; the image has the modules of the command line as wasm        *)
(* layers, in order, and, when no file is rewritten, images with one       *)
(* config have the same layers (main, generate_wasi_image, build).         *)
(***************************************************************************)
BuilderCorrect ==
  /\ tool = "builder" =>
       /\ Builder!TypeOK /\ Builder!NoPartialTar /\ Builder!ReferencesResolve
       /\ Builder!ModulesReachShim /\ Builder!ConfigIsUnique /\ Builder!ArgsHonoured
  /\ tool = "rewritten" => Rewritten!TypeOK /\ Rewritten!NoPartialTar /\ Rewritten!ReferencesResolve

(***************************************************************************)
(* Harness: image and container are there while a round runs, a test that  *)
(* passes leaves nothing behind, and if the commands work only its guest   *)
(* fails a test (WasiTestBuilder, OCICleanup).                             *)
(***************************************************************************)
HarnessCorrect ==
  /\ tool \in {"harness", "quiet", "hanging"} => Harness!TypeOK
  /\ tool = "harness" => Harness!ImageOutlivesRun /\ Harness!PassLeavesNothing
  /\ tool = "quiet" => Quiet!NoSpuriousFailure
  /\ tool = "hanging" => Hanging!ImageOutlivesRun

(* The stress test ends, unless the set up of a task failed (watchdog),    *)
(* and so do the tests of the harness, although guests hang (wait,         *)
(* wait_for_content_removal).                                              *)
ToolsEnd ==
  /\ tool = "stress-test" => TestEnds
  /\ tool = "hanging" => Hanging!TestsEnd

=============================================================================
