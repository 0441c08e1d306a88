------------------------ MODULE DisposableValidation ------------------------
(***************************************************************************)
(* The gate behind which the database tests run: one throw-away PostgreSQL *)
(* container is provisioned, both mandatory tiers run against it one after *)
(* the other between two schema censuses, container and volume are torn    *)
(* down, and a verdict is computed from what was observed.                 *)
(*                                                                         *)
(* Docker may fail to answer any question, the container may be removed by *)
(* others, a tier may end in any of the ways a runner can end, and a file  *)
(* of evidence may not be written.                                         *)
(***************************************************************************)
EXTENDS Naturals, Sequences

CONSTANTS
  Floor,     \* the reviewed floor of a tier's tests, the same for both here
  Unread     \* a census that was not taken

ASSUME DisposableAssumption == Floor \in Nat \ {0, 1}

VARIABLES
  world,    \* the container and its volume, "none", "there" or "gone"; the schemas in it
  step,     \* how far the run has come
  options,  \* --evidence and --skip-compile
  failed,   \* whether a failure has been reported along the way
  seen,     \* what was observed: instance, censuses, tiers, the volume to remove, the teardown
  bundle    \* the evidence channel

gateVars == <<world, step, options, failed, seen, bundle>>

TierNames == <<"database", "e2e">>
Census == Nat \cup {Unread}
NoTeardown == [container |-> "none", volume |-> "none"]
NoBundle == [directory |-> FALSE, invocations |-> {}, files |-> TRUE, manifest |-> FALSE]

GateTypeOK ==
  /\ world \in [container : {"none", "there", "gone"}, volume : {"none", "there", "gone"}, schemas : 0..1]
  /\ step \in {"start", "helper", "provision", "instance", "before", "tiers", "after", "identify",
               "remove", "verify", "report", "verdict", "pass", "fail"}
  /\ options \in [evidence : BOOLEAN, compile : BOOLEAN] /\ failed \in BOOLEAN
  /\ seen.before \in Census /\ seen.after \in Census /\ Len(seen.tiers) <= Len(TierNames)

GateInit ==
  /\ world = [container |-> "none", volume |-> "none", schemas |-> 0]
  /\ step = "start" /\ failed = FALSE
  /\ options \in [evidence : BOOLEAN, compile : BOOLEAN]
  /\ seen = [verified |-> FALSE, before |-> Unread, after |-> Unread, tiers |-> <<>>,
             target |-> "unknown", teardown |-> NoTeardown]
  /\ bundle = NoBundle

-----------------------------------------------------------------------------
(* How a child process can end: the runner's exit and its TAP trailer. *)
Clean == [present |-> TRUE, exit |-> "zero", trailer |-> "whole", tests |-> Floor, pass |-> Floor,
          fail |-> 0, cancelled |-> 0, skipped |-> 0, todo |-> 0]
Results ==
  {Clean,
   [Clean EXCEPT !.tests = 0, !.pass = 0],                              \* nothing was discovered
   [Clean EXCEPT !.tests = Floor - 1, !.pass = Floor - 1],              \* fewer than reviewed
   [Clean EXCEPT !.pass = Floor - 1, !.todo = 1],
   [Clean EXCEPT !.pass = Floor - 1, !.skipped = 1],
   [Clean EXCEPT !.pass = Floor - 1, !.fail = 1, !.exit = "other"],
   [Clean EXCEPT !.pass = Floor - 1, !.cancelled = 1, !.exit = "other"],
   [Clean EXCEPT !.exit = "other"],                                     \* fails after its summary
   [Clean EXCEPT !.trailer = "cut"],
   [Clean EXCEPT !.exit = "none", !.trailer = "cut"],                   \* killed, or never started
   [Clean EXCEPT !.present = FALSE, !.exit = "none", !.trailer = "cut"]}

\* Mutant: whatever the runner did not report as failed counts.
NothingFailed(r) == r.present /\ r.exit = "zero" /\ r.trailer = "whole" /\ r.fail = 0

EvaluateTier(r) ==
  /\ r.present /\ r.exit = "zero" /\ r.trailer = "whole"
  /\ r.tests >= Floor /\ r.pass = r.tests
  /\ r.fail = 0 /\ r.cancelled = 0 /\ r.skipped = 0

(* The recorded counts add up, and nothing failed, was left out or was put off. *)
CountsAgree(r) ==
  /\ r.pass + r.fail + r.cancelled + r.skipped = r.tests
  /\ r.fail = 0 /\ r.cancelled = 0 /\ r.skipped = 0 /\ r.todo = 0

(* Streams: "whole", or "partial": cut at the bound, or withheld because a secret survived redaction. *)
CompleteInvocation(i) ==
  /\ i.streams = "whole" /\ i.result.present /\ i.result.exit = "zero"
  /\ i.label # "compile" => i.result.trailer = "whole" /\ i.result.tests > 0 /\ CountsAgree(i.result)

(* The cleanup results agree with their own verification by the way they are made. *)
CompleteBundle ==
  /\ bundle.directory /\ bundle.files
  /\ \A k \in DOMAIN TierNames : \E i \in bundle.invocations : i.label = TierNames[k]
  /\ \A i \in bundle.invocations : CompleteInvocation(i)

EvaluateRun ==
  /\ seen.verified
  /\ seen.before = 0 /\ seen.after = seen.before
  /\ Len(seen.tiers) = Len(TierNames)
  /\ \A k \in DOMAIN seen.tiers : EvaluateTier(seen.tiers[k])
  /\ seen.teardown.container = "absent" /\ seen.teardown.volume = "absent"
  /\ options.evidence => CompleteBundle

-----------------------------------------------------------------------------
(* What the Docker command line answers about a container or a volume. *)
Answers(state) == {"unanswered", IF state = "there" THEN "found" ELSE "notfound"}

\* Mutant: the expression this classification replaced, status # 0.
AbsentUnlessFound(answer) == IF answer = "found" THEN "present" ELSE "absent"

(* Absent only when Docker said so. *)
ResourceAbsence(answer) ==
  CASE answer = "found" -> "present" [] answer = "notfound" -> "absent"
    [] answer = "unanswered" -> "unknown"

(* The volume is known from an inspection of the container that found it. *)
VolumeTarget(answer) == IF answer = "found" THEN "known" ELSE "unknown"

(* docker rm --force --volumes: it may time out before or after it took effect. *)
Removed == [world EXCEPT !.container = "gone", !.volume = "gone", !.schemas = 0]
Removals == IF world.container = "there" THEN {world, Removed} ELSE {world}

(* A child's record, when the channel is on. *)
Captured(label, result) ==
  IF ~options.evidence THEN bundle' = bundle
  ELSE \E streams \in {"whole", "partial"} :
         bundle' = [bundle EXCEPT !.invocations =
                      @ \cup {[label |-> label, result |-> result, streams |-> streams]}]

(* flushEvidence(): without a directory nothing is written. An unwritten manifest is a failure. *)
Flush(next) ==
  \/ /\ ~options.evidence \/ ~bundle.directory
     /\ step' = next /\ UNCHANGED <<bundle, failed>>
  \/ /\ options.evidence /\ bundle.directory
     /\ \E files, manifest \in BOOLEAN :
          /\ bundle' = [bundle EXCEPT !.files = files, !.manifest = manifest]
          /\ failed' = (failed \/ ~manifest)
     /\ step' = next

-----------------------------------------------------------------------------
(* The evidence directory, then the compiler unless it is skipped. *)
Prerequisites ==
  /\ step = "start" /\ step' = "helper"
  /\ \E directory \in (IF options.evidence THEN BOOLEAN ELSE {FALSE}), compiled \in BOOLEAN :
       LET made == IF options.compile
                   THEN {[label |-> "compile", result |-> IF compiled THEN Clean ELSE
                            [Clean EXCEPT !.exit = "other"], streams |-> "whole"]}
                   ELSE {} IN
         /\ failed' = ((options.evidence /\ ~directory) \/ (options.compile /\ ~compiled))
         /\ bundle' = [bundle EXCEPT !.directory = directory,
                                     !.invocations = IF options.evidence THEN made ELSE {}]
  /\ UNCHANGED <<world, options, seen>>

(* After a failure so far, without the compiled helper or without Docker the run ends here. *)
FindHelper ==
  /\ step = "helper"
  /\ \/ ~failed /\ step' = "provision" /\ UNCHANGED <<failed, bundle>>
     \/ Flush("fail")
  /\ UNCHANGED <<world, options, seen>>

Started == [container |-> "there", volume |-> "there", schemas |-> 0]

(* The image is verified and the container started; a start that is not acknowledged throws, and
   what fails after it destroys the container first. *)
Provision ==
  /\ step = "provision"
  /\ \/ step' = "instance" /\ world' = Started /\ UNCHANGED <<failed, bundle>>
     \/ world' \in {world, Started, [Started EXCEPT !.container = "gone", !.volume = "gone"]}
        /\ Flush("fail")
  /\ UNCHANGED <<options, seen>>

(* The instance is ours and empty when the server and Docker both say so; a refusal is reported and
   the run goes on. *)
CheckInstance ==
  /\ step = "instance" /\ step' = "before"
  /\ \E answer \in Answers(world.container) :
       seen' = [seen EXCEPT !.verified = answer = "found" /\ world.schemas = 0]
  /\ failed' = (failed \/ ~seen'.verified)
  /\ UNCHANGED <<world, options, bundle>>

(* A census that cannot be taken aborts to the teardown. *)
Count ==
  IF world.container = "there" THEN {world.schemas, Unread} ELSE {Unread}
TakeCensus(field, next) ==
  \E count \in Count :
    /\ seen' = [seen EXCEPT ![field] = count]
    /\ failed' = (failed \/ count # (IF field = "before" THEN 0 ELSE seen.before))
    /\ step' = IF count = Unread THEN "identify" ELSE next
CensusBefore == step = "before" /\ TakeCensus("before", "tiers") /\ UNCHANGED <<world, options, bundle>>
CensusAfter == step = "after" /\ TakeCensus("after", "identify") /\ UNCHANGED <<world, options, bundle>>

(* One tier, in its turn; it may leave a schema behind, or clean one up. *)
RunTier ==
  /\ step = "tiers"
  /\ \E result \in Results :
       /\ seen' = [seen EXCEPT !.tiers = Append(@, result)]
       /\ failed' = (failed \/ ~EvaluateTier(result))
       /\ Captured(TierNames[Len(seen.tiers) + 1], result)
       /\ \E schemas \in 0..1 :
            /\ schemas # world.schemas => world.container = "there" /\ result.present
            /\ world' = [world EXCEPT !.schemas = schemas]
       /\ world.container # "there" => ~EvaluateTier(result)
  /\ step' = IF Len(seen.tiers) + 1 = Len(TierNames) THEN "after" ELSE "tiers"
  /\ UNCHANGED options

(* destroy(): the volume is identified, container and volume are removed, and both are looked for. *)
Identify ==
  /\ step = "identify" /\ step' = "remove"
  /\ \E answer \in Answers(world.container) : seen' = [seen EXCEPT !.target = VolumeTarget(answer)]
  /\ UNCHANGED <<world, options, failed, bundle>>

Remove ==
  /\ step = "remove" /\ step' = "verify" /\ world' \in Removals
  /\ UNCHANGED <<options, failed, seen, bundle>>

Verify ==
  /\ step = "verify" /\ step' = "report"
  /\ \E c \in Answers(world.container), v \in Answers(world.volume) :
       seen' = [seen EXCEPT !.teardown =
                  [container |-> ResourceAbsence(c),
                   volume |-> IF seen.target = "known" THEN ResourceAbsence(v) ELSE "unknown"]]
  /\ failed' = (failed \/ seen'.teardown # [container |-> "absent", volume |-> "absent"])
  /\ UNCHANGED <<world, options, bundle>>

Report == step = "report" /\ Flush("verdict") /\ UNCHANGED <<world, options, seen>>

Verdict ==
  /\ step = "verdict"
  /\ step' = IF EvaluateRun /\ ~failed THEN "pass" ELSE "fail"
  /\ UNCHANGED <<world, options, failed, seen, bundle>>

(* Others remove the container, with its volume or without. *)
Pruned ==
  /\ world.container = "there" /\ step \notin {"pass", "fail"}
  /\ world' \in {[Removed EXCEPT !.volume = v] : v \in {"there", "gone"}}
  /\ UNCHANGED <<step, options, failed, seen, bundle>>

GateNext ==
  \/ Prerequisites \/ FindHelper \/ Provision \/ CheckInstance \/ CensusBefore \/ RunTier
  \/ CensusAfter \/ Identify \/ Remove \/ Verify \/ Report \/ Verdict \/ Pruned

GateSpec == GateInit /\ [][GateNext]_gateVars

-----------------------------------------------------------------------------
(* The gate passes only a validation that took place: both tiers ran in full and passed every test,
   no schema was found before or after them, the container and its volume are really gone, and evidence
   that was asked for is complete on disk, whatever Docker, the runner and others did in between
   (test-db-disposable.mjs:1331). *)
PassIsEarned ==
  step = "pass" =>
    /\ [k \in DOMAIN seen.tiers |-> seen.tiers[k]] = <<Clean, Clean>>
    /\ seen.before = 0 /\ seen.after = 0 /\ world = Removed
    /\ options.evidence => bundle.directory /\ bundle.files /\ bundle.manifest
                           /\ \A i \in bundle.invocations : i.streams = "whole"
=============================================================================
