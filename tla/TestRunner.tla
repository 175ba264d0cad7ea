----------------------------- MODULE TestRunner -----------------------------
(***************************************************************************)
(* The release command (cmd/testrunner): it collects the compiled test     *)
(* binaries of a directory, runs those of the unit pass side by side, at   *)
(* most parallel processes at once, and then the integration binary alone. *)
(* A machine of the new version starts only if the command exits with 0.   *)
(*                                                                         *)
(* runBinaries starts one goroutine for each binary.  It holds a slot of   *)
(* the channel sem from before its start until its process has ended.      *)
(* Left out: the order of the binaries (sorted in the code, any order      *)
(* here), their arguments, directories and output.                         *)
(***************************************************************************)
EXTENDS Integers, FiniteSets

CONSTANTS
    Binary,         \* files that may be in the directory
    NoBinary,       \* no integration run asked for; no error yet
    PkgParallel     \* values of the -pkg-parallel flag

ASSUME BinaryAssumption == IsFiniteSet(Binary) /\ NoBinary \notin Binary
ASSUME ParallelAssumption == PkgParallel \subseteq Int

VARIABLES
    found,          \* binaries in the directory
    integration,    \* the binary the flags name for the integration pass
    parallel,       \* -pkg-parallel
    pass,           \* what main is at
    todo,           \* binaries of the pass that are not started yet
    sem,            \* tokens in the channel sem
    wg,             \* counter of the wait group
    first_err,      \* firstErr: the binary it is about
    job,            \* binary -> what its goroutine is at
    failed          \* history: binaries whose process failed

flags == <<found, integration, parallel>>
vars == <<flags, pass, todo, sem, wg, first_err, job, failed>>

Passes == {"unit", "integration"}

\* A parallelism below 1 counts as 1; the integration pass gets 1.
Slots == IF pass = "unit" /\ parallel > 1 THEN parallel ELSE 1

-----------------------------------------------------------------------------
(***************************************************************************)
(* main.                                                                   *)
(***************************************************************************)

\* The directory cannot be read or holds no binary, or the integration
\* binary is not there; otherwise the unit pass begins, without it.
CollectTestBinaries ==
    /\ pass = "collect"
    /\ \/ /\ pass' = "fatal"
          /\ UNCHANGED todo
       \/ /\ found # {}
          /\ integration \in found \cup {NoBinary}
          /\ pass' = "unit"
          /\ todo' = found \ {integration}
    /\ UNCHANGED <<flags, sem, wg, first_err, job, failed>>

\* Mutant: the channel has one slot too many.
Spawn_OneMore(b) ==
    /\ pass \in Passes
    /\ b \in todo
    /\ sem <= Slots
    /\ todo' = todo \ {b}
    /\ wg' = wg + 1
    /\ sem' = sem + 1
    /\ job' = [job EXCEPT ![b] = "spawned"]
    /\ UNCHANGED <<flags, pass, first_err, failed>>

\* wg.Add and the send to sem, which waits for a slot, come before the
\* goroutine.
Spawn(b) ==
    /\ pass \in Passes
    /\ b \in todo
    /\ sem < Slots
    /\ todo' = todo \ {b}
    /\ wg' = wg + 1
    /\ sem' = sem + 1
    /\ job' = [job EXCEPT ![b] = "spawned"]
    /\ UNCHANGED <<flags, pass, first_err, failed>>

\* Mutant: the pass ends with the loop.
Wait_NoWait ==
    /\ pass \in Passes
    /\ todo = {}
    /\ IF first_err # NoBinary
       THEN pass' = "fatal" /\ UNCHANGED todo
       ELSE IF pass = "unit" /\ integration # NoBinary
       THEN pass' = "integration" /\ todo' = {integration}
       ELSE pass' = "passed" /\ UNCHANGED todo
    /\ UNCHANGED <<flags, sem, wg, first_err, job, failed>>

\* wg.Wait, the error of the pass, and what main does next.
Wait ==
    /\ pass \in Passes
    /\ todo = {}
    /\ wg = 0
    /\ IF first_err # NoBinary
       THEN pass' = "fatal" /\ UNCHANGED todo
       ELSE IF pass = "unit" /\ integration # NoBinary
       THEN pass' = "integration" /\ todo' = {integration}
       ELSE pass' = "passed" /\ UNCHANGED todo
    /\ UNCHANGED <<flags, sem, wg, first_err, job, failed>>

-----------------------------------------------------------------------------
(***************************************************************************)
(* The goroutine of binary b.                                              *)
(***************************************************************************)

Run(b) ==
    /\ job[b] = "spawned"
    /\ job' = [job EXCEPT ![b] = "running"]
    /\ UNCHANGED <<flags, pass, todo, sem, wg, first_err, failed>>

\* Mutant: firstErr takes the result of every process, nil too.
Finish_Overwrite(b) ==
    /\ job[b] = "running"
    /\ \/ /\ job' = [job EXCEPT ![b] = "release"]
          /\ first_err' = NoBinary
          /\ UNCHANGED failed
       \/ /\ job' = [job EXCEPT ![b] = "error"]
          /\ failed' = failed \cup {b}
          /\ UNCHANGED first_err
    /\ UNCHANGED <<flags, pass, todo, sem, wg>>

\* The process ends, well or not; one that cannot be started fails too.
Finish(b) ==
    /\ job[b] = "running"
    /\ \/ /\ job' = [job EXCEPT ![b] = "release"]
          /\ UNCHANGED failed
       \/ /\ job' = [job EXCEPT ![b] = "error"]
          /\ failed' = failed \cup {b}
    /\ UNCHANGED <<flags, pass, todo, sem, wg, first_err>>

\* Mutant: the error branch frees the slot, and the deferred receive again.
Record_Releases(b) ==
    /\ job[b] = "error"
    /\ first_err' = IF first_err = NoBinary THEN b ELSE first_err
    /\ sem' = sem - 1
    /\ job' = [job EXCEPT ![b] = "release"]
    /\ UNCHANGED <<flags, pass, todo, wg, failed>>

\* Mutant: the error branch returns, and the slot is not freed.
Record_Leaks(b) ==
    /\ job[b] = "error"
    /\ first_err' = IF first_err = NoBinary THEN b ELSE first_err
    /\ job' = [job EXCEPT ![b] = "done"]
    /\ UNCHANGED <<flags, pass, todo, sem, wg, failed>>

\* Under the mutex, the first error is kept.
Record(b) ==
    /\ job[b] = "error"
    /\ first_err' = IF first_err = NoBinary THEN b ELSE first_err
    /\ job' = [job EXCEPT ![b] = "release"]
    /\ UNCHANGED <<flags, pass, todo, sem, wg, failed>>

\* The deferred calls, last one first: the slot, then the wait group.
Release(b) ==
    /\ job[b] = "release"
    /\ sem' = sem - 1
    /\ job' = [job EXCEPT ![b] = "done"]
    /\ UNCHANGED <<flags, pass, todo, wg, first_err, failed>>

Done(b) ==
    /\ job[b] = "done"
    /\ wg' = wg - 1
    /\ job' = [job EXCEPT ![b] = "gone"]
    /\ UNCHANGED <<flags, pass, todo, sem, first_err, failed>>

-----------------------------------------------------------------------------
Init ==
    /\ found \in SUBSET Binary
    /\ integration \in Binary \cup {NoBinary}
    /\ parallel \in PkgParallel
    /\ pass = "collect"
    /\ todo = {}
    /\ sem = 0
    /\ wg = 0
    /\ first_err = NoBinary
    /\ job = [b \in Binary |-> "new"]
    /\ failed = {}

\* What the runner does by itself: everything but the end of a process.
Main == CollectTestBinaries \/ Wait \/ \E b \in Binary : Spawn(b)

Own(b) == Run(b) \/ Record(b) \/ Release(b) \/ Done(b)

Next == Main \/ \E b \in Binary : Own(b) \/ Finish(b)

Spec == Init /\ [][Next]_vars

\* The scheduler runs what is runnable; nothing is asked of the processes.
FairSpec ==
    /\ Spec
    /\ WF_vars(Main)
    /\ \A b \in Binary : WF_vars(Own(b))

-----------------------------------------------------------------------------
Running == {b \in Binary : job[b] = "running"}

\* The channel never holds more tokens than it has room for.
TypeOK ==
    /\ found \subseteq Binary
    /\ integration \in Binary \cup {NoBinary}
    /\ parallel \in PkgParallel
    /\ pass \in Passes \cup {"collect", "passed", "fatal"}
    /\ todo \subseteq found
    /\ sem \in 0 .. Slots
    /\ wg \in Nat
    /\ first_err \in Binary \cup {NoBinary}
    /\ job \in [Binary -> {"new", "spawned", "running", "error", "release",
                           "done", "gone"}]
    /\ failed \subseteq Binary

\* The processes side by side are never more than -pkg-parallel allows, a
\* flag below 1 counting as 1.
AtMostParallel ==
    Cardinality(Running) <= IF parallel > 1 THEN parallel ELSE 1

\* "force -test.parallel=1 for integration": the integration binary runs with
\* nothing beside it, once every goroutine of the unit pass has ended, and
\* only if none had failed.
IntegrationAlone ==
    integration \in Running =>
        /\ failed = {}
        /\ \A b \in found \ {integration} : job[b] = "gone"

\* The exit status is that of the tests: 0 only when every binary that was
\* found has run to its end and none failed, and an error is about a binary
\* that failed, whichever goroutine came first.
VerdictIsTrue ==
    /\ pass = "passed" => failed = {} /\ \A b \in found : job[b] = "gone"
    /\ first_err # NoBinary => first_err \in failed

\* A process that fails leaves its slot to the next binary: the runner comes
\* to an end if every process does.
RunnerReturns ==
    (\A b \in Binary : []<>(job[b] # "running")) => <>(pass \in {"passed", "fatal"})
=============================================================================
