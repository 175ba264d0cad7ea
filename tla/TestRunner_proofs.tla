-------------------------- MODULE TestRunner_proofs --------------------------
(***************************************************************************)
(* Proofs about TestRunner, for any set of binaries and any parallelism.   *)
(* The bound on the processes side by side is not inductive: sem must be   *)
(* known to count the goroutines that hold a slot, and the wait group      *)
(* those that have not ended, so that the pass changes (and with it the    *)
(* size of the channel) only when no slot is held.                         *)
(***************************************************************************)
EXTENDS TestRunner, FiniteSetTheorems, TLAPS

Holders == {b \in Binary : job[b] \in {"spawned", "running", "error", "release"}}

Alive == Holders \cup {b \in Binary : job[b] = "done"}

\* The token channel and the wait group count what they should.
CountInv ==
    /\ sem = Cardinality(Holders)
    /\ wg = Cardinality(Alive)

\* What is to be started is new, and what is not is of the pass's binaries.
TodoInv ==
    /\ \A b \in Binary : job[b] # "new" => b \in found
    /\ \A b \in todo : job[b] = "new"
    /\ pass = "collect" => \A b \in Binary : job[b] = "new"
    /\ pass \in Passes =>
          /\ \A b \in found \ {integration} : b \in todo \/ job[b] # "new"
          /\ integration \in found \cup {NoBinary}
    /\ pass = "unit" =>
          integration \notin todo /\ (integration # NoBinary => job[integration] = "new")
    /\ pass = "integration" =>
          /\ integration # NoBinary
          /\ todo \subseteq {integration}
          /\ integration \in todo \/ job[integration] # "new"
          /\ \A b \in found \ {integration} : job[b] = "gone" /\ b \notin failed
    /\ pass \in {"passed", "fatal"} => Alive = {}

\* A process that failed is known to main once its goroutine has recorded it.
FailedInv ==
    /\ \A b \in failed : job[b] \in {"error", "release", "done", "gone"}
    /\ \A b \in Binary : job[b] = "error" => b \in failed
    /\ first_err = NoBinary => \A b \in failed : job[b] = "error"

IInv == TypeOK /\ CountInv /\ TodoInv /\ FailedInv /\ VerdictIsTrue

-----------------------------------------------------------------------------
(***************************************************************************)
(* Counting.                                                               *)
(***************************************************************************)

\* Sets of binaries are finite and have a size.
LEMMA BinarySets ==
    ASSUME NEW S \in SUBSET Binary
    PROVE  IsFiniteSet(S) /\ Cardinality(S) \in Nat
  BY BinaryAssumption, FS_Subset, FS_CardinalityType

LEMMA HoldersFinite == IsFiniteSet(Holders) /\ IsFiniteSet(Alive)
  BY BinarySets DEF Holders, Alive

\* There is always room for one token.
LEMMA SlotsPositive ==
    ASSUME TypeOK
    PROVE  Slots \in Nat \ {0}
  BY ParallelAssumption DEF TypeOK, Slots

\* When the wait group is at zero nobody is alive and no slot is held.
LEMMA NobodyAlive ==
    ASSUME TypeOK, CountInv, wg = 0
    PROVE  Alive = {} /\ Holders = {} /\ sem = 0
  <1>1. Alive = {}
    BY HoldersFinite, FS_EmptySet DEF CountInv
  <1>2. Holders = {}
    BY <1>1 DEF Alive
  <1>. QED
    BY <1>1, <1>2, FS_EmptySet DEF CountInv

\* Before the first pass no slot is held.
LEMMA NothingHeldAtFirst ==
    ASSUME CountInv, TodoInv, pass = "collect"
    PROVE  Holders = {} /\ Alive = {} /\ sem = 0
  <1>1. Holders = {} /\ Alive = {}
    BY DEF TodoInv, Holders, Alive
  <1>. QED
    BY <1>1, FS_EmptySet DEF CountInv

\* A step of main that starts nothing leaves job, and so the sets, alone.
LEMMA SameJobs ==
    ASSUME UNCHANGED job
    PROVE  Holders' = Holders /\ Alive' = Alive
  BY DEF Holders, Alive

LEMMA CountStep ==
    ASSUME TypeOK, TodoInv, CountInv, [Next]_vars
    PROVE  CountInv'
  <1>0. CASE UNCHANGED vars
    BY <1>0, SameJobs DEF CountInv, vars
  <1>1. CASE CollectTestBinaries
    BY <1>1, SameJobs DEF CountInv, CollectTestBinaries
  <1>2. CASE Wait
    BY <1>2, SameJobs DEF CountInv, Wait
  <1>3. ASSUME NEW b \in Binary, Spawn(b)
        PROVE  CountInv'
    <2>1. job[b] = "new"
      BY <1>3 DEF Spawn, TodoInv
    <2>2. /\ Holders' = Holders \cup {b} /\ b \notin Holders
          /\ Alive' = Alive \cup {b} /\ b \notin Alive
      BY <1>3, <2>1 DEF Spawn, Holders, Alive, TypeOK
    <2>3. /\ Cardinality(Holders') = Cardinality(Holders) + 1
          /\ Cardinality(Alive') = Cardinality(Alive) + 1
      BY <2>2, HoldersFinite, FS_AddElement
    <2>. QED
      BY <1>3, <2>3 DEF CountInv, Spawn
  <1>4. ASSUME NEW b \in Binary, Run(b) \/ Finish(b) \/ Record(b)
        PROVE  CountInv'
    <2>1. Holders' = Holders /\ Alive' = Alive
      BY <1>4 DEF Run, Finish, Record, Holders, Alive, TypeOK
    <2>. QED
      BY <1>4, <2>1 DEF CountInv, Run, Finish, Record
  <1>5. ASSUME NEW b \in Binary, Release(b)
        PROVE  CountInv'
    <2>1. Holders' = Holders \ {b} /\ b \in Holders /\ Alive' = Alive
      BY <1>5 DEF Release, Holders, Alive, TypeOK
    <2>2. Cardinality(Holders') = Cardinality(Holders) - 1
      BY <2>1, HoldersFinite, FS_RemoveElement
    <2>. QED
      BY <1>5, <2>1, <2>2 DEF CountInv, Release
  <1>6. ASSUME NEW b \in Binary, Done(b)
        PROVE  CountInv'
    <2>1. Alive' = Alive \ {b} /\ b \in Alive /\ Holders' = Holders
      BY <1>6 DEF Done, Holders, Alive, TypeOK
    <2>2. Cardinality(Alive') = Cardinality(Alive) - 1
      BY <2>1, HoldersFinite, FS_RemoveElement
    <2>. QED
      BY <1>6, <2>1, <2>2 DEF CountInv, Done
  <1>. QED
    BY <1>0, <1>1, <1>2, <1>3, <1>4, <1>5, <1>6 DEF Next, Main, Own

-----------------------------------------------------------------------------
(***************************************************************************)
(* The other conjuncts of IInv.                                            *)
(***************************************************************************)

LEMMA TypeStep ==
    ASSUME TypeOK, CountInv, TodoInv, [Next]_vars
    PROVE  TypeOK'
  <1>0. CASE UNCHANGED vars
    BY <1>0 DEF TypeOK, vars, flags, Slots
  <1>1. CASE CollectTestBinaries
    <2>1. sem = 0
      BY <1>1, NothingHeldAtFirst DEF CollectTestBinaries
    <2>2. sem' \in 0 .. Slots'
      BY <1>1, <2>1, ParallelAssumption DEF CollectTestBinaries, TypeOK, flags, Slots
    <2>. QED
      BY <1>1, <2>2 DEF CollectTestBinaries, TypeOK, flags, Passes
  <1>2. CASE Wait
    <2>1. sem = 0
      BY <1>2, NobodyAlive DEF Wait
    <2>2. sem' \in 0 .. Slots'
      BY <1>2, <2>1, ParallelAssumption DEF Wait, TypeOK, flags, Slots
    <2>3. todo' \subseteq found'
      BY <1>2 DEF Wait, TypeOK, TodoInv, flags, Passes
    <2>. QED
      BY <1>2, <2>2, <2>3 DEF Wait, TypeOK, flags, Passes
  <1>3. ASSUME NEW b \in Binary, Spawn(b)
        PROVE  TypeOK'
    <2>1. sem' \in 0 .. Slots' /\ wg' \in Nat
      BY <1>3, SlotsPositive DEF Spawn, TypeOK, flags, Slots
    <2>. QED
      BY <1>3, <2>1 DEF Spawn, TypeOK, flags
  <1>4. ASSUME NEW b \in Binary, Run(b) \/ Finish(b) \/ Record(b)
        PROVE  TypeOK'
    <2>1. sem' \in 0 .. Slots' /\ wg' \in Nat
      BY <1>4 DEF Run, Finish, Record, TypeOK, flags, Slots
    <2>. QED
      BY <1>4, <2>1 DEF Run, Finish, Record, TypeOK, flags
  <1>5. ASSUME NEW b \in Binary, Release(b)
        PROVE  TypeOK'
    <2>1. CountInv'
      BY <1>5, CountStep DEF Next, Own
    <2>2. sem' \in Nat
      BY <2>1, BinarySets DEF CountInv, Holders
    <2>3. sem' \in 0 .. Slots'
      BY <1>5, <2>2, SlotsPositive DEF Release, TypeOK, flags, Slots
    <2>. QED
      BY <1>5, <2>3 DEF Release, TypeOK, flags
  <1>6. ASSUME NEW b \in Binary, Done(b)
        PROVE  TypeOK'
    <2>1. CountInv'
      BY <1>6, CountStep DEF Next, Own
    <2>2. wg' \in Nat
      BY <2>1, BinarySets DEF CountInv, Holders, Alive
    <2>3. sem' \in 0 .. Slots'
      BY <1>6 DEF Done, TypeOK, flags, Slots
    <2>. QED
      BY <1>6, <2>2, <2>3 DEF Done, TypeOK, flags
  <1>. QED
    BY <1>0, <1>1, <1>2, <1>3, <1>4, <1>5, <1>6 DEF Next, Main, Own

LEMMA FailedStep ==
    ASSUME TypeOK, TodoInv, FailedInv, [Next]_vars
    PROVE  FailedInv'
  <1>0. CASE UNCHANGED vars
    BY <1>0 DEF FailedInv, vars
  <1>1. CASE CollectTestBinaries
    BY <1>1 DEF FailedInv, CollectTestBinaries
  <1>2. CASE Wait
    BY <1>2 DEF FailedInv, Wait
  <1>3. ASSUME NEW b \in Binary, Spawn(b)
        PROVE  FailedInv'
    BY <1>3 DEF FailedInv, Spawn, TodoInv, TypeOK
  <1>4. ASSUME NEW b \in Binary, Run(b) \/ Release(b) \/ Done(b)
        PROVE  FailedInv'
    BY <1>4 DEF FailedInv, Run, Release, Done, TypeOK
  <1>5. ASSUME NEW b \in Binary, Finish(b)
        PROVE  FailedInv'
    BY <1>5 DEF FailedInv, Finish, TypeOK
  <1>6. ASSUME NEW b \in Binary, Record(b)
        PROVE  FailedInv'
    BY <1>6, BinaryAssumption DEF FailedInv, Record, TypeOK
  <1>. QED
    BY <1>0, <1>1, <1>2, <1>3, <1>4, <1>5, <1>6 DEF Next, Main, Own

LEMMA TodoStep ==
    ASSUME TypeOK, CountInv, TodoInv, FailedInv, [Next]_vars
    PROVE  TodoInv'
  <1>0. CASE UNCHANGED vars
    BY <1>0 DEF TodoInv, vars, flags, Alive, Holders
  <1>1. CASE CollectTestBinaries
    <2>1. Alive' = {}
      BY <1>1, SameJobs, NothingHeldAtFirst DEF CollectTestBinaries
    <2>. QED
      BY <1>1, <2>1, BinaryAssumption
      DEF CollectTestBinaries, TodoInv, TypeOK, flags, Passes
  <1>2. CASE Wait
    <2>1. Alive = {} /\ Alive' = {}
      BY <1>2, SameJobs, NobodyAlive DEF Wait
    <2>2. \A b \in Binary : job[b] \in {"new", "gone"}
      BY <2>1 DEF Alive, Holders, TypeOK
    <2>3. CASE pass' = "integration"
      <3>1. /\ pass = "unit" /\ integration # NoBinary
            /\ first_err = NoBinary /\ todo' = {integration}
        BY <1>2, <2>3 DEF Wait, Passes, TodoInv
      <3>2. \A b \in found \ {integration} : job[b] = "gone" /\ b \notin failed
        BY <1>2, <2>2, <3>1 DEF Wait, TodoInv, TypeOK, FailedInv, Passes
      <3>. QED
        BY <1>2, <2>3, <3>1, <3>2 DEF Wait, TodoInv, TypeOK, flags, Passes
    <2>4. CASE pass' # "integration"
      BY <1>2, <2>1, <2>4 DEF Wait, TodoInv, flags, Passes
    <2>. QED
      BY <2>3, <2>4
  <1>3. ASSUME NEW b \in Binary, Spawn(b)
        PROVE  TodoInv'
    BY <1>3 DEF Spawn, TodoInv, TypeOK, flags, Passes
  <1>4. ASSUME NEW b \in Binary, job[b] \in {"spawned", "running", "error", "release", "done"},
               job'[b] # "new", \A c \in Binary \ {b} : job'[c] = job[c],
               UNCHANGED <<flags, pass, todo>>, failed' \subseteq failed \cup {b}
        PROVE  TodoInv'
    <2>1. pass \in Passes /\ b \in found /\ b \notin todo
      BY <1>4 DEF TodoInv, TypeOK, Alive, Holders
    <2>. QED
      BY <1>4, <2>1 DEF TodoInv, TypeOK, flags, Passes
  <1>5. ASSUME NEW b \in Binary, Own(b) \/ Finish(b)
        PROVE  TodoInv'
    <2>1. job[b] \in {"spawned", "running", "error", "release", "done"}
      BY <1>5 DEF Own, Run, Record, Release, Done, Finish
    <2>2. job'[b] # "new" /\ \A c \in Binary \ {b} : job'[c] = job[c]
      BY <1>5 DEF Own, Run, Record, Release, Done, Finish, TypeOK
    <2>3. UNCHANGED <<flags, pass, todo>> /\ failed' \subseteq failed \cup {b}
      BY <1>5 DEF Own, Run, Record, Release, Done, Finish
    <2>. QED
      BY <1>4, <2>1, <2>2, <2>3
  <1>. QED
    BY <1>0, <1>1, <1>2, <1>3, <1>5 DEF Next, Main

LEMMA VerdictStep ==
    ASSUME TypeOK, CountInv, TodoInv, FailedInv, VerdictIsTrue, [Next]_vars
    PROVE  VerdictIsTrue'
  <1>0. CASE UNCHANGED vars
    BY <1>0 DEF VerdictIsTrue, vars, flags
  <1>1. CASE CollectTestBinaries
    BY <1>1 DEF VerdictIsTrue, CollectTestBinaries
  <1>2. CASE Wait
    <2>1. \A b \in Binary : job[b] \in {"new", "gone"}
      BY <1>2, NobodyAlive DEF Wait, Alive, Holders, TypeOK
    <2>2. CASE pass' = "passed"
      <3>1. first_err = NoBinary /\ todo = {} /\ pass \in Passes
        BY <1>2, <2>2 DEF Wait, Passes
      <3>2. failed = {}
        BY <2>1, <3>1 DEF FailedInv, TypeOK
      <3>3. \A b \in found : job[b] # "new"
        BY <1>2, <2>2, <3>1, BinaryAssumption DEF Wait, TodoInv, TypeOK, Passes
      <3>. QED
        BY <1>2, <2>1, <3>1, <3>2, <3>3 DEF Wait, VerdictIsTrue, TypeOK, flags
    <2>3. CASE pass' # "passed"
      BY <1>2, <2>3 DEF Wait, VerdictIsTrue
    <2>. QED
      BY <2>2, <2>3
  <1>3. ASSUME NEW b \in Binary, Spawn(b)
        PROVE  VerdictIsTrue'
    BY <1>3 DEF Spawn, VerdictIsTrue, Passes
  <1>4. ASSUME NEW b \in Binary, Own(b) \/ Finish(b)
        PROVE  VerdictIsTrue'
    <2>1. pass # "passed" /\ pass' = pass
      BY <1>4 DEF Own, Run, Record, Release, Done, Finish, TodoInv, Alive, Holders
    <2>2. first_err' # NoBinary => first_err' \in failed'
      BY <1>4 DEF Own, Run, Record, Release, Done, Finish, VerdictIsTrue, FailedInv, TypeOK
    <2>. QED
      BY <2>1, <2>2 DEF VerdictIsTrue
  <1>. QED
    BY <1>0, <1>1, <1>2, <1>3, <1>4 DEF Next, Main

-----------------------------------------------------------------------------
(***************************************************************************)
(* Results.                                                                *)
(***************************************************************************)

LEMMA InitIInv == Init => IInv
  <1>. SUFFICES ASSUME Init PROVE IInv
    OBVIOUS
  <1>1. Holders = {} /\ Alive = {}
    BY DEF Init, Holders, Alive
  <1>2. CountInv
    BY <1>1, FS_EmptySet DEF Init, CountInv
  <1>3. TypeOK
    BY ParallelAssumption DEF Init, TypeOK, Slots
  <1>. QED
    BY <1>2, <1>3 DEF Init, IInv, TodoInv, FailedInv, VerdictIsTrue, Passes

LEMMA NextIInv == IInv /\ [Next]_vars => IInv'
  BY TypeStep, CountStep, TodoStep, FailedStep, VerdictStep DEF IInv

\* The inductive invariant holds in every reachable state.
THEOREM Invariance == Spec => []IInv
  BY InitIInv, NextIInv, PTL DEF Spec

\* The channel never holds more tokens than it has room for, and the wait
\* group never drops below zero.
THEOREM TypeCorrect == Spec => []TypeOK
  <1>1. IInv => TypeOK
    BY DEF IInv
  <1>. QED
    BY <1>1, Invariance, PTL

\* The exit status is that of the tests, and the error is about one of them.
THEOREM Verdict == Spec => []VerdictIsTrue
  <1>1. IInv => VerdictIsTrue
    BY DEF IInv
  <1>. QED
    BY <1>1, Invariance, PTL

\* However many binaries there are, never more of their processes run side
\* by side than the flag allows.
THEOREM Bounded == Spec => []AtMostParallel
  <1>1. IInv => AtMostParallel
    <2>. SUFFICES ASSUME IInv PROVE AtMostParallel
      OBVIOUS
    <2>1. Running \subseteq Holders /\ IsFiniteSet(Holders)
      BY HoldersFinite DEF Running, Holders
    <2>2. Cardinality(Running) <= Cardinality(Holders)
      BY <2>1, FS_Subset
    <2>3. sem \in Int /\ sem <= Slots /\ Slots \in Int
      BY SlotsPositive DEF IInv, TypeOK
    <2>4. Slots <= IF parallel > 1 THEN parallel ELSE 1
      BY ParallelAssumption DEF Slots, IInv, TypeOK
    <2>5. Cardinality(Running) \in Nat /\ Cardinality(Holders) = sem
      BY BinarySets DEF Running, IInv, CountInv
    <2>. QED
      BY <2>2, <2>3, <2>4, <2>5, ParallelAssumption DEF AtMostParallel, IInv, TypeOK
  <1>. QED
    BY <1>1, Invariance, PTL

\* The integration binary runs alone, after a unit pass without a failure.
THEOREM Alone == Spec => []IntegrationAlone
  <1>1. IInv => IntegrationAlone
    <2>. SUFFICES ASSUME IInv, integration \in Running PROVE IntegrationAlone
      BY DEF IntegrationAlone
    <2>1. integration \in Alive /\ job[integration] = "running"
      BY DEF Running, Alive, Holders
    <2>2. pass = "integration"
      BY <2>1, BinaryAssumption DEF IInv, TodoInv, TypeOK, Running, Passes
    <2>3. integration \notin failed
      BY <2>1 DEF IInv, FailedInv
    <2>4. failed \subseteq found
      BY DEF IInv, TypeOK, FailedInv, TodoInv
    <2>. QED
      BY <2>2, <2>3, <2>4 DEF IInv, TodoInv, IntegrationAlone, Passes
  <1>. QED
    BY <1>1, Invariance, PTL
=============================================================================
