------------------------- MODULE FinalizationProofs -------------------------
(***************************************************************************)
(* Proofs about finalization, for every DAG, every number of concurrent    *)
(* queries, every oracle and every number of crashes.                      *)
(*                                                                         *)
(* A run carries, from the moment it computes what to finalize until it    *)
(* records it, a set of blocks (applied and batch) that other runs know    *)
(* nothing of.  The inductive invariant says what stays true of that set   *)
(* while others finalize: it is closed under parents up to finalized       *)
(* blocks, the part already worked off has its effects, and it covers what *)
(* a second pass would find.                                               *)
(***************************************************************************)
EXTENDS Finalization, FiniteSetTheorems, TLAPS

\* UnfinalizedAncestors as a function of the finalized set f.
Closes(s, f, b) == \A h \in s \cup {b} : Parents[h] \subseteq f \cup s

Ancestors(f, b) == {h \in Blocks : \A s \in SUBSET (Blocks \ f) : Closes(s, f, b) => h \in s}

\* What a run q satisfies when f is finalized and e has its effects.
RunShaped(q) ==
    /\ q.todo \subseteq q.batch
    /\ q.pc # "effect" => q.batch = {}
    /\ q.pc \notin {"effect", "reconcile", "record"} => q.applied = {}
    /\ q.pc = "record" => q.block \in q.applied

RunApplied(q, e) == q.applied \cup (q.batch \ q.todo) \subseteq e

RunClosed(q, f) ==
    \A h \in q.applied \cup q.batch : Parents[h] \subseteq f \cup q.applied \cup q.batch

RunCovers(q, f) ==
    /\ q.pc = "effect" =>
           q.applied = {} /\ {q.block} \cup Ancestors(f, q.block) \subseteq q.batch
    /\ q.pc = "reconcile" /\ q.applied # {} =>
           {q.block} \cup Ancestors(f, q.block) \subseteq q.applied

RunOK(q, f, e) == RunShaped(q) /\ RunApplied(q, e) /\ RunClosed(q, f) /\ RunCovers(q, f)

\* The part of the types that the argument needs.
Typed ==
    /\ run \in [Runs -> RunType]
    /\ dag \subseteq Blocks
    /\ finalized \subseteq Blocks
    /\ direct \subseteq Blocks
    /\ lfb \in Blocks
    /\ ft \in [Blocks -> 0..MaxFt]

RunsOK == \A r \in Runs : RunOK(run[r], finalized, effects)

\* The task flag is a single-flight guard: while it is clear the task has no run.
TaskGuarded == ~ taskInProgress => run[Task].pc = "idle"

FinInv ==
    /\ Typed
    /\ RunsOK
    /\ TaskGuarded
    /\ FinalizedHaveEffects
    /\ FinalizedClosed
    /\ LfbIsHighestDirect

-----------------------------------------------------------------------------
\* Lemmas on the ancestor walk.

\* The least set of unfinalized ancestors is itself closed under parents.
LEMMA AncestorsClosed ==
  ASSUME NEW f, NEW b \in Blocks
  PROVE  Closes(Ancestors(f, b), f, b)
<1> SUFFICES ASSUME NEW h \in Ancestors(f, b) \cup {b}, NEW p \in Parents[h],
                    p \notin f,
                    NEW s \in SUBSET (Blocks \ f), Closes(s, f, b)
             PROVE  p \in Blocks /\ p \in s
  BY BlocksAssumption DEF Closes, Ancestors
<1>1. h \in s \cup {b} /\ h \in Blocks
  BY DEF Ancestors
<1> QED
  BY <1>1, BlocksAssumption DEF Closes

\* Finalizing more blocks leaves fewer unfinalized ancestors to find.
LEMMA AncestorsShrink ==
  ASSUME NEW f, NEW f2, NEW b \in Blocks, f \subseteq f2
  PROVE  Ancestors(f2, b) \subseteq Ancestors(f, b)
<1> SUFFICES ASSUME NEW h \in Ancestors(f2, b),
                    NEW s \in SUBSET (Blocks \ f), Closes(s, f, b)
             PROVE  h \in Blocks /\ h \in s
  BY DEF Ancestors
<1> DEFINE u == s \ f2
<1>1. u \in SUBSET (Blocks \ f2)
  OBVIOUS
<1>2. Closes(u, f2, b)
  BY DEF Closes
<1> QED
  BY <1>1, <1>2 DEF Ancestors

\* The model's operator is this one at the current finalized set.
LEMMA AncestorsAre ==
  ASSUME NEW b \in Blocks
  PROVE  UnfinalizedAncestors(b) = Ancestors(finalized, b)
BY DEF UnfinalizedAncestors, UpClosed, Ancestors, Closes

\* What other runs finalize and carry out disturbs no run.
LEMMA RunOKKeeps ==
  ASSUME NEW q \in RunType, NEW f, NEW f2, NEW e, NEW e2,
         f \subseteq f2, e \subseteq e2, RunOK(q, f, e)
  PROVE  RunOK(q, f2, e2)
<1>1. q.block \in Blocks
  BY DEF RunType
<1>2. Ancestors(f2, q.block) \subseteq Ancestors(f, q.block)
  BY <1>1, AncestorsShrink
<1>3. RunApplied(q, e2)
  BY DEF RunOK, RunApplied
<1>4. RunClosed(q, f2)
  BY DEF RunOK, RunClosed
<1>5. RunCovers(q, f2)
  BY <1>2 DEF RunOK, RunCovers
<1> QED
  BY <1>3, <1>4, <1>5 DEF RunOK

\* A run with no batch, nothing applied and nothing to record.
LEMMA FreshRunOK ==
  ASSUME NEW q \in RunType, NEW f, NEW e,
         q.batch = {}, q.todo = {}, q.applied = {}, q.pc \notin {"effect", "record"}
  PROVE  RunOK(q, f, e)
BY DEF RunOK, RunShaped, RunApplied, RunClosed, RunCovers

-----------------------------------------------------------------------------
\* The idle run, and the idle run with a program counter and a value set.
LEMMA IdleTyped ==
  /\ IdleRun \in RunType
  /\ IdleRun.batch = {} /\ IdleRun.todo = {} /\ IdleRun.applied = {}
  /\ IdleRun.pc = "idle"
BY BlocksAssumption, FinalizerAssumption DEF IdleRun, Fresh, RunAt, RunType

\* A step of one run that finalizes nothing keeps the invariant when the run
\* itself stays in order.
LEMMA OneRunMoves ==
  ASSUME FinInv, NEW r \in Runs, NEW q \in RunType,
         run' = [run EXCEPT ![r] = q],
         UNCHANGED <<dag, finalized, direct, lfb>>,
         ft' \in [Blocks -> 0..MaxFt],
         effects \subseteq effects',
         RunOK(q, finalized, effects'),
         TaskGuarded'
  PROVE  FinInv'
<1>1. Typed'
  BY DEF FinInv, Typed
<1>2. RunsOK'
  <2> SUFFICES ASSUME NEW x \in Runs
               PROVE  RunOK(run'[x], finalized', effects')
    BY DEF RunsOK
  <2>1. CASE x = r
    BY <2>1 DEF FinInv, Typed
  <2>2. CASE x # r
    <3>1. run'[x] = run[x] /\ run[x] \in RunType
      BY <2>2 DEF FinInv, Typed
    <3>2. RunOK(run[x], finalized, effects')
      BY <3>1, RunOKKeeps DEF FinInv, RunsOK
    <3> QED
      BY <3>1, <3>2
  <2> QED
    BY <2>1, <2>2
<1>3. FinalizedHaveEffects' /\ FinalizedClosed' /\ LfbIsHighestDirect'
  BY DEF FinInv, FinalizedHaveEffects, FinalizedClosed, LfbIsHighestDirect
<1> QED
  BY <1>1, <1>2, <1>3 DEF FinInv

\* The invariant holds of the approved block alone.
LEMMA InitFinInv == Init => FinInv
<1> SUFFICES ASSUME Init
             PROVE  FinInv
  OBVIOUS
<1>1. Typed
  BY IdleTyped, BlocksAssumption, FinalizerAssumption DEF Init, Typed
<1>2. RunsOK
  <2> SUFFICES ASSUME NEW r \in Runs
               PROVE  RunOK(run[r], finalized, effects)
    BY DEF RunsOK
  <2> QED
    BY IdleTyped, FreshRunOK DEF Init
<1>3. FinalizedHaveEffects /\ FinalizedClosed /\ LfbIsHighestDirect /\ TaskGuarded
  BY BlocksAssumption, IdleTyped DEF Init, TaskGuarded, Runs, FinalizedHaveEffects, FinalizedClosed, LfbIsHighestDirect
<1> QED
  BY <1>1, <1>2, <1>3 DEF FinInv

-----------------------------------------------------------------------------
\* A run that has nothing in hand before or after its step.
LEMMA PlainMove ==
  ASSUME FinInv, NEW r \in Runs, NEW q \in RunType,
         run' = [run EXCEPT ![r] = q],
         UNCHANGED <<dag, finalized, direct, lfb, effects>>,
         ft' \in [Blocks -> 0..MaxFt],
         q.batch = {}, q.todo = {}, q.applied = {}, q.pc \notin {"effect", "record"},
         \/ r # Task /\ UNCHANGED taskInProgress
         \/ taskInProgress'
         \/ r = Task /\ q.pc = "idle"
  PROVE  FinInv'
<1>1. RunOK(q, finalized, effects')
  BY FreshRunOK
<1>2. TaskGuarded'
  <2>1. /\ r # Task => run'[Task] = run[Task]
        /\ r = Task => run'[Task] = q
    BY DEF FinInv, Typed, Runs
  <2> QED
    BY <2>1 DEF TaskGuarded, FinInv
<1> QED
  BY <1>1, <1>2, OneRunMoves

\* While the task runs, the flag is set.
LEMMA TaskRunning ==
  ASSUME FinInv, run[Task].pc # "idle"
  PROVE  taskInProgress
BY DEF FinInv, TaskGuarded

\* A run that neither computes, works off nor records a set has none in hand.
LEMMA NothingInHand ==
  ASSUME FinInv, NEW r \in Runs, run[r].pc \notin {"effect", "reconcile", "record"}
  PROVE  run[r].batch = {} /\ run[r].todo = {} /\ run[r].applied = {}
BY DEF FinInv, RunsOK, RunOK, RunShaped

\* An insertion of a block, or a request that only sets the queued flag.
LEMMA RunsUntouched ==
  ASSUME FinInv, UNCHANGED <<finalized, direct, lfb, ft, effects, taskInProgress, run>>,
         dag' \subseteq Blocks
  PROVE  FinInv'
BY DEF FinInv, Typed, RunsOK, TaskGuarded, FinalizedHaveEffects, FinalizedClosed,
       LfbIsHighestDirect

\* handle_valid_block starts the task only when the flag is clear.
LEMMA UpdateStep ==
  ASSUME FinInv, NEW b \in Blocks, UpdateLastFinalizedBlock(b)
  PROVE  FinInv'
<1>1. CASE taskInProgress
  BY <1>1, RunsUntouched DEF UpdateLastFinalizedBlock, metadata, FinInv, Typed
<1>2. CASE ~ taskInProgress
  <2> DEFINE q == [run[Task] EXCEPT !.pc = "start"]
  <2>1. Task \in Runs /\ run[Task] \in RunType /\ run[Task].pc = "idle"
    BY <1>2 DEF FinInv, Typed, TaskGuarded, Runs
  <2>2. q \in RunType /\ q.pc = "start" /\ q.batch = {} /\ q.todo = {} /\ q.applied = {}
    BY <2>1, NothingInHand DEF RunType
  <2>3. /\ run' = [run EXCEPT ![Task] = q] /\ taskInProgress'
        /\ UNCHANGED <<dag, finalized, direct, lfb, effects, ft>>
    BY <1>2 DEF UpdateLastFinalizedBlock, metadata
  <2> HIDE DEF q
  <2> QED
    BY <2>1, <2>2, <2>3, PlainMove DEF FinInv, Typed
<1> QED
  BY <1>1, <1>2

\* A query starts a run of its own.
LEMMA QueryStep ==
  ASSUME FinInv, NEW r \in Queries, QueryLastFinalizedBlock(r)
  PROVE  FinInv'
<1> DEFINE q == [run[r] EXCEPT !.pc = "start"]
<1>1. r \in Runs /\ r # Task /\ run[r] \in RunType /\ run[r].pc = "idle"
  BY FinalizerAssumption DEF FinInv, Typed, Runs, QueryLastFinalizedBlock
<1>2. q \in RunType /\ q.pc = "start" /\ q.batch = {} /\ q.todo = {} /\ q.applied = {}
  BY <1>1, NothingInHand DEF RunType
<1>3. /\ run' = [run EXCEPT ![r] = q]
      /\ UNCHANGED <<dag, finalized, direct, lfb, effects, ft, taskInProgress>>
  BY DEF QueryLastFinalizedBlock, metadata, flags
<1> HIDE DEF q
<1> QED
  BY <1>1, <1>2, <1>3, PlainMove DEF FinInv, Typed

\* A new run is well typed and has nothing in hand.
LEMMA AtTyped ==
  ASSUME NEW pc \in {"idle", "start", "reconcile", "done", "propagate", "release"},
         NEW b \in Blocks, NEW v \in 0..MaxFt
  PROVE  /\ RunAt(pc, b, v) \in RunType
         /\ RunAt(pc, b, v).pc = pc
         /\ RunAt(pc, b, v).batch = {} /\ RunAt(pc, b, v).todo = {} /\ RunAt(pc, b, v).applied = {}
BY DEF RunAt, RunType

\* The steps after which a run has nothing in hand.
LEMMA LightStep ==
  ASSUME FinInv, NEW r \in Runs,
         \/ TakeSnapshot(r)
         \/ \E b \in Blocks, v \in 1..MaxFt : Found(r, b, v)
         \/ NotFound(r)
         \/ EffectFails(r)
         \/ PropagateFt(r)
         \/ Finish(r)
  PROVE  FinInv'
<1>1. run \in [Runs -> RunType] /\ run[r] \in RunType /\ Genesis \in Blocks
  BY BlocksAssumption DEF FinInv, Typed
<1>2. /\ run[r].pc \in {"start", "search", "effect", "propagate", "done"}
      /\ UNCHANGED <<dag, finalized, direct, lfb, effects, taskInProgress>>
  BY DEF TakeSnapshot, Found, NotFound, EffectFails, PropagateFt, Finish, metadata, flags
<1>3. r = Task => taskInProgress'
  BY <1>2, TaskRunning
<1>4. ft' \in [Blocks -> 0..MaxFt]
  <2>1. ft \in [Blocks -> 0..MaxFt]
    BY DEF FinInv, Typed
  <2>2. CASE PropagateFt(r)
    <3>1. run[r].ft \in 0..MaxFt
      BY <1>1 DEF RunType
    <3> QED
      BY <2>1, <2>2, <3>1 DEF PropagateFt, RaisedFt
  <2> QED
    BY <2>1, <2>2 DEF TakeSnapshot, Found, NotFound, EffectFails, Finish, metadata
<1>5. PICK q \in RunType :
          /\ run' = [run EXCEPT ![r] = q]
          /\ q.batch = {} /\ q.todo = {} /\ q.applied = {}
          /\ q.pc \notin {"effect", "record"}
  <2>1. CASE TakeSnapshot(r)
    <3> DEFINE q == [run[r] EXCEPT !.pc = "search", !.known = dag, !.height = Height[lfb]]
    <3>1. dag \in SUBSET Blocks /\ Height[lfb] \in Nat
      BY BlocksAssumption DEF FinInv, Typed
    <3>2. run[r].batch = {} /\ run[r].todo = {} /\ run[r].applied = {}
      BY <2>1, NothingInHand DEF TakeSnapshot
    <3>3. q \in RunType
      BY <1>1, <3>1 DEF RunType
    <3>4. q.pc = "search" /\ q.batch = {} /\ q.todo = {} /\ q.applied = {}
      BY <1>1, <3>2 DEF RunType
    <3>5. run' = [run EXCEPT ![r] = q]
      BY <2>1 DEF TakeSnapshot
    <3> HIDE DEF q
    <3> QED
      BY <3>3, <3>4, <3>5
  <2>2. ASSUME NEW b \in Blocks, NEW v \in 1..MaxFt, Found(r, b, v)
        PROVE  \E q \in RunType :
                  /\ run' = [run EXCEPT ![r] = q]
                  /\ q.batch = {} /\ q.todo = {} /\ q.applied = {}
                  /\ q.pc \notin {"effect", "record"}
    <3>1. v \in 0..MaxFt /\ 0 \in 0..MaxFt
      BY FinalizerAssumption
    <3>2. CASE b \in finalized
      <4>1. run' = [run EXCEPT ![r] = RunAt("done", Genesis, 0)]
        BY <2>2, <3>2 DEF Found, Fresh
      <4> QED
        BY <1>1, <3>1, <4>1, AtTyped
    <3>3. CASE b \notin finalized
      <4>1. run' = [run EXCEPT ![r] = RunAt("reconcile", b, v)]
        BY <2>2, <3>3 DEF Found
      <4> QED
        BY <1>1, <3>1, <4>1, AtTyped
    <3> QED
      BY <3>2, <3>3
  <2>3. CASE NotFound(r) \/ EffectFails(r) \/ PropagateFt(r) \/ Finish(r)
    <3>1. /\ 0 \in 0..MaxFt
          /\ \/ run' = [run EXCEPT ![r] = RunAt("idle", Genesis, 0)]
             \/ run' = [run EXCEPT ![r] = RunAt("start", Genesis, 0)]
             \/ run' = [run EXCEPT ![r] = RunAt("done", Genesis, 0)]
             \/ run' = [run EXCEPT ![r] = RunAt("release", Genesis, 0)]
      BY <2>3, FinalizerAssumption DEF NotFound, EffectFails, PropagateFt, Finish,
             Fresh, IdleRun
    <3> QED
      BY <1>1, <3>1, AtTyped
  <2> QED
    BY <2>1, <2>2, <2>3
<1> QED
  BY <1>2, <1>3, <1>4, <1>5, PlainMove

\* The task clears its flag and is idle.
LEMMA ReleaseStep ==
  ASSUME FinInv, Release
  PROVE  FinInv'
<1>1. Task \in Runs /\ 0 \in 0..MaxFt /\ Genesis \in Blocks
  BY BlocksAssumption, FinalizerAssumption DEF Runs
<1>2. run' = [run EXCEPT ![Task] = RunAt("idle", Genesis, 0)]
  BY DEF Release, IdleRun, Fresh
<1>3. UNCHANGED <<dag, finalized, direct, lfb, effects, ft>>
  BY DEF Release, metadata
<1>4. ft' \in [Blocks -> 0..MaxFt]
  BY <1>3 DEF FinInv, Typed
<1> DEFINE q == RunAt("idle", Genesis, 0)
<1>5. /\ q \in RunType /\ q.pc = "idle"
      /\ q.batch = {} /\ q.todo = {} /\ q.applied = {}
  BY <1>1, AtTyped
<1> HIDE DEF q
<1>6. run' = [run EXCEPT ![Task] = q]
  BY <1>2 DEF q
<1> QED
  BY <1>1, <1>3, <1>4, <1>5, <1>6, PlainMove

\* A pass of the reconcile loop: the first takes the block and its unfinalized
\* ancestors, the second finds them all applied.
LEMMA ReconcileStep ==
  ASSUME FinInv, NEW r \in Runs, Reconcile(r)
  PROVE  FinInv'
<1> DEFINE b       == run[r].block
           cover   == {b} \cup Ancestors(finalized, b)
           pending == cover \ run[r].applied
           q       == [run[r] EXCEPT !.pc    = IF pending = {} THEN "record" ELSE "effect",
                                     !.batch = pending,
                                     !.todo  = pending]
<1>1. /\ run \in [Runs -> RunType] /\ run[r] \in RunType /\ b \in Blocks
      /\ run[r].pc = "reconcile" /\ RunOK(run[r], finalized, effects)
  BY DEF FinInv, Typed, RunType, Reconcile, RunsOK
<1>2. cover \in SUBSET Blocks /\ b \in cover
  BY <1>1 DEF Ancestors
<1>3. run' = [run EXCEPT ![r] = q]
  BY <1>1, AncestorsAre DEF Reconcile
<1>4. /\ UNCHANGED <<dag, finalized, direct, lfb, effects, ft, taskInProgress>>
      /\ ft \in [Blocks -> 0..MaxFt]
  BY DEF Reconcile, metadata, flags, FinInv, Typed
<1>5. \A h \in cover : Parents[h] \subseteq finalized \cup cover
  BY <1>1, AncestorsClosed DEF Closes
<1>6. /\ q \in RunType
      /\ q.pc = (IF pending = {} THEN "record" ELSE "effect")
      /\ q.batch = pending /\ q.todo = pending
      /\ q.applied = run[r].applied /\ q.block = b
  BY <1>1, <1>2 DEF RunType
<1>7. RunOK(q, finalized, effects)
  <2>1. CASE run[r].applied = {}
    <3>1. pending = cover /\ pending # {}
      BY <2>1, <1>2
    <3>2. q.pc = "effect" /\ q.applied = {} /\ q.batch = cover /\ q.todo = cover
      BY <2>1, <3>1, <1>6
    <3> HIDE DEF q, pending
    <3>3. RunShaped(q) /\ RunApplied(q, effects)
      BY <3>2 DEF RunShaped, RunApplied
    <3>4. RunClosed(q, finalized)
      BY <3>2, <1>5 DEF RunClosed
    <3>5. RunCovers(q, finalized)
      BY <3>2, <1>6 DEF RunCovers
    <3> QED
      BY <3>3, <3>4, <3>5 DEF RunOK
  <2>2. CASE run[r].applied # {}
    <3>1. cover \subseteq run[r].applied
      BY <2>2, <1>1 DEF RunOK, RunCovers
    <3>2. /\ q.pc = "record" /\ q.applied = run[r].applied
          /\ q.batch = {} /\ q.todo = {} /\ q.block \in q.applied
      BY <3>1, <1>6, <1>2
    <3>3. run[r].batch = {}
      BY <1>1 DEF RunOK, RunShaped
    <3> HIDE DEF q, pending
    <3> QED
      BY <3>2, <3>3, <1>1 DEF RunOK, RunShaped, RunApplied, RunClosed, RunCovers
  <2> QED
    BY <2>1, <2>2
<1>8. TaskGuarded'
  <2>1. r = Task => taskInProgress
    BY <1>1, TaskRunning
  <2>2. r # Task => run'[Task] = run[Task]
    BY <1>1, <1>3 DEF Runs
  <2> QED
    BY <2>1, <2>2, <1>4 DEF TaskGuarded, FinInv
<1> HIDE DEF q
<1> QED
  BY <1>3, <1>4, <1>6, <1>7, <1>8, OneRunMoves

\* An effect moves its block to the part that is worked off; after the last one
\* the whole batch is applied and covers what the next pass will look for.
LEMMA EffectStep ==
  ASSUME FinInv, NEW r \in Runs, NEW b \in Blocks, EffectOn(r, b)
  PROVE  FinInv'
<1> DEFINE last == run[r].todo = {b}
           q    == [run[r] EXCEPT
                      !.todo    = run[r].todo \ {b},
                      !.pc      = IF last THEN "reconcile" ELSE run[r].pc,
                      !.batch   = IF last THEN {} ELSE run[r].batch,
                      !.applied = IF last THEN run[r].applied \cup run[r].batch
                                          ELSE run[r].applied]
<1>1. /\ run \in [Runs -> RunType] /\ run[r] \in RunType
      /\ run[r].pc = "effect" /\ RunOK(run[r], finalized, effects)
  BY DEF FinInv, Typed, EffectOn, RunsOK
<1>2. run' = [run EXCEPT ![r] = q]
  BY <1>1 DEF EffectOn
<1>3. /\ UNCHANGED <<dag, finalized, direct, lfb, ft, taskInProgress>>
      /\ effects' = effects \cup {b} /\ ft \in [Blocks -> 0..MaxFt]
  BY DEF EffectOn, metadata, flags, FinInv, Typed
<1>4. /\ q \in RunType
      /\ q.todo = run[r].todo \ {b} /\ q.block = run[r].block
      /\ q.pc = (IF last THEN "reconcile" ELSE "effect")
      /\ q.batch = (IF last THEN {} ELSE run[r].batch)
      /\ q.applied = (IF last THEN run[r].applied \cup run[r].batch ELSE run[r].applied)
  BY <1>1 DEF RunType
<1>5. RunOK(q, finalized, effects')
  <2> HIDE DEF q
  <2>1. RunShaped(q)
    BY <1>1, <1>4 DEF RunOK, RunShaped
  <2>2. RunApplied(q, effects')
    BY <1>1, <1>3, <1>4 DEF RunOK, RunApplied, RunShaped
  <2>3. RunClosed(q, finalized)
    BY <1>1, <1>4 DEF RunOK, RunClosed
  <2>4. RunCovers(q, finalized)
    BY <1>1, <1>4 DEF RunOK, RunCovers
  <2> QED
    BY <2>1, <2>2, <2>3, <2>4 DEF RunOK
<1>6. TaskGuarded'
  <2>1. r = Task => taskInProgress
    BY <1>1, TaskRunning
  <2>2. r # Task => run'[Task] = run[Task]
    BY <1>1, <1>2 DEF Runs
  <2> QED
    BY <2>1, <2>2, <1>3 DEF TaskGuarded, FinInv
<1> HIDE DEF q
<1> QED
  BY <1>2, <1>3, <1>4, <1>5, <1>6, OneRunMoves

\* Raising fault tolerances gives fault tolerances, none of them lower.
LEMMA RaisedFtTyped ==
  ASSUME ft \in [Blocks -> 0..MaxFt], NEW s, NEW v \in 0..MaxFt
  PROVE  /\ RaisedFt(s, v) \in [Blocks -> 0..MaxFt]
         /\ \A b \in Blocks : ft[b] <= RaisedFt(s, v)[b]
BY FinalizerAssumption DEF RaisedFt

\* Recording: the applied set has its effects and is closed, so adding it keeps
\* the finalized set closed and within the blocks with effects.
LEMMA RecordStep ==
  ASSUME FinInv, NEW r \in Runs, RecordFinalized(r)
  PROVE  FinInv'
<1> DEFINE b == run[r].block
           q == RunAt("propagate", Genesis, run[r].ft)
<1>1. /\ run \in [Runs -> RunType] /\ run[r] \in RunType /\ b \in Blocks
      /\ run[r].ft \in 0..MaxFt /\ run[r].applied \subseteq Blocks
      /\ run[r].pc = "record" /\ RunOK(run[r], finalized, effects)
  BY DEF FinInv, Typed, RunType, RecordFinalized, RunsOK
<1>2. b \in run[r].applied /\ run[r].batch = {} /\ run[r].applied \subseteq effects
  BY <1>1 DEF RunOK, RunShaped, RunApplied
<1>3. /\ finalized' = finalized \cup run[r].applied
      /\ direct' = direct \cup {b} /\ lfb' = NewLfb(b)
      /\ ft' = RaisedFt(run[r].applied \cup {b}, run[r].ft)
      /\ run' = [run EXCEPT ![r] = q]
      /\ UNCHANGED <<dag, effects, taskInProgress>>
  BY <1>2 DEF RecordFinalized, flags
<1>4. q \in RunType /\ RunOK(q, finalized', effects')
  <2>1. Genesis \in Blocks
    BY BlocksAssumption
  <2>2. /\ q \in RunType /\ q.pc = "propagate"
        /\ q.batch = {} /\ q.todo = {} /\ q.applied = {}
    BY <1>1, <2>1, AtTyped
  <2> HIDE DEF q
  <2> QED
    BY <2>2, FreshRunOK
<1>5. Typed'
  <2>1. ft' \in [Blocks -> 0..MaxFt]
    BY <1>1, <1>3, RaisedFtTyped DEF FinInv, Typed
  <2> HIDE DEF q
  <2> QED
    BY <2>1, <1>1, <1>3, <1>4 DEF FinInv, Typed, NewLfb
<1>6. RunsOK'
  <2> SUFFICES ASSUME NEW x \in Runs
               PROVE  RunOK(run'[x], finalized', effects')
    BY DEF RunsOK
  <2>1. CASE x = r
    BY <2>1, <1>1, <1>3, <1>4
  <2>2. CASE x # r
    <3>1. run'[x] = run[x] /\ run[x] \in RunType /\ RunOK(run[x], finalized, effects)
      BY <2>2, <1>1, <1>3 DEF FinInv, RunsOK
    <3> QED
      BY <3>1, <1>3, RunOKKeeps
  <2> QED
    BY <2>1, <2>2
<1>7. TaskGuarded'
  <2>1. r = Task => taskInProgress
    BY <1>1, TaskRunning
  <2>2. r # Task => run'[Task] = run[Task]
    BY <1>1, <1>3 DEF Runs
  <2> QED
    BY <2>1, <2>2, <1>3 DEF TaskGuarded, FinInv
<1>8. FinalizedHaveEffects'
  BY <1>2, <1>3 DEF FinInv, FinalizedHaveEffects
<1>9. FinalizedClosed'
  <2>1. \A h \in run[r].applied : Parents[h] \subseteq finalized \cup run[r].applied
    BY <1>1, <1>2 DEF RunOK, RunClosed
  <2> QED
    BY <2>1, <1>3 DEF FinInv, FinalizedClosed
<1>10. LfbIsHighestDirect'
  <2>1. /\ lfb \in direct /\ lfb \in Blocks /\ direct \subseteq Blocks
        /\ \A d \in direct : Height[d] <= Height[lfb]
    BY DEF FinInv, Typed, LfbIsHighestDirect
  <2>2. \A d \in Blocks : Height[d] \in Nat
    BY BlocksAssumption
  <2> QED
    BY <2>1, <2>2, <1>1, <1>3 DEF LfbIsHighestDirect, NewLfb
<1> QED
  BY <1>5, <1>6, <1>7, <1>8, <1>9, <1>10 DEF FinInv

\* A restart forgets the runs and recovers a highest directly finalized block.
LEMMA RestartStep ==
  ASSUME FinInv, Restart
  PROVE  FinInv'
<1>1. /\ run' = [r \in Runs |-> IdleRun]
      /\ UNCHANGED <<dag, finalized, direct, ft, effects>>
      /\ lfb' \in direct /\ \A d \in direct : Height[d] <= Height[lfb']
  BY DEF Restart
<1>2. Typed' /\ LfbIsHighestDirect'
  BY <1>1, IdleTyped DEF FinInv, Typed, LfbIsHighestDirect
<1>3. RunsOK' /\ TaskGuarded'
  <2>1. \A r \in Runs : RunOK(run'[r], finalized', effects')
    BY <1>1, IdleTyped, FreshRunOK
  <2>2. run'[Task].pc = "idle"
    BY <1>1, IdleTyped DEF Runs
  <2> QED
    BY <2>1, <2>2 DEF RunsOK, TaskGuarded
<1>4. FinalizedHaveEffects' /\ FinalizedClosed'
  BY <1>1 DEF FinInv, FinalizedHaveEffects, FinalizedClosed
<1> QED
  BY <1>2, <1>3, <1>4 DEF FinInv

\* Every step keeps the invariant.
LEMMA NextFinInv == FinInv /\ [Next]_vars => FinInv'
<1> SUFFICES ASSUME FinInv, [Next]_vars
             PROVE  FinInv'
  OBVIOUS
<1>1. ASSUME NEW b \in Blocks, Insert(b)
      PROVE  FinInv'
  BY <1>1, RunsUntouched DEF Insert, metadata, flags, FinInv, Typed
<1>4. ASSUME NEW b \in Blocks, QueueRun(b)
      PROVE  FinInv'
  BY <1>4, RunsUntouched DEF QueueRun, metadata, FinInv, Typed
<1>2. ASSUME NEW r \in Runs, RunStep(r)
      PROVE  FinInv'
  BY <1>2, LightStep, ReconcileStep, EffectStep, RecordStep DEF RunStep
<1>3. CASE UNCHANGED vars
  BY <1>3, RunsUntouched DEF vars, FinInv, Typed
<1> QED
  BY <1>1, <1>2, <1>3, <1>4, UpdateStep, QueryStep, ReleaseStep, RestartStep DEF Next

\* The invariant holds of every behaviour.
LEMMA SpecFinInv == Spec => []FinInv
BY InitFinInv, NextFinInv, PTL DEF Spec

-----------------------------------------------------------------------------
\* A finalized block has had its effects: record_directly_finalized runs them
\* before it writes, whatever fails, crashes or runs beside it.
THEOREM FinalizedBlocksHaveEffects == Spec => []FinalizedHaveEffects
<1>1. FinInv => FinalizedHaveEffects
  BY DEF FinInv
<1> QED
  BY <1>1, SpecFinInv, PTL

\* The finalized set is closed under parents, so the ancestor walk of
\* record_directly_finalized misses nothing by stopping at finalized blocks.
THEOREM FinalizedSetClosed == Spec => []FinalizedClosed
<1>1. FinInv => FinalizedClosed
  BY DEF FinInv
<1> QED
  BY <1>1, SpecFinInv, PTL

\* The last finalized block in memory is a highest directly finalized block of
\* the store, however concurrent runs order their records.
THEOREM LfbHighest == Spec => []LfbIsHighestDirect
<1>1. FinInv => LfbIsHighestDirect
  BY DEF FinInv
<1> QED
  BY <1>1, SpecFinInv, PTL

\* The reconcile loop of record_directly_finalized ends with its second pass:
\* effects are carried out in the first only.
THEOREM OnePassOfEffects == Spec => []SecondPassFindsNothing
<1>1. FinInv => SecondPassFindsNothing
  BY DEF FinInv, RunsOK, RunOK, RunCovers, SecondPassFindsNothing
<1> QED
  BY <1>1, SpecFinInv, PTL

\* The last finalized block never moves down, in a run or across a restart.
THEOREM LfbMonotone == Spec => LfbNeverRegresses
<1>1. FinInv /\ [Next]_vars => [Height[lfb] <= Height[lfb']]_vars
  <2> SUFFICES ASSUME FinInv, Next
               PROVE  Height[lfb] <= Height[lfb']
    OBVIOUS
  <2>1. Height[lfb] \in Nat
    BY BlocksAssumption DEF FinInv, Typed
  <2>2. ASSUME NEW r \in Runs, RecordFinalized(r)
        PROVE  Height[lfb] <= Height[lfb']
    <3>1. run[r].block \in Blocks /\ lfb' = NewLfb(run[r].block)
      BY <2>2 DEF FinInv, Typed, RunType, RecordFinalized
    <3> QED
      BY <2>1, <3>1, BlocksAssumption DEF NewLfb
  <2>3. CASE Restart
    BY <2>3 DEF FinInv, LfbIsHighestDirect, Restart
  <2>4. CASE UNCHANGED lfb
    BY <2>1, <2>4
  <2> QED
    BY <2>2, <2>3, <2>4 DEF Next, RunStep, Insert, UpdateLastFinalizedBlock, QueueRun,
       QueryLastFinalizedBlock, TakeSnapshot, Found, NotFound, Reconcile, EffectOn,
       EffectFails, PropagateFt, Finish, Release, metadata
<1> QED
  BY <1>1, SpecFinInv, PTL DEF Spec, LfbNeverRegresses

\* A recorded fault tolerance never falls.
THEOREM FtMonotone == Spec => FtNeverFalls
<1>1. FinInv /\ [Next]_vars => [\A b \in Blocks : ft[b] <= ft'[b]]_vars
  <2> SUFFICES ASSUME FinInv, Next
               PROVE  \A b \in Blocks : ft[b] <= ft'[b]
    OBVIOUS
  <2>1. ft \in [Blocks -> 0..MaxFt]
    BY DEF FinInv, Typed
  <2>2. ASSUME NEW r \in Runs, RecordFinalized(r) \/ PropagateFt(r)
        PROVE  \A b \in Blocks : ft[b] <= ft'[b]
    <3>1. run[r].ft \in 0..MaxFt
      BY DEF FinInv, Typed, RunType
    <3>2. \E s : ft' = RaisedFt(s, run[r].ft)
      BY <2>2 DEF RecordFinalized, PropagateFt
    <3> QED
      BY <2>1, <3>1, <3>2, RaisedFtTyped
  <2>3. CASE UNCHANGED ft
    BY <2>1, <2>3, FinalizerAssumption
  <2> QED
    BY <2>2, <2>3 DEF Next, RunStep, Insert, UpdateLastFinalizedBlock, QueueRun,
       QueryLastFinalizedBlock, TakeSnapshot, Found, NotFound, Reconcile, EffectOn,
       EffectFails, Finish, Release, Restart, metadata
<1> QED
  BY <1>1, SpecFinInv, PTL DEF Spec, FtNeverFalls
-----------------------------------------------------------------------------
\* What is directly finalized is finalized: both are written in one put.
DirectFinalized == direct \subseteq finalized

\* Directly finalized blocks stay within the finalized ones.
LEMMA SpecDirectFinalized == Spec => []DirectFinalized
<1>1. Init => DirectFinalized
  BY DEF Init, DirectFinalized
<1>2. DirectFinalized /\ [Next]_vars => DirectFinalized'
  <2> SUFFICES ASSUME DirectFinalized, [Next]_vars
               PROVE  DirectFinalized'
    OBVIOUS
  <2>1. ASSUME NEW r \in Runs, RecordFinalized(r)
        PROVE  DirectFinalized'
    BY <2>1 DEF DirectFinalized, RecordFinalized
  <2>2. CASE UNCHANGED <<direct, finalized>>
    BY <2>2 DEF DirectFinalized
  <2> QED
    BY <2>1, <2>2 DEF Next, RunStep, Insert, UpdateLastFinalizedBlock, QueueRun,
       QueryLastFinalizedBlock, TakeSnapshot, Found, NotFound, Reconcile, EffectOn,
       EffectFails, PropagateFt, Finish, Release, Restart, metadata, vars
<1> QED
  BY <1>1, <1>2, PTL DEF Spec

\* Every step of finalization is a step of MonotoneFinality or leaves what it
\* speaks of alone.
LEMMA FinalityStep ==
  ASSUME FinInv, DirectFinalized, [Next]_vars
  PROVE  [Finality!Next]_(Finality!vars)
<1>1. ASSUME NEW r \in Runs, NEW b \in Blocks, EffectOn(r, b)
      PROVE  Finality!Announce(b)
  BY <1>1 DEF EffectOn, metadata, Finality!Announce
<1>2. ASSUME NEW r \in Runs, RecordFinalized(r)
      PROVE  \E b \in Blocks : \E s \in SUBSET Blocks : Finality!Record(b, s)
  <2> DEFINE b == run[r].block
             s == run[r].applied
  <2>1. /\ run[r] \in RunType /\ run[r].pc = "record"
        /\ RunOK(run[r], finalized, effects)
    BY <1>2 DEF FinInv, Typed, RunsOK, RecordFinalized
  <2>2. /\ b \in Blocks /\ s \in SUBSET Blocks /\ b \in s
        /\ s \subseteq effects
        /\ \A h \in s : Parents[h] \subseteq finalized \cup s
    BY <2>1 DEF RunType, RunOK, RunShaped, RunApplied, RunClosed
  <2>3. /\ finalized' = finalized \cup s
        /\ lfb' = IF Height[lfb] <= Height[b] THEN b ELSE lfb
        /\ effects' = effects
    BY <1>2, <2>2 DEF RecordFinalized, NewLfb
  <2> HIDE DEF b, s
  <2>4. Finality!Record(b, s)
    BY <2>2, <2>3 DEF Finality!Record
  <2> QED
    BY <2>2, <2>4
<1>3. ASSUME Restart
      PROVE  \E b \in Blocks : Finality!Recover(b)
  <2>1. /\ lfb' \in direct /\ \A d \in direct : Height[d] <= Height[lfb']
        /\ lfb \in direct /\ \A d \in direct : Height[d] <= Height[lfb]
        /\ lfb' \in Blocks /\ lfb \in Blocks
    BY <1>3 DEF Restart, FinInv, Typed, LfbIsHighestDirect
  <2>2. Height[lfb'] = Height[lfb]
    BY <2>1, BlocksAssumption
  <2>3. Finality!Recover(lfb')
    BY <1>3, <2>1, <2>2 DEF Restart, DirectFinalized, Finality!Recover
  <2> QED
    BY <2>1, <2>3
<1>4. CASE UNCHANGED <<effects, finalized, lfb>>
  BY <1>4 DEF Finality!vars
<1> QED
  BY <1>1, <1>2, <1>3, <1>4 DEF Finality!Next, Next, RunStep, Insert,
     UpdateLastFinalizedBlock, QueueRun, QueryLastFinalizedBlock, TakeSnapshot, Found,
     NotFound, Reconcile, EffectFails, PropagateFt, Finish, Release, metadata, vars

\* Finalization implements MonotoneFinality: seen through what was announced, what
\* the metadata records and the last finalized block, concurrent finalizer runs,
\* failures, evictions and crashes are announcements, records and recoveries.
THEOREM FinalizationImplementsFinality == Spec => ImplementsFinality
<1>1. Init => Finality!Init
  BY DEF Init, Finality!Init
<1>2. FinInv /\ DirectFinalized /\ [Next]_vars => [Finality!Next]_(Finality!vars)
  BY FinalityStep
<1> QED
  BY <1>1, <1>2, SpecFinInv, SpecDirectFinalized, PTL
  DEF Spec, ImplementsFinality, Finality!Spec

-----------------------------------------------------------------------------
\* The types that FinInv leaves out.
OtherTypes ==
    /\ cached \subseteq finalized
    /\ effects \subseteq Blocks
    /\ toNotify \subseteq Blocks
    /\ toQueue \subseteq Blocks
    /\ taskInProgress \in BOOLEAN
    /\ taskQueued \in BOOLEAN
    /\ restarts \in 0..MaxRestarts

\* What a recording run adds, and that the cache takes members of it only.
LEMMA RecordEffect ==
  ASSUME FinInv, NEW r \in Runs, RecordFinalized(r)
  PROVE  /\ run[r] \in RunType /\ run[r].pc = "record" /\ run[r].ft \in 0..MaxFt
         /\ run[r].applied \subseteq Blocks
         /\ finalized' = finalized \cup run[r].applied
         /\ ft' = RaisedFt(run[r].applied, run[r].ft)
         /\ cached' \in Pruned(cached \cup run[r].applied)
         /\ cached' \subseteq cached \cup run[r].applied
         /\ run' = [run EXCEPT ![r] = RunAt("propagate", Genesis, run[r].ft)]
         /\ UNCHANGED <<dag, effects, handlers, flags, restarts>>
<1>1. /\ run[r] \in RunType /\ run[r].pc = "record" /\ run[r].ft \in 0..MaxFt
      /\ run[r].applied \subseteq Blocks /\ run[r].block \in run[r].applied
  BY DEF FinInv, Typed, RunType, RecordFinalized, RunsOK, RunOK, RunShaped
<1>2. run[r].applied \cup {run[r].block} = run[r].applied
  BY <1>1
<1>3. /\ finalized' = finalized \cup run[r].applied
      /\ ft' = RaisedFt(run[r].applied, run[r].ft)
      /\ cached' \in Pruned(cached \cup run[r].applied)
      /\ run' = [run EXCEPT ![r] = RunAt("propagate", Genesis, run[r].ft)]
      /\ UNCHANGED <<dag, effects, handlers, flags, restarts>>
  BY <1>2 DEF RecordFinalized
<1>4. cached' \subseteq cached \cup run[r].applied
  BY <1>3 DEF Pruned
<1> QED BY <1>1, <1>3, <1>4

\* Every step keeps these types.
LEMMA NextOtherTypes == FinInv /\ OtherTypes /\ [Next]_vars => OtherTypes'
<1> SUFFICES ASSUME FinInv, OtherTypes, [Next]_vars PROVE OtherTypes'
  OBVIOUS
<1>1. ASSUME NEW b \in Blocks, Insert(b) \/ UpdateLastFinalizedBlock(b) \/ QueueRun(b)
      PROVE  OtherTypes'
  <2>1. Insert(b) => OtherTypes'
    BY Zenon DEF Insert, OtherTypes, metadata, flags
  <2>2. UpdateLastFinalizedBlock(b) => OtherTypes'
    BY Zenon DEF UpdateLastFinalizedBlock, OtherTypes, metadata
  <2>3. QueueRun(b) => OtherTypes'
    BY Zenon DEF QueueRun, OtherTypes, metadata
  <2> QED BY <1>1, <2>1, <2>2, <2>3
<1>2. ASSUME NEW q \in Queries, QueryLastFinalizedBlock(q) PROVE OtherTypes'
  BY <1>2 DEF QueryLastFinalizedBlock, OtherTypes, metadata, handlers, flags
<1>3. ASSUME NEW r \in Runs, RecordFinalized(r) PROVE OtherTypes'
  BY <1>3, RecordEffect DEF OtherTypes, handlers, flags
<1>4. ASSUME NEW r \in Runs, NEW b \in Blocks, EffectOn(r, b) PROVE OtherTypes'
  BY <1>4 DEF EffectOn, OtherTypes, metadata, handlers, flags
<1>5. ASSUME NEW r \in Runs, Finish(r) PROVE OtherTypes'
  BY <1>5, Zenon DEF Finish, OtherTypes, metadata, handlers
<1>6. CASE Release
  BY <1>6 DEF Release, OtherTypes, metadata, handlers
<1>7. CASE Restart
  <2>1. restarts' \in 0..MaxRestarts
    BY <1>7, FinalizerAssumption DEF Restart, OtherTypes
  <2> QED BY <1>7, <2>1, Zenon DEF Restart, OtherTypes
<1>8. CASE UNCHANGED <<cached, finalized, effects, toNotify, toQueue, taskInProgress,
                       taskQueued, restarts>>
  BY <1>8 DEF OtherTypes
<1> QED
  BY <1>1, <1>2, <1>3, <1>4, <1>5, <1>6, <1>7, <1>8 DEF Next, RunStep, TakeSnapshot, Found,
     NotFound, Reconcile, EffectFails, PropagateFt, metadata, handlers, flags, vars

\* They hold in every reachable state.
LEMMA SpecOtherTypes == Spec => []OtherTypes
<1>1. Init => OtherTypes
  <2>1. 0 \in 0..MaxRestarts
    BY FinalizerAssumption
  <2> QED BY <2>1, Zenon DEF Init, OtherTypes
<1> QED BY <1>1, SpecFinInv, NextOtherTypes, PTL DEF Spec

\* The state of finalization is well typed: in particular what is cached as
\* finalized is finalized, evictions and crashes included.
THEOREM FinalizationTyped == Spec => []TypeOK
<1>1. FinInv /\ OtherTypes => TypeOK
  BY DEF FinInv, Typed, OtherTypes, TypeOK
<1> QED BY <1>1, SpecFinInv, SpecOtherTypes, PTL

-----------------------------------------------------------------------------
\* Fault tolerance along the ancestry.

\* A cache that is not the whole finalized set never becomes it again: too many
\* blocks are finalized.
CacheFull ==
    restarts = 0 => \/ cached = finalized
                    \/ Cardinality(finalized) > CacheMax /\ Cardinality(cached) <= CacheMax

\* A block that is not finalized has no fault tolerance recorded.
UnfinalizedFt == \A b \in Blocks \ finalized : ft[b] = 0

\* A run that has recorded a value of at least v and has yet to propagate it.
Carried(v) == \E r \in Runs : run[r].pc = "propagate" /\ run[r].ft >= v

\* A parent with a lower value than its child has a run on its way to raise it.
FtOrdered ==
    restarts = 0 /\ cached = finalized =>
        \A b \in finalized : \A p \in Parents[b] : ft[p] >= ft[b] \/ Carried(ft[b])

FtInv == CacheFull /\ UnfinalizedFt /\ FtOrdered

\* What pruning leaves: the whole set, or too little of too large a set.
LEMMA PrunedCache ==
  ASSUME NEW s \in SUBSET Blocks, NEW u \in Pruned(s)
  PROVE  /\ Cardinality(u) <= CacheMax /\ u \subseteq s
         /\ u = s \/ Cardinality(s) > CacheMax
<1>1. Cardinality(s) \in Nat
  BY FiniteAssumption, FS_Subset, FS_CardinalityType
<1> QED BY <1>1, FinalizerAssumption DEF Pruned

\* A recording run leaves the cache whole or too small.
LEMMA RecordCache ==
  ASSUME FinInv, OtherTypes, CacheFull, NEW r \in Runs, RecordFinalized(r)
  PROVE  /\ CacheFull'
         /\ (restarts' = 0 /\ cached' = finalized') => (restarts = 0 /\ cached = finalized)
<1> SUFFICES ASSUME restarts' = 0
             PROVE  \/ cached' = finalized' /\ cached = finalized
                    \/ Cardinality(finalized') > CacheMax /\ Cardinality(cached') <= CacheMax
                          /\ cached' # finalized'
  BY RecordEffect DEF CacheFull
<1>1. /\ finalized' = finalized \cup run[r].applied /\ restarts = 0
      /\ cached' \in Pruned(cached \cup run[r].applied)
      /\ finalized \subseteq Blocks /\ run[r].applied \subseteq Blocks
      /\ cached \subseteq finalized
  BY RecordEffect DEF FinInv, Typed, OtherTypes
<1>2. /\ Cardinality(cached') <= CacheMax
      /\ cached' = cached \cup run[r].applied \/ Cardinality(cached \cup run[r].applied) > CacheMax
  BY <1>1, PrunedCache
<1>3. /\ IsFiniteSet(finalized') /\ IsFiniteSet(finalized)
      /\ IsFiniteSet(cached \cup run[r].applied) /\ IsFiniteSet(cached')
  <2>1. cached' \subseteq Blocks
    BY <1>1, PrunedCache
  <2> QED BY <1>1, <2>1, FiniteAssumption, FS_Subset
<1>4. /\ Cardinality(finalized) <= Cardinality(finalized')
      /\ Cardinality(cached \cup run[r].applied) <= Cardinality(finalized')
  BY <1>1, <1>3, FS_Subset
<1>5. /\ Cardinality(finalized) \in Nat /\ Cardinality(finalized') \in Nat
      /\ Cardinality(cached \cup run[r].applied) \in Nat /\ Cardinality(cached') \in Nat
  BY <1>3, FS_CardinalityType
<1>6. CASE cached = finalized /\ cached' = cached \cup run[r].applied
  BY <1>1, <1>6
<1>7. CASE Cardinality(finalized') > CacheMax
  BY <1>2, <1>5, <1>7, FinalizerAssumption
<1>8. CASE Cardinality(finalized) > CacheMax \/ Cardinality(cached \cup run[r].applied) > CacheMax
  BY <1>4, <1>5, <1>7, <1>8, FinalizerAssumption
<1> QED BY <1>1, <1>2, <1>6, <1>8 DEF CacheFull

\* Fault tolerances after a set is raised to a value.
LEMMA RaisedValues ==
  ASSUME FinInv, NEW s \in SUBSET Blocks, NEW v \in 0..MaxFt, ft' = RaisedFt(s, v)
  PROVE  \A b \in Blocks :
           /\ ft[b] \in Nat /\ ft'[b] \in Nat /\ v \in Nat
           /\ b \in s => (ft'[b] >= v /\ (ft'[b] = v \/ ft'[b] = ft[b]))
           /\ b \notin s => ft'[b] = ft[b]
           /\ ft'[b] >= ft[b]
<1>1. ft \in [Blocks -> 0..MaxFt]
  BY DEF FinInv, Typed
<1> QED BY <1>1, FinalizerAssumption DEF RaisedFt

\* Recording raises the recorded blocks, and the run itself then carries their
\* value to the rest.
LEMMA RecordFt ==
  ASSUME FinInv, OtherTypes, FtInv, NEW r \in Runs, RecordFinalized(r)
  PROVE  FtInv'
<1> DEFINE v == run[r].ft
           s == run[r].applied
<1>1. /\ v \in 0..MaxFt /\ s \in SUBSET Blocks /\ run[r].pc = "record"
      /\ ft' = RaisedFt(s, v) /\ finalized' = finalized \cup s
      /\ run' = [run EXCEPT ![r] = RunAt("propagate", Genesis, v)]
      /\ run \in [Runs -> RunType] /\ finalized \subseteq Blocks
      /\ restarts' = restarts
  BY RecordEffect DEF FinInv, Typed
<1>2. run'[r].pc = "propagate" /\ run'[r].ft = v
  BY <1>1 DEF RunAt
<1> HIDE DEF v, s
<1>3. \A b \in Blocks : /\ ft[b] \in Nat /\ ft'[b] \in Nat /\ v \in Nat
                        /\ b \in s => (ft'[b] >= v /\ (ft'[b] = v \/ ft'[b] = ft[b]))
                        /\ b \notin s => ft'[b] = ft[b]
                        /\ ft'[b] >= ft[b]
  BY <1>1, RaisedValues
<1>4. CacheFull'
  BY RecordCache DEF FtInv
<1>5. UnfinalizedFt'
  BY <1>1, <1>3 DEF FtInv, UnfinalizedFt
<1>6. FtOrdered'
  <2> SUFFICES ASSUME restarts' = 0, cached' = finalized', NEW b \in finalized',
                      NEW p \in Parents[b]
               PROVE  ft'[p] >= ft'[b] \/ Carried(ft[b])'
    BY DEF FtOrdered
  <2>0. b \in Blocks /\ p \in Blocks
    BY <1>1, BlocksAssumption
  <2>1. restarts = 0 /\ cached = finalized
    BY RecordCache DEF FtInv
  <2>2. CASE ft'[b] <= v
    BY <1>2, <2>2 DEF Carried
  <2>3. CASE ~ (ft'[b] <= v)
    <3>1. ft'[b] = ft[b] /\ b \in finalized
      BY <1>1, <1>3, <2>0, <2>3 DEF FtInv, UnfinalizedFt
    <3>2. CASE ft[p] >= ft[b]
      BY <1>3, <2>0, <3>1, <3>2
    <3>3. CASE Carried(ft[b])
      <4>1. Carried(ft'[b])
        BY <3>1, <3>3
      <4>2. PICK x \in Runs : run[x].pc = "propagate" /\ run[x].ft >= ft'[b]
        BY <4>1 DEF Carried
      <4>3. run'[x] = run[x]
        BY <1>1, <4>2
      <4> QED BY <4>2, <4>3 DEF Carried
    <3> QED BY <2>1, <3>1, <3>2, <3>3 DEF FtInv, FtOrdered
  <2> QED BY <2>2, <2>3
<1> QED BY <1>4, <1>5, <1>6 DEF FtInv

\* Propagating raises every finalized block, so parents catch up with children
\* unless another run carries more.
LEMMA PropagateFtInv ==
  ASSUME FinInv, OtherTypes, FtInv, NEW r \in Runs, PropagateFt(r)
  PROVE  FtInv'
<1> DEFINE v == run[r].ft
<1>1. /\ v \in 0..MaxFt /\ cached \in SUBSET Blocks /\ finalized \subseteq Blocks
      /\ ft' = RaisedFt(cached, v) /\ UNCHANGED <<finalized, cached, restarts>>
      /\ run' = [run EXCEPT ![r] = Fresh("done")]
      /\ run \in [Runs -> RunType]
  BY DEF FinInv, Typed, RunType, OtherTypes, PropagateFt
<1>2. \A b \in Blocks : /\ ft[b] \in Nat /\ ft'[b] \in Nat /\ v \in Nat
                        /\ b \in cached => (ft'[b] >= v /\ (ft'[b] = v \/ ft'[b] = ft[b]))
                        /\ b \notin cached => ft'[b] = ft[b]
                        /\ ft'[b] >= ft[b]
  BY <1>1, RaisedValues
<1>3. CacheFull'
  BY <1>1 DEF FtInv, CacheFull
<1>4. UnfinalizedFt'
  BY <1>1, <1>2 DEF FtInv, UnfinalizedFt, OtherTypes
<1>5. FtOrdered'
  <2> SUFFICES ASSUME restarts' = 0, cached' = finalized', NEW b \in finalized',
                      NEW p \in Parents[b]
               PROVE  ft'[p] >= ft'[b] \/ Carried(ft[b])'
    BY DEF FtOrdered
  <2>1. /\ b \in finalized /\ p \in finalized /\ b \in Blocks /\ p \in Blocks
        /\ cached = finalized /\ restarts = 0
    BY <1>1 DEF FinInv, FinalizedClosed
  <2>2. CASE ft[p] >= ft[b] \/ ft[b] <= v
    BY <1>2, <2>1, <2>2
  <2>3. CASE ~ (ft[b] <= v) /\ Carried(ft[b])
    <3>1. ft'[b] = ft[b]
      BY <1>2, <2>1, <2>3
    <3>2. PICK x \in Runs : run[x].pc = "propagate" /\ run[x].ft >= ft'[b]
      BY <2>3, <3>1 DEF Carried
    <3>3. run'[x] = run[x]
      BY <1>1, <2>3, <3>1, <3>2
    <3> QED BY <3>2, <3>3 DEF Carried
  <2> QED BY <2>1, <2>2, <2>3 DEF FtInv, FtOrdered
<1> QED BY <1>3, <1>4, <1>5 DEF FtInv

\* No other step but a restart touches what the values depend on.
LEMMA OtherFt ==
  ASSUME FinInv, FtInv, UNCHANGED <<finalized, cached, ft, restarts>>,
         \A x \in Runs : run[x].pc = "propagate" => run'[x] = run[x]
  PROVE  FtInv'
<1>1. CacheFull' /\ UnfinalizedFt'
  BY DEF FtInv, CacheFull, UnfinalizedFt
<1>2. ASSUME NEW b, Carried(ft[b]) PROVE Carried(ft[b])'
  BY <1>2 DEF Carried
<1>3. FtOrdered'
  BY <1>2 DEF FtInv, FtOrdered
<1> QED BY <1>1, <1>3 DEF FtInv

\* Every step keeps the order of fault tolerances.
LEMMA NextFt == FinInv /\ OtherTypes /\ FtInv /\ [Next]_vars => FtInv'
<1> SUFFICES ASSUME FinInv, OtherTypes, FtInv, [Next]_vars PROVE FtInv'
  OBVIOUS
<1>0. run \in [Runs -> RunType] /\ Task \in Runs /\ Queries \subseteq Runs
  BY DEF FinInv, Typed, Runs
<1>1. ASSUME NEW b \in Blocks, UpdateLastFinalizedBlock(b) PROVE FtInv'
  <2>1. \A x \in Runs : run[x].pc = "propagate" => run'[x] = run[x]
    BY <1>0, <1>1 DEF UpdateLastFinalizedBlock, FinInv, TaskGuarded
  <2> QED BY <1>1, <2>1, OtherFt DEF UpdateLastFinalizedBlock, metadata
<1>2. ASSUME NEW q \in Queries, QueryLastFinalizedBlock(q) PROVE FtInv'
  <2>1. \A x \in Runs : run[x].pc = "propagate" => run'[x] = run[x]
    BY <1>0, <1>2 DEF QueryLastFinalizedBlock
  <2> QED BY <1>2, <2>1, OtherFt DEF QueryLastFinalizedBlock, metadata
<1>3. ASSUME NEW r \in Runs, RunStep(r) PROVE FtInv'
  <2>1. CASE RecordFinalized(r)
    BY <2>1, RecordFt
  <2>2. CASE PropagateFt(r)
    BY <2>2, PropagateFtInv
  <2>3. CASE ~ RecordFinalized(r) /\ ~ PropagateFt(r)
    <3>1. /\ run[r].pc # "propagate" /\ UNCHANGED <<finalized, cached, ft, restarts>>
          /\ \A x \in Runs \ {r} : run'[x] = run[x]
      BY <1>0, <1>3, <2>3 DEF RunStep, TakeSnapshot, Found, NotFound, Reconcile, EffectOn,
         EffectFails, Finish, metadata
    <3> QED BY <3>1, OtherFt
  <2> QED BY <2>1, <2>2, <2>3
<1>4. CASE Release
  <2>1. \A x \in Runs : run[x].pc = "propagate" => run'[x] = run[x]
    BY <1>0, <1>4 DEF Release
  <2> QED BY <1>4, <2>1, OtherFt DEF Release, metadata
<1>5. CASE Restart
  <2>1. restarts' # 0 /\ UNCHANGED <<finalized, ft>>
    BY <1>5 DEF Restart, OtherTypes
  <2> QED BY <2>1 DEF FtInv, CacheFull, UnfinalizedFt, FtOrdered
<1>6. CASE UNCHANGED <<run, finalized, cached, ft, restarts>>
  BY <1>6, OtherFt
<1> QED
  BY <1>1, <1>2, <1>3, <1>4, <1>5, <1>6 DEF Next, Insert, QueueRun, metadata, vars

\* While nothing was evicted and no crash fell in between, and no run is on its
\* way to propagate a value, every finalized block's fault tolerance is at most
\* that of its parents: concurrent runs that record and propagate in any order
\* do not undo each other's work.
THEOREM FtFollowsAncestry == Spec => []AncestorFtAtLeastDescendants
<1>1. Init => FtInv
  <2>1. Init => CacheFull /\ FtOrdered
    BY BlocksAssumption DEF Init, CacheFull, FtOrdered
  <2>2. Init => UnfinalizedFt
    BY DEF Init, UnfinalizedFt
  <2> QED BY <2>1, <2>2 DEF FtInv
<1>2. FtInv => AncestorFtAtLeastDescendants
  BY DEF FtInv, FtOrdered, Carried, AncestorFtAtLeastDescendants
<1> QED BY <1>1, <1>2, SpecFinInv, SpecOtherTypes, NextFt, PTL DEF Spec
=============================================================================
