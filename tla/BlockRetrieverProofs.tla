------------------------ MODULE BlockRetrieverProofs ------------------------
(***************************************************************************)
(* Proofs about the block retriever, for every number of hashes, peers and *)
(* callers, every budget, every cooldown and every length of a pass.       *)
(***************************************************************************)
EXTENDS BlockRetriever, FiniteSetTheorems, FunctionTheorems, SequenceTheorems,
        WellFoundedInduction, TLAPS

\* Types of the threads, and the steps at which a thread works for no hash.
ThreadType == [pc : Steps, hash : Hashes \cup {None}, op : DOMAIN FirstStep \cup {None},
               peer : Peers \cup {None}, count : Nat]

Loose == {"idle", "sleep", "loop", "drop", "dropped", "sweep", "retain"}

ThreadsTyped ==
    /\ thread \in [Threads -> ThreadType]
    /\ \A t \in Threads : thread[t].pc \notin Loose => thread[t].hash \in Hashes

\* The steps that forget the locals.
Restarting == {"idle", "sleep", "loop"}

\* What Goto does.
LEMMA GotoEffect ==
    ASSUME ThreadsTyped, NEW t \in Threads, NEW pc \in Steps, Goto(t, pc)
    PROVE  /\ thread' \in [Threads -> ThreadType]
           /\ thread'[t].pc = pc
           /\ pc \notin Restarting => /\ thread'[t].hash = thread[t].hash
                                      /\ thread'[t].op = thread[t].op
                                      /\ thread'[t].peer = thread[t].peer
           /\ \A u \in Threads \ {t} : thread'[u] = thread[u]
<1> DEFINE i == [Idle EXCEPT !.pc = pc]
           k == [thread[t] EXCEPT !.pc = pc, !.count = 0]
<1>1. i \in ThreadType /\ i.pc = pc
  BY DEF Idle, ThreadType
<1>2. /\ k \in ThreadType /\ k.pc = pc /\ k.hash = thread[t].hash /\ k.op = thread[t].op
      /\ k.peer = thread[t].peer
  BY DEF ThreadsTyped, ThreadType
<1>3. thread' = [thread EXCEPT ![t] = IF pc \in Restarting THEN i ELSE k]
  BY DEF Goto, Restarting
<1> HIDE DEF i, k
<1>4. thread \in [Threads -> ThreadType]
  BY DEF ThreadsTyped
<1>5. CASE pc \in Restarting
  BY <1>1, <1>3, <1>4, <1>5
<1>6. CASE pc \notin Restarting
  BY <1>2, <1>3, <1>4, <1>6
<1> QED BY <1>5, <1>6

\* A thread keeps its types when it goes on.
LEMMA GotoTyped ==
    ASSUME ThreadsTyped, NEW t \in Threads, NEW pc \in Steps, Goto(t, pc),
           thread[t].pc \notin Loose \/ pc \in Loose
    PROVE  ThreadsTyped'
  BY GotoEffect DEF ThreadsTyped, Restarting, Loose

\* The maintenance thread is a thread, and every caller is.
LEMMA ThreadsAre ==
    /\ Maintenance \in Threads /\ Maintenance \notin Callers
    /\ Callers \subseteq Threads
    /\ IsFiniteSet(Threads) /\ Cardinality(Threads) = Cardinality(Callers) + 1
    /\ Cardinality(Callers) \in Nat
<1>1. IsFiniteSet(Callers) /\ Maintenance \notin Callers
  BY RetrieverAssumption
<1> QED BY <1>1, FS_AddElement, FS_CardinalityType DEF Threads

\* The types of the threads hold at the start.
LEMMA InitThreads == Init => ThreadsTyped
<1>1. Idle \in ThreadType /\ Idle.pc = "idle"
  BY DEF Idle, ThreadType, Steps
<1> QED BY <1>1 DEF Init, ThreadsTyped, Loose

\* Every step of the pass keeps the types of the threads.
LEMMA PassThreads ==
    ASSUME ThreadsTyped, requeryAttempts \in [Hashes -> Nat], Pass \/ PassSendFails
    PROVE  ThreadsTyped' /\ \A u \in Callers : thread'[u] = thread[u]
<1> DEFINE m == Maintenance
<1>0. m \in Threads /\ m \notin Callers /\ Callers \subseteq Threads
  BY ThreadsAre
<1>1. ASSUME NEW pc \in Steps, Goto(m, pc), thread[m].pc \notin Loose \/ pc \in Loose
      PROVE  ThreadsTyped' /\ \A u \in Callers : thread'[u] = thread[u]
  BY <1>0, <1>1, GotoEffect, GotoTyped
<1>2. CASE PassStart \/ PassSweep \/ PassEnd \/ PassDrop \/ PassDropped \/ PassSendFails
  BY <1>1, <1>2 DEF PassStart, PassSweep, PassEnd, PassDrop, PassDropped, PassSendFails,
     Steps, Loose
<1>3. CASE \E H \in SUBSET Hashes : PassBound(H)
  BY <1>1, <1>3 DEF PassBound, Steps, Loose
<1>4. CASE PassBudget \/ PassRequery \/ PassBroadcast \/ PassRequeried \/ PassSent
  BY <1>1, <1>4 DEF PassBudget, PassRequery, PassBroadcast, PassRequeried, PassSent,
     At, Steps, Loose
<1>5. CASE PassChoose \/ PassExpire
  BY <1>1, <1>5 DEF PassChoose, PassExpire, RemoveRequest, Return, At, Steps, Loose
<1>6. CASE PassCount
  <2> DEFINE q == [thread[m] EXCEPT !.pc = "choose",
                                    !.count = requeryAttempts[thread[m].hash]]
  <2>1. thread[m] \in ThreadType /\ thread[m].hash \in Hashes
    BY <1>0, <1>6 DEF PassCount, At, ThreadsTyped, Loose
  <2>2. q \in ThreadType /\ q.hash = thread[m].hash
    BY <2>1 DEF ThreadType, Steps
  <2>3. thread' = [thread EXCEPT ![m] = q]
    BY <1>6 DEF PassCount
  <2> HIDE DEF q
  <2> QED BY <1>0, <2>1, <2>2, <2>3 DEF ThreadsTyped
<1>7. ASSUME NEW h \in Hashes, PassRead(h)
      PROVE  ThreadsTyped' /\ \A u \in Callers : thread'[u] = thread[u]
  <2> DEFINE q == [thread[m] EXCEPT !.pc = PassDecision(h), !.hash = h]
  <2>1. thread[m] \in ThreadType /\ PassDecision(h) \in Steps
    BY <1>0 DEF ThreadsTyped, PassDecision, Steps
  <2>2. q \in ThreadType /\ q.hash = h
    BY <2>1 DEF ThreadType
  <2>3. thread' = [thread EXCEPT ![m] = IF PassDecision(h) = "loop" THEN @ ELSE q]
    BY <1>7 DEF PassRead
  <2> HIDE DEF q
  <2> QED BY <1>0, <2>1, <2>2, <2>3 DEF ThreadsTyped
<1> QED BY <1>2, <1>3, <1>4, <1>5, <1>6, <1>7 DEF Pass

\* So does every step the pass and the callers share.
LEMMA SharedThreads ==
    ASSUME ThreadsTyped, NEW t \in Threads, Shared(t)
    PROVE  ThreadsTyped' /\ \A u \in Threads \ {t} : thread'[u] = thread[u]
<1>1. ASSUME NEW pc \in Steps, Goto(t, pc), thread[t].pc \notin Loose \/ pc \in Loose
      PROVE  ThreadsTyped' /\ \A u \in Threads \ {t} : thread'[u] = thread[u]
  BY <1>1, GotoEffect, GotoTyped
<1> QED BY <1>1 DEF Shared, Evict, RemoveRequest, mark_retry_budget_quarantine,
     cleanup_aux_tracking_for_hash, register_retry_attempt, Return, At, Steps, Loose

\* And every step of a caller.
LEMMA CallThreads ==
    ASSUME ThreadsTyped, NEW c \in Callers,
           Call(c) \/ RecoverSendFails(c) \/ \E input \in Inputs : CallStart(c, input)
    PROVE  ThreadsTyped' /\ \A u \in Threads \ {c} : thread'[u] = thread[u]
<1>0. c \in Threads
  BY ThreadsAre
<1>1. ASSUME NEW pc \in Steps, Goto(c, pc), thread[c].pc \notin Loose \/ pc \in Loose
      PROVE  ThreadsTyped' /\ \A u \in Threads \ {c} : thread'[u] = thread[u]
  BY <1>0, <1>1, GotoEffect, GotoTyped
<1>2. CASE AdmitQuarantine(c) \/ (\E conn \in Connections : AdmitTable(c, conn))
             \/ RecoverQuarantine(c) \/ RecoverBudget(c) \/ RecoverCooldown(c)
  BY <1>1, <1>2 DEF AdmitQuarantine, AdmitTable, RecoverQuarantine, RecoverBudget,
     RecoverCooldown, At, Steps, Loose
<1>3. CASE RecoverReopen(c) \/ RecoverSent(c) \/ is_received(c) \/ ack_receive(c)
             \/ ack_received(c) \/ cleanup_hash_tracking(c) \/ RecoverSendFails(c)
  BY <1>1, <1>3 DEF RecoverReopen, RecoverSent, is_received, ack_receive, ack_received,
     cleanup_hash_tracking, RecoverSendFails, At, Steps, Loose
<1>4. ASSUME NEW input \in Inputs, CallStart(c, input)
      PROVE  ThreadsTyped' /\ \A u \in Threads \ {c} : thread'[u] = thread[u]
  <2> DEFINE q == [pc |-> FirstStep[input.op], hash |-> input.hash,
                   op |-> input.op, peer |-> input.peer, count |-> 0]
  <2>1. /\ input.op \in DOMAIN FirstStep /\ input.hash \in Hashes
        /\ input.peer \in Peers \cup {None}
    BY RetrieverAssumption
  <2>2. FirstStep[input.op] \in Steps
    BY <2>1 DEF FirstStep, Steps
  <2>3. q \in ThreadType /\ q.hash \in Hashes
    BY <2>1, <2>2 DEF ThreadType
  <2>4. thread' = [thread EXCEPT ![c] = q]
    BY <1>4 DEF CallStart
  <2> HIDE DEF q
  <2> QED BY <1>0, <2>3, <2>4 DEF ThreadsTyped
<1> QED BY <1>2, <1>3, <1>4 DEF Call

\* Time passing lets the pass start again and changes no other thread.
LEMMA TickThreads ==
    ASSUME ThreadsTyped, Tick
    PROVE  /\ ThreadsTyped' /\ \A u \in Callers : thread'[u] = thread[u]
           /\ thread[Maintenance].pc \in {"send", "sendKnown"} => thread' = thread
           /\ thread[Maintenance].pc \notin {"send", "sendKnown"} =>
                  thread[Maintenance].pc = "sleep" /\ thread'[Maintenance].pc = "idle"
<1> DEFINE m == Maintenance
           q == [thread[m] EXCEPT !.pc = IF @ = "sleep" THEN "idle" ELSE @]
<1>0. m \in Threads /\ m \notin Callers /\ Callers \subseteq Threads
  BY ThreadsAre
<1>1. thread[m] \in ThreadType /\ thread[m].pc \in {"sleep", "send", "sendKnown"}
  BY <1>0 DEF Tick, ThreadsTyped
<1>2. q \in ThreadType /\ q.hash = thread[m].hash
  BY <1>1 DEF ThreadType, Steps
<1>3. q.pc = IF thread[m].pc = "sleep" THEN "idle" ELSE thread[m].pc
  BY <1>1 DEF ThreadType
<1>4. thread[m].pc # "sleep" => q = thread[m]
  BY <1>1 DEF ThreadType
<1>5. thread' = [thread EXCEPT ![m] = q]
  BY DEF Tick
<1> HIDE DEF q
<1> QED BY <1>0, <1>1, <1>2, <1>3, <1>4, <1>5 DEF ThreadsTyped, Loose

-----------------------------------------------------------------------------
\* The counters, the cooldowns and the bounds

BookTyped ==
    /\ retryAttempts \in [Hashes -> Nat]
    /\ requeryAttempts \in [Hashes -> Nat]
    /\ lastBroadcast \in [Hashes -> {Absent} \cup Nat]
    /\ lastRequery \in [Hashes -> {Absent} \cup Nat]
    /\ lastRecovery \in [Hashes -> {Absent} \cup Nat]
    /\ quarantine \in [Hashes -> 0..RETRY_BUDGET_QUARANTINE]

LocalsTyped ==
    /\ todo \subseteq Hashes
    /\ lag \in 0..MaxLag
    /\ calls \in 0..MaxCalls
    /\ failures \in 0..MaxFailures

\* The constants that are numbers.
LEMMA Numbers ==
    /\ RETRY_BUDGET_QUARANTINE \in Nat /\ MaxLag \in Nat
    /\ MaxCalls \in Nat /\ MaxFailures \in Nat
    /\ MAX_RETRIES_PER_HASH \in Nat \ {0} /\ CursorModulus \in Nat \ {0}
    /\ MAX_WAITING_LIST_PER_HASH \in Nat \ {0}
    /\ PEER_REQUERY_COOLDOWN \in Nat /\ BROADCAST_ONLY_COOLDOWN \in Nat
  BY RetrieverAssumption

\* A clean-up leaves types alone.
LEMMA CleanupTyped ==
    ASSUME BookTyped, NEW H, cleanup_aux_tracking(H)
    PROVE  BookTyped'
<1>1. 0 \in 0..RETRY_BUDGET_QUARANTINE
  BY RetrieverAssumption
<1> QED BY <1>1 DEF cleanup_aux_tracking, BookTyped

\* An age grows up to its cap.
LEMMA OlderTyped ==
    ASSUME NEW age \in {Absent} \cup Nat, NEW cap \in Nat
    PROVE  Older(age, cap) \in {Absent} \cup Nat
  BY DEF Older, AtMost, Absent

\* The backoff of a cooldown: defined, and longer after more attempts.
LEMMA CooldownTyped ==
    ASSUME NEW base \in Nat, NEW m \in Nat, NEW n \in Nat, m <= n
    PROVE  /\ retry_cooldown(base, m) \in Nat
           /\ retry_cooldown(base, m) <= retry_cooldown(base, n)
<1> DEFINE k(a) == IF a <= 8 THEN 1 ELSE 1 + AtMost((a - 8) \div 8, 4)
<1>1. \A a \in Nat : a > 8 => (a - 8) \div 8 \in Nat
  OBVIOUS
<1>2. m > 8 => (m - 8) \div 8 <= (n - 8) \div 8
  OBVIOUS
<1>3. k(m) \in Nat /\ k(n) \in Nat /\ k(m) <= k(n)
  BY <1>1, <1>2 DEF AtMost
<1>4. retry_cooldown(base, m) = base * k(m) /\ retry_cooldown(base, n) = base * k(n)
  BY DEF retry_cooldown
<1> HIDE DEF k
<1>5. \A x, y \in Nat : x <= y => (base * x \in Nat /\ base * x <= base * y)
  OBVIOUS
<1> QED BY <1>3, <1>4, <1>5

\* The intervals: defined, and never below the threshold.
LEMMA IntervalTyped ==
    /\ effective_age_threshold \in Nat
    /\ \A n \in Nat : /\ rerequest_interval(n) \in Nat
                      /\ rerequest_interval(n) >= effective_age_threshold
    /\ stale_request_lifetime \in Nat
<1>1. /\ AgeThreshold \in Nat /\ MIN_REREQUEST_INTERVAL \in Nat
      /\ STALE_REQUEST_LIFETIME_MULTIPLIER \in Nat
  BY RetrieverAssumption
<1>2. effective_age_threshold \in Nat
  BY <1>1 DEF effective_age_threshold, AtLeast
<1>3. ASSUME NEW n \in Nat
      PROVE  /\ rerequest_interval(n) \in Nat
             /\ rerequest_interval(n) >= effective_age_threshold
  <2> DEFINE k == IF n <= 4 THEN 1 ELSE 1 + AtMost((n - 4) \div 4, 7)
  <2>1. n > 4 => (n - 4) \div 4 \in Nat
    OBVIOUS
  <2>2. k \in Nat /\ k >= 1
    BY <2>1 DEF AtMost
  <2>3. rerequest_interval(n) = effective_age_threshold * k
    BY DEF rerequest_interval
  <2> HIDE DEF k
  <2>4. \A x, y \in Nat : y >= 1 => (x * y \in Nat /\ x * y >= x)
    OBVIOUS
  <2> QED BY <1>2, <2>2, <2>3, <2>4
<1>4. stale_request_lifetime \in Nat
  BY <1>1, <1>2 DEF stale_request_lifetime
<1> QED BY <1>2, <1>3, <1>4

\* The caps of the ages.
LEMMA CapsTyped ==
    /\ MaxAttempts \in Nat /\ MaxAge \in Nat /\ MaxLife \in Nat
    /\ MaxCooldown(BROADCAST_ONLY_COOLDOWN) \in Nat
    /\ MaxCooldown(PEER_REQUERY_COOLDOWN) \in Nat
    /\ DEPENDENCY_RECOVERY_COOLDOWN \in Nat
<1>1. /\ MAX_RETRIES_PER_HASH \in Nat /\ MaxLag \in Nat /\ BROADCAST_ONLY_COOLDOWN \in Nat
      /\ PEER_REQUERY_COOLDOWN \in Nat /\ DEPENDENCY_RECOVERY_COOLDOWN \in Nat
  BY RetrieverAssumption
<1>2. MaxAttempts \in Nat
  BY <1>1, ThreadsAre DEF MaxAttempts
<1>3. rerequest_interval(MaxAttempts) \in Nat /\ stale_request_lifetime \in Nat
  BY <1>2, IntervalTyped
<1>4. MaxAge \in Nat /\ MaxLife \in Nat
  BY <1>1, <1>3 DEF MaxAge, MaxLife
<1>5. /\ retry_cooldown(BROADCAST_ONLY_COOLDOWN, MaxAttempts) \in Nat
      /\ retry_cooldown(PEER_REQUERY_COOLDOWN, MaxAttempts) \in Nat
  <2>1. MaxAttempts <= MaxAttempts
    BY <1>2
  <2> QED BY <1>1, <1>2, <2>1, CooldownTyped
<1> QED BY <1>1, <1>2, <1>4, <1>5 DEF MaxCooldown

\* The steps of the pass keep the books and its locals typed.
LEMMA PassBook ==
    ASSUME ThreadsTyped, BookTyped, LocalsTyped, Pass \/ PassSendFails
    PROVE  BookTyped' /\ LocalsTyped'
<1> DEFINE m == Maintenance
<1>0. m \in Threads
  BY ThreadsAre
<1>1. CASE PassDropped \/ PassEnd
  <2>1. BookTyped'
    BY <1>1, CleanupTyped DEF PassDropped, PassEnd
  <2>2. 0 \in 0..MaxLag
    BY Numbers
  <2> QED BY <1>1, <2>1, <2>2 DEF PassDropped, PassEnd, LocalsTyped, bounds
<1>2. CASE PassRequery \/ PassBroadcast \/ PassRequeried
  <2>1. thread[m].hash \in Hashes
    BY <1>0, <1>2 DEF PassRequery, PassBroadcast, PassRequeried, At, ThreadsTyped, Loose
  <2>2. BookTyped'
    BY <1>2, <2>1 DEF PassRequery, PassBroadcast, PassRequeried, BookTyped, counters, cooldowns
  <2> QED BY <1>2, <2>2 DEF PassRequery, PassBroadcast, PassRequeried, LocalsTyped, bounds
<1>3. CASE PassStart \/ PassSendFails \/ PassSweep \/ (\E h \in Hashes : PassRead(h))
             \/ (\E H \in SUBSET Hashes : PassBound(H))
  <2>1. BookTyped'
    BY <1>3 DEF PassStart, PassSendFails, PassSweep, PassRead, PassBound, tracking, counters,
       cooldowns, BookTyped
  <2>2. 0 \in 0..MaxLag /\ MaxFailures \in Nat
    BY Numbers
  <2>3. CASE PassSendFails
    BY <2>1, <2>2, <2>3 DEF PassSendFails, LocalsTyped
  <2>4. CASE PassStart \/ PassSweep \/ (\E h \in Hashes : PassRead(h))
                 \/ (\E H \in SUBSET Hashes : PassBound(H))
    BY <2>1, <2>2, <2>4 DEF PassStart, PassSweep, PassRead, PassBound, LocalsTyped, Tracked,
       bounds
  <2> QED BY <1>3, <2>3, <2>4
<1>4. CASE PassBudget \/ PassCount \/ PassChoose \/ PassSent \/ PassExpire \/ PassDrop
  BY <1>4 DEF PassBudget, PassCount, PassChoose, PassSent, PassExpire, RemoveRequest, PassDrop,
     tracking, counters, cooldowns, bounds, BookTyped, LocalsTyped
<1> QED BY <1>1, <1>2, <1>3, <1>4 DEF Pass

\* So do the shared steps and the callers'.
LEMMA CallBook ==
    ASSUME ThreadsTyped, BookTyped, LocalsTyped, NEW t \in Threads,
           \/ Shared(t)
           \/ t \in Callers /\ (Call(t) \/ RecoverSendFails(t))
           \/ \E input \in Inputs : CallStart(t, input)
    PROVE  BookTyped' /\ LocalsTyped'
<1>1. CASE cleanup_aux_tracking_for_hash(t) \/ ack_received(t)
  BY <1>1, CleanupTyped DEF cleanup_aux_tracking_for_hash, ack_received, LocalsTyped, bounds
<1>2. CASE mark_retry_budget_quarantine(t) \/ register_retry_attempt(t) \/ RecoverCooldown(t)
  <2>1. thread[t].hash \in Hashes
    BY <1>2 DEF mark_retry_budget_quarantine, register_retry_attempt, RecoverCooldown, At,
       ThreadsTyped, Loose
  <2>2. RETRY_BUDGET_QUARANTINE \in 0..RETRY_BUDGET_QUARANTINE
    BY Numbers
  <2>3. CASE mark_retry_budget_quarantine(t)
    BY <2>1, <2>2, <2>3 DEF mark_retry_budget_quarantine, BookTyped, LocalsTyped, counters,
       cooldowns, bounds
  <2>4. CASE register_retry_attempt(t)
    BY <2>1, <2>4 DEF register_retry_attempt, BookTyped, LocalsTyped, cooldowns, bounds
  <2>5. CASE RecoverCooldown(t)
    BY <2>1, <2>5 DEF RecoverCooldown, BookTyped, LocalsTyped, counters, bounds
  <2> QED BY <1>2, <2>3, <2>4, <2>5
<1>3. CASE Evict(t) \/ AdmitQuarantine(t) \/ (\E conn \in Connections : AdmitTable(t, conn))
             \/ RecoverQuarantine(t) \/ RecoverBudget(t) \/ RecoverReopen(t) \/ RecoverSent(t)
  BY <1>3 DEF Evict, RemoveRequest, AdmitQuarantine, AdmitTable, RecoverQuarantine,
     RecoverBudget, RecoverReopen, RecoverSent, tracking, counters, cooldowns, bounds,
     BookTyped, LocalsTyped
<1>4. CASE is_received(t) \/ ack_receive(t) \/ cleanup_hash_tracking(t)
  BY <1>4 DEF is_received, ack_receive, cleanup_hash_tracking, tracking, counters,
     cooldowns, bounds, BookTyped, LocalsTyped
<1>5. CASE RecoverSendFails(t) \/ \E input \in Inputs : CallStart(t, input)
  <2>1. MaxFailures \in Nat /\ MaxCalls \in Nat
    BY Numbers
  <2> QED BY <1>5, <2>1 DEF RecoverSendFails, CallStart, tracking, counters, cooldowns,
     BookTyped, LocalsTyped
<1> QED BY <1>1, <1>2, <1>3, <1>4, <1>5 DEF Shared, Call

\* So does time.
LEMMA TickBook ==
    ASSUME ThreadsTyped, BookTyped, LocalsTyped, Tick
    PROVE  BookTyped' /\ LocalsTyped'
<1>1. /\ lastBroadcast' \in [Hashes -> {Absent} \cup Nat]
      /\ lastRequery' \in [Hashes -> {Absent} \cup Nat]
      /\ lastRecovery' \in [Hashes -> {Absent} \cup Nat]
  BY CapsTyped, OlderTyped DEF Tick, BookTyped
<1>2. \A h \in Hashes : AtLeast(quarantine[h] - 1, 0) \in 0..RETRY_BUDGET_QUARANTINE
  <2>1. \A h \in Hashes : quarantine[h] \in 0..RETRY_BUDGET_QUARANTINE
    BY DEF BookTyped
  <2> QED BY <2>1, Numbers DEF AtLeast
<1>3. lag' \in 0..MaxLag
  <2>1. lag < MaxLag /\ (lag' = 0 \/ lag' = lag + 1)
    BY DEF Tick
  <2> QED BY <2>1, Numbers DEF LocalsTyped
<1> QED BY <1>1, <1>2, <1>3 DEF Tick, BookTyped, LocalsTyped, counters, bounds

\* The types of threads, books and locals, as one invariant.
Base == ThreadsTyped /\ BookTyped /\ LocalsTyped

\* They hold at the start.
LEMMA InitBase == Init => Base
<1> SUFFICES ASSUME Init PROVE Base
  OBVIOUS
<1>1. /\ 0 \in 0..MaxLag /\ 0 \in 0..MaxCalls /\ 0 \in 0..MaxFailures
      /\ 0 \in 0..RETRY_BUDGET_QUARANTINE
  BY Numbers
<1>2. BookTyped
  BY <1>1 DEF Init, BookTyped
<1> QED BY <1>1, <1>2, InitThreads DEF Init, Base, LocalsTyped

\* Every step keeps them.
LEMMA NextBase == Base /\ [Next]_vars => Base'
<1> SUFFICES ASSUME Base, [Next]_vars PROVE Base'
  OBVIOUS
<1>0. ThreadsTyped /\ BookTyped /\ LocalsTyped /\ requeryAttempts \in [Hashes -> Nat]
  BY DEF Base, BookTyped
<1>1. CASE Pass \/ PassSendFails
  BY <1>0, <1>1, PassThreads, PassBook DEF Base
<1>2. CASE Tick
  BY <1>0, <1>2, TickThreads, TickBook DEF Base
<1>3. ASSUME NEW t \in Threads, Shared(t) PROVE Base'
  BY <1>0, <1>3, SharedThreads, CallBook DEF Base
<1>4. ASSUME NEW c \in Callers,
             Call(c) \/ RecoverSendFails(c) \/ \E input \in Inputs : CallStart(c, input)
      PROVE  Base'
  BY <1>0, <1>4, CallThreads, CallBook, ThreadsAre DEF Base
<1>5. CASE UNCHANGED vars
  BY <1>0, <1>5 DEF vars, tracking, counters, cooldowns, bounds, Base, ThreadsTyped, BookTyped,
     LocalsTyped
<1> QED BY <1>1, <1>2, <1>3, <1>4, <1>5 DEF Next

\* They hold in every reachable state.
LEMMA SpecBase == Spec => []Base
  BY InitBase, NextBase, PTL DEF Spec

-----------------------------------------------------------------------------
\* The quarantine

\* A thread that is not about to clean up sets no quarantine.
LEMMA QuarantineKept ==
    ASSUME QuarantineEndsWithEviction, NEW t \in Threads, thread[t].pc # "clean",
           \A u \in Threads \ {t} : thread'[u] = thread[u],
           \A h \in Hashes : quarantine'[h] = quarantine[h] \/ quarantine'[h] = 0
    PROVE  QuarantineEndsWithEviction'
<1> SUFFICES ASSUME NEW h \in Hashes, quarantine'[h] > 0
             PROVE  \E u \in Threads : thread'[u].pc = "clean" /\ thread'[u].hash = h
  BY DEF QuarantineEndsWithEviction, At
<1>1. quarantine[h] > 0
  OBVIOUS
<1>2. PICK u \in Threads : thread[u].pc = "clean" /\ thread[u].hash = h
  BY <1>1 DEF QuarantineEndsWithEviction, At
<1> QED BY <1>2

\* Every step keeps the property.
LEMMA NextQuarantine ==
    Base /\ QuarantineEndsWithEviction /\ [Next]_vars => QuarantineEndsWithEviction'
<1> SUFFICES ASSUME Base, QuarantineEndsWithEviction, [Next]_vars
             PROVE  QuarantineEndsWithEviction'
  OBVIOUS
<1>0. /\ ThreadsTyped /\ BookTyped /\ requeryAttempts \in [Hashes -> Nat]
      /\ Maintenance \in Threads /\ Threads \ {Maintenance} = Callers
      /\ quarantine \in [Hashes -> 0..RETRY_BUDGET_QUARANTINE]
  BY ThreadsAre DEF Base, BookTyped, Threads
<1>1. CASE Pass \/ PassSendFails
  <2>1. \A h \in Hashes : quarantine'[h] = quarantine[h] \/ quarantine'[h] = 0
    BY <1>1 DEF Pass, PassSendFails, PassStart, PassBudget, PassCount, PassChoose, PassRequery,
       PassBroadcast, PassRequeried, PassSent, PassExpire, RemoveRequest, PassDrop, PassDropped,
       PassSweep, PassEnd, PassRead, PassBound, cleanup_aux_tracking, tracking
  <2>2. thread[Maintenance].pc # "clean"
    BY <1>1 DEF Pass, PassSendFails, PassStart, PassBudget, PassCount, PassChoose, PassRequery,
       PassBroadcast, PassRequeried, PassSent, PassExpire, RemoveRequest, PassDrop, PassDropped,
       PassSweep, PassEnd, PassRead, PassBound, At
  <2> QED BY <1>0, <1>1, <2>1, <2>2, PassThreads, QuarantineKept
<1>2. CASE Tick
  <2>1. \A u \in Threads : thread[u].pc # "clean"
    BY <1>2 DEF Tick, Threads
  <2>2. \A h \in Hashes : quarantine[h] = 0
    BY <1>0, <2>1, Numbers DEF QuarantineEndsWithEviction, At
  <2>3. \A h \in Hashes : quarantine'[h] = AtLeast(quarantine[h] - 1, 0)
    BY <1>2 DEF Tick
  <2>4. \A h \in Hashes : quarantine'[h] = 0
    BY <2>2, <2>3 DEF AtLeast
  <2> QED BY <2>4 DEF QuarantineEndsWithEviction
<1>3. ASSUME NEW t \in Threads, Shared(t) PROVE QuarantineEndsWithEviction'
  <2>0. ThreadsTyped' /\ \A u \in Threads \ {t} : thread'[u] = thread[u]
    BY <1>0, <1>3, SharedThreads
  <2>1. CASE Evict(t) \/ register_retry_attempt(t)
    <3>1. thread[t].pc # "clean" /\ quarantine' = quarantine
      BY <2>1 DEF Evict, RemoveRequest, register_retry_attempt, tracking, At
    <3> QED BY <2>0, <3>1, QuarantineKept
  <2>2. CASE mark_retry_budget_quarantine(t)
    <3>1. /\ thread[t].pc = "mark"
          /\ quarantine' = [quarantine EXCEPT ![thread[t].hash] = RETRY_BUDGET_QUARANTINE]
          /\ Goto(t, "clean")
      BY <2>2 DEF mark_retry_budget_quarantine, At
    <3>2. thread'[t].pc = "clean" /\ thread'[t].hash = thread[t].hash
      BY <1>0, <3>1, GotoEffect DEF Steps, Restarting
    <3>3. ASSUME NEW h \in Hashes, quarantine'[h] > 0, h # thread[t].hash
          PROVE  \E u \in Threads : thread'[u].pc = "clean" /\ thread'[u].hash = h
      <4>1. PICK u \in Threads : thread[u].pc = "clean" /\ thread[u].hash = h
        BY <1>0, <3>1, <3>3 DEF QuarantineEndsWithEviction, At
      <4> QED BY <2>0, <3>1, <4>1
    <3> QED BY <3>2, <3>3 DEF QuarantineEndsWithEviction, At
  <2>3. CASE cleanup_aux_tracking_for_hash(t)
    <3>1. /\ quarantine'[thread[t].hash] = 0 \/ thread[t].hash \notin Hashes
          /\ \A h \in Hashes \ {thread[t].hash} : quarantine'[h] = quarantine[h]
      BY <2>3 DEF cleanup_aux_tracking_for_hash, cleanup_aux_tracking
    <3>2. ASSUME NEW h \in Hashes, quarantine'[h] > 0
          PROVE  \E u \in Threads : thread'[u].pc = "clean" /\ thread'[u].hash = h
      <4>1. h # thread[t].hash /\ quarantine[h] > 0
        BY <3>1, <3>2
      <4>2. PICK u \in Threads : thread[u].pc = "clean" /\ thread[u].hash = h
        BY <4>1 DEF QuarantineEndsWithEviction, At
      <4> QED BY <2>0, <4>1, <4>2
    <3> QED BY <3>2 DEF QuarantineEndsWithEviction, At
  <2> QED BY <1>3, <2>1, <2>2, <2>3 DEF Shared
<1>4. ASSUME NEW c \in Callers,
             Call(c) \/ RecoverSendFails(c) \/ \E input \in Inputs : CallStart(c, input)
      PROVE  QuarantineEndsWithEviction'
  <2>1. \A h \in Hashes : quarantine'[h] = quarantine[h] \/ quarantine'[h] = 0
    BY <1>4 DEF Call, RecoverSendFails, CallStart, AdmitQuarantine, AdmitTable,
       RecoverQuarantine, RecoverBudget, RecoverCooldown, RecoverReopen, RecoverSent,
       is_received, ack_receive, ack_received, cleanup_hash_tracking, cleanup_aux_tracking,
       tracking
  <2>2. thread[c].pc # "clean"
    BY <1>4 DEF Call, RecoverSendFails, CallStart, AdmitQuarantine, AdmitTable,
       RecoverQuarantine, RecoverBudget, RecoverCooldown, RecoverReopen, RecoverSent,
       is_received, ack_receive, ack_received, cleanup_hash_tracking, At
  <2> QED BY <1>0, <1>4, <2>1, <2>2, CallThreads, QuarantineKept, ThreadsAre
<1>5. CASE UNCHANGED vars
  BY <1>5 DEF vars, tracking, QuarantineEndsWithEviction, At
<1> QED BY <1>1, <1>2, <1>3, <1>4, <1>5 DEF Next

\* A hash in quarantine has a thread on its way to erase the quarantine, for any
\* number of callers: the quarantine outlives the eviction in no state in which
\* every thread is between two calls.
THEOREM QuarantineIsErased == Spec => []QuarantineEndsWithEviction
<1>1. Init => QuarantineEndsWithEviction
  BY DEF Init, QuarantineEndsWithEviction
<1> QED BY <1>1, SpecBase, NextQuarantine, PTL DEF Spec

-----------------------------------------------------------------------------
\* The retry budget

\* A thread that passed the budget check and may still count an attempt.
PastPc == {"count", "choose", "requery", "broadcast", "send", "sendKnown", "register",
           "cooldown", "reopen"}

PastCheck(t) == \/ thread[t].pc \in PastPc
                \/ thread[t].pc \in {"admit", "table"} /\ thread[t].op = "recover"

Past(h) == {t \in Threads : thread[t].hash = h /\ PastCheck(t)}

\* Every attempt beyond the budget was granted to a thread that is still past
\* the check, or was when another counted the last one within it.
BudgetFor(h) ==
    retryAttempts[h] + Cardinality(Past(h)) <= MAX_RETRIES_PER_HASH - 1 + Cardinality(Threads)

Budgeted == \A h \in Hashes : BudgetFor(h)

\* How a step may change the attempts and the threads past the check.
LEMMA BudgetStep ==
    ASSUME Base, NEW h \in Hashes, BudgetFor(h),
           \/ retryAttempts'[h] = 0
           \/ retryAttempts'[h] = retryAttempts[h] /\ Past(h)' \subseteq Past(h)
           \/ retryAttempts'[h] = retryAttempts[h] /\ retryAttempts[h] < MAX_RETRIES_PER_HASH
           \/ /\ retryAttempts'[h] = retryAttempts[h] + 1
              /\ \E t \in Past(h) : Past(h)' \subseteq Past(h) \ {t}
    PROVE  BudgetFor(h)'
<1>1. /\ Past(h) \subseteq Threads /\ Past(h)' \subseteq Threads
      /\ IsFiniteSet(Threads) /\ Cardinality(Threads) \in Nat
  BY ThreadsAre, FS_CardinalityType DEF Past
<1>2. /\ IsFiniteSet(Past(h)) /\ IsFiniteSet(Past(h)')
      /\ Cardinality(Past(h)') <= Cardinality(Threads)
      /\ Cardinality(Past(h)) \in Nat /\ Cardinality(Past(h)') \in Nat
  BY <1>1, FS_Subset, FS_CardinalityType
<1>3. retryAttempts[h] \in Nat /\ MAX_RETRIES_PER_HASH \in Nat \ {0}
  BY Numbers DEF Base, BookTyped
<1>4. CASE retryAttempts'[h] = 0 \/ (retryAttempts'[h] = retryAttempts[h]
                                       /\ retryAttempts[h] < MAX_RETRIES_PER_HASH)
  BY <1>1, <1>2, <1>3, <1>4 DEF BudgetFor
<1>5. CASE retryAttempts'[h] = retryAttempts[h] /\ Past(h)' \subseteq Past(h)
  <2>1. Cardinality(Past(h)') <= Cardinality(Past(h))
    BY <1>2, <1>5, FS_Subset
  <2> QED BY <1>1, <1>2, <1>3, <1>5, <2>1 DEF BudgetFor
<1>6. ASSUME retryAttempts'[h] = retryAttempts[h] + 1, NEW t \in Past(h),
             Past(h)' \subseteq Past(h) \ {t}
      PROVE  BudgetFor(h)'
  <2>1. /\ IsFiniteSet(Past(h) \ {t})
        /\ Cardinality(Past(h) \ {t}) = Cardinality(Past(h)) - 1
    BY <1>2, FS_RemoveElement
  <2>2. Cardinality(Past(h)') <= Cardinality(Past(h) \ {t})
    BY <1>6, <2>1, FS_Subset
  <2> QED BY <1>1, <1>2, <1>3, <1>6, <2>1, <2>2 DEF BudgetFor
<1> QED BY <1>4, <1>5, <1>6

\* A thread that moves on without passing the check adds nobody.
LEMMA PastKept ==
    ASSUME NEW t \in Threads, \A u \in Threads \ {t} : thread'[u] = thread[u],
           ~ PastCheck(t)' \/ (PastCheck(t) /\ thread'[t].hash = thread[t].hash)
    PROVE  \A h \in Hashes : Past(h)' \subseteq Past(h)
<1>1. \A u \in Threads \ {t} : PastCheck(u)' <=> PastCheck(u)
  BY DEF PastCheck
<1> QED BY <1>1 DEF Past

\* The same for a Goto.
LEMMA GotoPast ==
    ASSUME ThreadsTyped, NEW t \in Threads, NEW pc \in Steps, Goto(t, pc),
           \/ pc \notin PastPc \cup {"admit", "table"}
           \/ PastCheck(t)
           \/ pc \in {"admit", "table"} /\ thread[t].op # "recover"
    PROVE  \A h \in Hashes : Past(h)' \subseteq Past(h)
<1>1. /\ thread'[t].pc = pc /\ \A u \in Threads \ {t} : thread'[u] = thread[u]
      /\ pc \notin Restarting => /\ thread'[t].hash = thread[t].hash
                                 /\ thread'[t].op = thread[t].op
  BY GotoEffect
<1>2. pc \in Restarting => ~ PastCheck(t)'
  BY <1>1 DEF Restarting, PastCheck, PastPc
<1>3. ~ PastCheck(t)' \/ (PastCheck(t) /\ thread'[t].hash = thread[t].hash)
  BY <1>1, <1>2 DEF PastCheck, PastPc
<1> QED BY <1>1, <1>3, PastKept

\* The steps of the pass.
LEMMA PassBudgeted ==
    ASSUME Base, Budgeted, Pass \/ PassSendFails
    PROVE  Budgeted'
<1> DEFINE m == Maintenance
<1>0. m \in Threads /\ ThreadsTyped /\ requeryAttempts \in [Hashes -> Nat]
      /\ thread \in [Threads -> ThreadType]
  BY ThreadsAre DEF Base, BookTyped, ThreadsTyped
<1>1. ASSUME \A h \in Hashes : Past(h)' \subseteq Past(h),
             \A h \in Hashes : retryAttempts'[h] = retryAttempts[h] \/ retryAttempts'[h] = 0
      PROVE  Budgeted'
  BY <1>1, BudgetStep DEF Budgeted
<1>2. \A h \in Hashes : retryAttempts'[h] = retryAttempts[h] \/ retryAttempts'[h] = 0
  BY DEF Pass, PassSendFails, PassStart, PassBudget, PassCount, PassChoose, PassRequery,
     PassBroadcast, PassRequeried, PassSent, PassExpire, RemoveRequest, PassDrop, PassDropped,
     PassSweep, PassEnd, PassRead, PassBound, cleanup_aux_tracking, tracking, counters
<1>3. ASSUME NEW pc \in Steps, Goto(m, pc), PastCheck(m) \/ pc \notin PastPc \cup {"admit", "table"}
      PROVE  Budgeted'
  BY <1>0, <1>1, <1>2, <1>3, GotoPast
<1>4. CASE PassStart \/ PassExpire \/ PassDrop \/ PassDropped \/ PassSweep \/ PassEnd
             \/ PassSendFails \/ (\E H \in SUBSET Hashes : PassBound(H))
  BY <1>3, <1>4 DEF PassStart, PassExpire, RemoveRequest, Return, PassDrop, PassDropped,
     PassSweep, PassEnd, PassSendFails, PassBound, Steps, PastPc
<1>5. CASE PassChoose \/ PassRequery \/ PassBroadcast \/ PassRequeried \/ PassSent
  <2>1. PastCheck(m)
    BY <1>5 DEF PassChoose, PassRequery, PassBroadcast, PassRequeried, PassSent, At, PastCheck,
       PastPc
  <2> QED BY <1>3, <1>5, <2>1 DEF PassChoose, PassRequery, PassBroadcast, PassRequeried,
       PassSent, Steps
<1>6. CASE PassBudget
  <2>1. CASE has_exceeded_retry_budget(thread[m].hash)
    BY <1>3, <1>6, <2>1 DEF PassBudget, Steps, PastPc
  <2>2. CASE ~ has_exceeded_retry_budget(thread[m].hash)
    <3>1. Goto(m, "count") /\ retryAttempts' = retryAttempts
      BY <1>6, <2>2 DEF PassBudget, tracking, counters
    <3>2. ASSUME NEW h \in Hashes, h # thread[m].hash PROVE Past(h)' \subseteq Past(h)
      <4>1. thread'[m].hash # h /\ \A u \in Threads \ {m} : thread'[u] = thread[u]
        BY <1>0, <3>1, <3>2, GotoEffect DEF Steps, Restarting
      <4> QED BY <4>1 DEF Past, PastCheck
    <3>3. ASSUME NEW h \in Hashes, h = thread[m].hash
          PROVE  retryAttempts[h] < MAX_RETRIES_PER_HASH
      <4>1. retryAttempts[h] \in Nat /\ MAX_RETRIES_PER_HASH \in Nat
        BY Numbers DEF Base, BookTyped
      <4> QED BY <2>2, <3>3, <4>1 DEF has_exceeded_retry_budget
    <3> QED BY <3>1, <3>2, <3>3, BudgetStep DEF Budgeted
  <2> QED BY <2>1, <2>2
<1>7. CASE PassCount
  <2>1. /\ thread[m].pc = "count" /\ \A u \in Threads \ {m} : thread'[u] = thread[u]
        /\ thread'[m].hash = thread[m].hash
    BY <1>0, <1>7 DEF PassCount, At, ThreadType
  <2> QED BY <1>0, <1>1, <1>2, <2>1, PastKept DEF PastCheck, PastPc
<1>8. ASSUME NEW h \in Hashes, PassRead(h) PROVE Budgeted'
  <2>1. /\ \A u \in Threads \ {m} : thread'[u] = thread[u]
        /\ thread'[m] = IF PassDecision(h) = "loop" THEN thread[m]
                        ELSE [thread[m] EXCEPT !.pc = PassDecision(h), !.hash = h]
    BY <1>0, <1>8 DEF PassRead
  <2>2. PassDecision(h) \in {"loop", "budget", "expire"} /\ thread[m].pc = "loop"
    BY <1>8 DEF PassDecision, PassRead, At
  <2>3. thread'[m].pc \in {"loop", "budget", "expire"}
    BY <1>0, <2>1, <2>2 DEF ThreadType
  <2> QED BY <1>0, <1>1, <1>2, <2>1, <2>3, PastKept DEF PastCheck, PastPc
<1> QED BY <1>4, <1>5, <1>6, <1>7, <1>8 DEF Pass

\* The steps of the callers.
LEMMA CallBudgeted ==
    ASSUME Base, Budgeted, NEW c \in Callers,
           Call(c) \/ RecoverSendFails(c) \/ \E input \in Inputs : CallStart(c, input)
    PROVE  Budgeted'
<1>0. c \in Threads /\ ThreadsTyped /\ thread \in [Threads -> ThreadType]
  BY ThreadsAre DEF Base, ThreadsTyped
<1>1. ASSUME \A h \in Hashes : Past(h)' \subseteq Past(h) PROVE Budgeted'
  <2>1. \A h \in Hashes : retryAttempts'[h] = retryAttempts[h] \/ retryAttempts'[h] = 0
    BY DEF Call, RecoverSendFails, CallStart, AdmitQuarantine, AdmitTable,
       RecoverQuarantine, RecoverBudget, RecoverCooldown, RecoverReopen, RecoverSent,
       is_received, ack_receive, ack_received, cleanup_hash_tracking, cleanup_aux_tracking,
       tracking, counters
  <2> QED BY <1>1, <2>1, BudgetStep DEF Budgeted
<1>2. ASSUME NEW pc \in Steps, Goto(c, pc),
             \/ pc \notin PastPc \cup {"admit", "table"}
             \/ PastCheck(c)
             \/ pc \in {"admit", "table"} /\ thread[c].op # "recover"
      PROVE  Budgeted'
  BY <1>0, <1>1, <1>2, GotoPast
<1>3. CASE AdmitQuarantine(c) \/ \E conn \in Connections : AdmitTable(c, conn)
  BY <1>2, <1>3 DEF AdmitQuarantine, AdmitTable, At, Steps, PastPc, PastCheck
<1>4. CASE RecoverQuarantine(c) \/ is_received(c) \/ ack_receive(c) \/ ack_received(c)
             \/ cleanup_hash_tracking(c) \/ RecoverSendFails(c)
  BY <1>2, <1>4 DEF RecoverQuarantine, is_received, ack_receive, ack_received,
     cleanup_hash_tracking, RecoverSendFails, Steps, PastPc
<1>5. CASE RecoverCooldown(c) \/ RecoverReopen(c) \/ RecoverSent(c)
  <2>1. PastCheck(c)
    BY <1>5 DEF RecoverCooldown, RecoverReopen, RecoverSent, At, PastCheck, PastPc
  <2> QED BY <1>2, <1>5, <2>1 DEF RecoverCooldown, RecoverReopen, RecoverSent, Steps
<1>6. CASE RecoverBudget(c)
  <2>1. CASE has_exceeded_retry_budget(thread[c].hash)
    BY <1>2, <1>6, <2>1 DEF RecoverBudget, Steps, PastPc
  <2>2. CASE ~ has_exceeded_retry_budget(thread[c].hash)
    <3>1. Goto(c, "cooldown") /\ retryAttempts' = retryAttempts
      BY <1>6, <2>2 DEF RecoverBudget, tracking, counters
    <3>2. ASSUME NEW h \in Hashes, h # thread[c].hash PROVE Past(h)' \subseteq Past(h)
      <4>1. thread'[c].hash # h /\ \A u \in Threads \ {c} : thread'[u] = thread[u]
        BY <1>0, <3>1, <3>2, GotoEffect DEF Steps, Restarting
      <4> QED BY <4>1 DEF Past, PastCheck
    <3>3. ASSUME NEW h \in Hashes, h = thread[c].hash
          PROVE  retryAttempts[h] < MAX_RETRIES_PER_HASH
      <4>1. retryAttempts[h] \in Nat /\ MAX_RETRIES_PER_HASH \in Nat
        BY Numbers DEF Base, BookTyped
      <4> QED BY <2>2, <3>3, <4>1 DEF has_exceeded_retry_budget
    <3> QED BY <3>1, <3>2, <3>3, BudgetStep DEF Budgeted
  <2> QED BY <2>1, <2>2
<1>7. ASSUME NEW input \in Inputs, CallStart(c, input) PROVE Budgeted'
  <2>1. /\ \A u \in Threads \ {c} : thread'[u] = thread[u]
        /\ thread'[c].pc = FirstStep[input.op] /\ thread'[c].op = input.op
    BY <1>0, <1>7 DEF CallStart
  <2>2. input.op \in DOMAIN FirstStep
    BY RetrieverAssumption
  <2>3. ~ PastCheck(c)'
    BY <2>1, <2>2 DEF FirstStep, PastCheck, PastPc
  <2> QED BY <1>0, <1>1, <2>1, <2>3, PastKept
<1> QED BY <1>3, <1>4, <1>5, <1>6, <1>7 DEF Call

\* Every step keeps the bound.
LEMMA NextBudgeted == Base /\ Budgeted /\ [Next]_vars => Budgeted'
<1> SUFFICES ASSUME Base, Budgeted, [Next]_vars PROVE Budgeted'
  OBVIOUS
<1>0. ThreadsTyped /\ Maintenance \in Threads /\ Threads = Callers \cup {Maintenance}
  BY ThreadsAre DEF Base, Threads
<1>1. CASE Tick
  <2>1. \A h \in Hashes : Past(h)' \subseteq Past(h)
    <3>1. CASE thread[Maintenance].pc \in {"send", "sendKnown"}
      BY <1>0, <1>1, <3>1, TickThreads DEF Past, PastCheck
    <3>2. CASE thread[Maintenance].pc \notin {"send", "sendKnown"}
      <4>1. /\ thread'[Maintenance].pc = "idle"
            /\ \A u \in Threads \ {Maintenance} : thread'[u] = thread[u]
        BY <1>0, <1>1, <3>2, TickThreads
      <4> QED BY <1>0, <4>1, PastKept DEF PastCheck, PastPc
    <3> QED BY <3>1, <3>2
  <2> QED BY <1>1, <2>1, BudgetStep DEF Tick, counters, Budgeted
<1>2. ASSUME NEW t \in Threads, Shared(t) PROVE Budgeted'
  <2>1. CASE Evict(t) \/ mark_retry_budget_quarantine(t) \/ cleanup_aux_tracking_for_hash(t)
    <3>1. \A h \in Hashes : Past(h)' \subseteq Past(h)
      BY <1>0, <2>1, GotoPast DEF Evict, RemoveRequest, mark_retry_budget_quarantine,
         cleanup_aux_tracking_for_hash, Return, Steps, PastPc
    <3>2. \A h \in Hashes : retryAttempts'[h] = retryAttempts[h] \/ retryAttempts'[h] = 0
      BY <2>1 DEF Evict, RemoveRequest, mark_retry_budget_quarantine,
         cleanup_aux_tracking_for_hash, cleanup_aux_tracking, tracking, counters
    <3> QED BY <3>1, <3>2, BudgetStep DEF Budgeted
  <2>2. CASE register_retry_attempt(t)
    <3>1. /\ thread[t].pc = "register" /\ Goto(t, Return(t)) /\ Return(t) \in {"loop", "idle"}
          /\ retryAttempts' = [retryAttempts EXCEPT ![thread[t].hash] = @ + 1]
      BY <2>2 DEF register_retry_attempt, At, Return
    <3>2. \A h \in Hashes : Past(h)' \subseteq Past(h)
      BY <1>0, <3>1, GotoPast DEF Steps, PastPc
    <3>3. ASSUME NEW h \in Hashes PROVE BudgetFor(h)'
      <4>1. retryAttempts \in [Hashes -> Nat]
        BY DEF Base, BookTyped
      <4>2. CASE h # thread[t].hash
        BY <3>1, <3>2, <4>1, <4>2, BudgetStep DEF Budgeted
      <4>3. CASE h = thread[t].hash
        <5>1. t \in Past(h)
          BY <3>1, <4>3 DEF Past, PastCheck, PastPc
        <5>2. thread'[t].pc \in {"loop", "idle"}
          BY <1>0, <3>1, GotoEffect DEF Steps
        <5>3. t \notin Past(h)'
          BY <5>2 DEF Past, PastCheck, PastPc
        <5> QED BY <3>1, <3>2, <4>1, <4>3, <5>1, <5>3, BudgetStep DEF Budgeted
      <4> QED BY <4>2, <4>3
    <3> QED BY <3>3 DEF Budgeted
  <2> QED BY <1>2, <2>1, <2>2 DEF Shared
<1>3. CASE UNCHANGED vars
  BY <1>3 DEF vars, tracking, counters, Budgeted, BudgetFor, Past, PastCheck
<1> QED BY <1>1, <1>2, <1>3, PassBudgeted, CallBudgeted DEF Next

\* The bound holds in every reachable state.
LEMMA SpecBudgeted == Spec => []Budgeted
<1>1. Init => Budgeted
  <2> SUFFICES ASSUME Init, NEW h \in Hashes PROVE BudgetFor(h)
    BY DEF Budgeted
  <2>1. Past(h) = {}
    BY DEF Init, Past, PastCheck, PastPc, Idle
  <2>2. Cardinality(Past(h)) = 0 /\ retryAttempts[h] = 0
    BY <2>1, FS_EmptySet DEF Init
  <2> QED BY <2>2, ThreadsAre, Numbers DEF BudgetFor
<1> QED BY <1>1, SpecBase, NextBudgeted, PTL DEF Spec

\* The budget implies the bound on the attempts.
LEMMA BudgetedBounds == Base /\ Budgeted => RetryOvershootBounded
<1> SUFFICES ASSUME Base, Budgeted, NEW h \in Hashes
             PROVE  retryAttempts[h] <= MAX_RETRIES_PER_HASH + Cardinality(Callers)
  BY DEF RetryOvershootBounded
<1>1. Past(h) \subseteq Threads /\ IsFiniteSet(Threads)
  BY ThreadsAre DEF Past
<1>2. Cardinality(Past(h)) \in Nat
  BY <1>1, FS_Subset, FS_CardinalityType
<1> QED BY <1>2, ThreadsAre, Numbers DEF Base, BookTyped, Budgeted, BudgetFor

\* The attempts for a hash pass their budget by at most one per caller, for any
\* number of callers: the check and the count are under different locks, but a
\* thread that passed the check counts once before it checks again.
THEOREM OvershootBounded == Spec => []RetryOvershootBounded
  BY SpecBase, SpecBudgeted, BudgetedBounds, PTL

-----------------------------------------------------------------------------
\* The request table

\* Induction over the natural numbers, for a set.
LEMMA LeastNumber ==
    ASSUME NEW T, T \subseteq Nat, T # {}
    PROVE  \E m \in T : \A n \in T : m <= n
<1> DEFINE R == OpToRel(<, Nat)
<1>1. IsWellFoundedOn(R, Nat)
  BY NatLessThanWellFounded
<1>2. \A x, y \in Nat : x < y => <<x, y>> \in R
  BY DEF OpToRel
<1> HIDE DEF R
<1>3. PICK x \in T : \A y \in T : ~ (<<y, x>> \in R)
  BY <1>1, WFMin
<1>4. ASSUME NEW y \in T PROVE x <= y
  <2>1. x \in Nat /\ y \in Nat
    OBVIOUS
  <2>2. ~ (y < x)
    BY <1>2, <1>3, <2>1
  <2> QED BY <2>1, <2>2
<1> QED BY <1>4

\* A set with 0 and the successors of its members has every number up to n.
LEMMA SetInduction ==
    ASSUME NEW n \in Nat, NEW T, 0 \in T, \A i \in 0..(n - 1) : i \in T => i + 1 \in T
    PROVE  n \in T
<1> SUFFICES ASSUME n \notin T PROVE FALSE
  OBVIOUS
<1> DEFINE U == {i \in 0..n : i \notin T}
<1>1. PICK m \in U : \A i \in U : m <= i
  <2>1. U \subseteq Nat /\ n \in U
    OBVIOUS
  <2> HIDE DEF U
  <2> QED BY <2>1, LeastNumber
<1>2. m \in 0..n /\ m \notin T /\ m # 0
  BY <1>1
<1>3. m - 1 \in 0..(n - 1) /\ m - 1 \in T
  BY <1>1, <1>2
<1> QED BY <1>2, <1>3

\* A waiting list of peers that differ from each other and from those asked.
FreshList(waiting, asked) ==
    /\ waiting \in Seq(Peers)
    /\ Len(waiting) <= MAX_WAITING_LIST_PER_HASH
    /\ \A i \in 1..Len(waiting) : waiting[i] \notin asked
    /\ \A i, j \in 1..Len(waiting) : waiting[i] = waiting[j] => i = j

\* Offering a candidate keeps the list fresh.
LEMMA OfferedFresh ==
    ASSUME NEW waiting, NEW asked, FreshList(waiting, asked), NEW p \in Peers
    PROVE  FreshList(Offered(waiting, asked, p), asked)
<1> DEFINE w == Append(waiting, p)
<1>1. CASE Len(waiting) >= MAX_WAITING_LIST_PER_HASH \/ p \in RangeOf(waiting) \cup asked
  BY <1>1 DEF Offered
<1>2. CASE ~ (Len(waiting) >= MAX_WAITING_LIST_PER_HASH \/ p \in RangeOf(waiting) \cup asked)
  <2>1. waiting \in Seq(Peers) /\ Len(waiting) \in Nat /\ DOMAIN waiting = 1..Len(waiting)
    BY DEF FreshList
  <2>2. p \notin asked /\ \A i \in 1..Len(waiting) : waiting[i] # p
    BY <1>2, <2>1 DEF RangeOf
  <2>3. /\ w \in Seq(Peers) /\ Len(w) = Len(waiting) + 1 /\ w[Len(w)] = p
        /\ \A i \in 1..Len(waiting) : w[i] = waiting[i]
    BY <2>1
  <2>4. Len(w) <= MAX_WAITING_LIST_PER_HASH
    BY <1>2, <2>1, <2>3, Numbers
  <2> HIDE DEF w
  <2>5. \A i \in 1..Len(w) : i \in 1..Len(waiting) \/ i = Len(w)
    BY <2>1, <2>3
  <2>6. FreshList(w, asked)
    BY <2>1, <2>2, <2>3, <2>4, <2>5 DEF FreshList
  <2> QED BY <1>2, <2>6 DEF Offered, w
<1> QED BY <1>1, <1>2

\* The loop of append_missing_dependency_peers as a function of the index.
IsWalk(f, waiting, asked, cs) ==
    f = [i \in 0..Len(cs) |-> IF i = 0 THEN waiting ELSE Offered(f[i - 1], asked, cs[i])]

\* The first n values of the loop.
IsPart(f, n, waiting, asked, cs) ==
    /\ f \in [0..n -> Seq(Peers)]
    /\ f[0] = waiting
    /\ \A i \in 1..n : f[i] = Offered(f[i - 1], asked, cs[i])
    /\ \A i \in 0..n : FreshList(f[i], asked)

\* The loop ends with a fresh list, whatever the candidates are.
LEMMA AppendFresh ==
    ASSUME NEW r, FreshList(r.waiting, r.peers), NEW cs \in Seq(Peers)
    PROVE  FreshList(append_missing_dependency_peers(r, cs), r.peers)
<1> DEFINE w == r.waiting
           a == r.peers
           n == Len(cs)
           T == {i \in 0..n : \E f : IsPart(f, i, w, a, cs)}
<1>0. n \in Nat /\ \A i \in 1..n : cs[i] \in Peers
  OBVIOUS
<1>1. 0 \in T
  <2> DEFINE f == [i \in 0..0 |-> w]
  <2>1. IsPart(f, 0, w, a, cs)
    BY DEF IsPart, FreshList
  <2> QED BY <1>0, <2>1
<1>2. ASSUME NEW k \in 0..(n - 1), k \in T PROVE k + 1 \in T
  <2>1. PICK f : IsPart(f, k, w, a, cs)
    BY <1>2
  <2> DEFINE g == [i \in 0..(k + 1) |-> IF i = k + 1 THEN Offered(f[k], a, cs[k + 1]) ELSE f[i]]
  <2>2. FreshList(Offered(f[k], a, cs[k + 1]), a)
    BY <1>0, <2>1, OfferedFresh DEF IsPart
  <2>3. \A i \in 0..k : g[i] = f[i] /\ i \in 0..(k + 1)
    OBVIOUS
  <2>4. g[k + 1] = Offered(f[k], a, cs[k + 1])
    OBVIOUS
  <2>5. \A i \in 0..(k + 1) : i \in 0..k \/ i = k + 1
    OBVIOUS
  <2>6. g \in [0..(k + 1) -> Seq(Peers)]
    BY <2>1, <2>2 DEF IsPart, FreshList
  <2> HIDE DEF g
  <2>7. \A i \in 1..(k + 1) : g[i] = Offered(g[i - 1], a, cs[i])
    <3> SUFFICES ASSUME NEW i \in 1..(k + 1) PROVE g[i] = Offered(g[i - 1], a, cs[i])
      OBVIOUS
    <3>1. CASE i = k + 1
      BY <2>3, <2>4, <3>1
    <3>2. CASE i # k + 1
      <4>1. i \in 1..k /\ i \in 0..k /\ i - 1 \in 0..k
        BY <3>2
      <4> QED BY <2>1, <2>3, <4>1 DEF IsPart
    <3> QED BY <3>1, <3>2
  <2>8. IsPart(g, k + 1, w, a, cs)
    BY <2>1, <2>2, <2>3, <2>4, <2>5, <2>6, <2>7 DEF IsPart
  <2> QED BY <1>0, <2>8
<1>3. n \in T
  <2> HIDE DEF T, n
  <2> QED BY <1>0, <1>1, <1>2, SetInduction
<1>4. PICK f : IsPart(f, n, w, a, cs)
  BY <1>3
<1>5. IsWalk(f, w, a, cs)
  BY <1>0, <1>4 DEF IsPart, IsWalk
<1> DEFINE g == CHOOSE x : IsWalk(x, w, a, cs)
<1>6. IsWalk(g, w, a, cs) /\ append_missing_dependency_peers(r, cs) = g[n]
  BY <1>5 DEF append_missing_dependency_peers, IsWalk
<1> HIDE DEF g
<1> DEFINE V == {i \in 0..n : g[i] = f[i]}
<1>7. 0 \in V
  BY <1>0, <1>5, <1>6 DEF IsWalk
<1>8. ASSUME NEW k \in 0..(n - 1), k \in V PROVE k + 1 \in V
  <2>1. k + 1 \in 0..n /\ k + 1 # 0 /\ (k + 1) - 1 = k
    BY <1>0
  <2>2. g[k + 1] = Offered(g[k], a, cs[k + 1])
    BY <1>6, <2>1 DEF IsWalk
  <2>3. f[k + 1] = Offered(f[k], a, cs[k + 1])
    BY <1>5, <2>1 DEF IsWalk
  <2> QED BY <1>8, <2>1, <2>2, <2>3
<1>9. n \in V
  <2> HIDE DEF V, n
  <2> QED BY <1>0, <1>7, <1>8, SetInduction
<1> QED BY <1>0, <1>4, <1>6, <1>9 DEF IsPart

\* Every entry of the table is well formed and its waiting list fresh.
EntryOK(r) == r \in RequestStates /\ FreshList(r.waiting, r.peers)

EntriesOK ==
    /\ requested \in [Hashes -> RequestStates \cup {None}]
    /\ \A h \in Hashes : requested[h] # None => EntryOK(requested[h])

\* No entry is None.
LEMMA NoneIsNoEntry == None \notin RequestStates
<1>1. RequestStates \subseteq [age : Nat, life : Nat, received : BOOLEAN,
                               waiting : Seq(Peers), peers : SUBSET Peers, cursor : Nat]
  BY CapsTyped, Numbers DEF RequestStates
<1> QED BY <1>1, RetrieverAssumption

\* A record with the fields of an entry is one.
LEMMA EntryBuilt ==
    ASSUME NEW a \in 0..MaxAge, NEW l \in 0..MaxLife, NEW b \in BOOLEAN, NEW w,
           NEW p \in SUBSET Peers, NEW c \in 0..(CursorModulus - 1), FreshList(w, p)
    PROVE  EntryOK([age |-> a, life |-> l, received |-> b, waiting |-> w, peers |-> p,
                    cursor |-> c])
  BY DEF EntryOK, RequestStates, FreshList

\* An entry is the record of its fields.
LEMMA EntryFields ==
    ASSUME NEW r, EntryOK(r)
    PROVE  /\ r = [age |-> r.age, life |-> r.life, received |-> r.received,
                   waiting |-> r.waiting, peers |-> r.peers, cursor |-> r.cursor]
           /\ r.age \in 0..MaxAge /\ r.life \in 0..MaxLife /\ r.received \in BOOLEAN
           /\ r.waiting \in Seq(Peers) /\ r.peers \in SUBSET Peers
           /\ r.cursor \in 0..(CursorModulus - 1) /\ FreshList(r.waiting, r.peers)
  BY DEF EntryOK, RequestStates

\* A prefix of a list without repetitions, when nobody was asked.
LEMMA PrefixFresh ==
    ASSUME NEW s \in Seq(Peers), \A i, j \in 1..Len(s) : s[i] = s[j] => i = j
    PROVE  FreshList(SubSeq(s, 1, AtMost(Len(s), MAX_WAITING_LIST_PER_HASH)), {})
<1> DEFINE n == AtMost(Len(s), MAX_WAITING_LIST_PER_HASH)
           w == SubSeq(s, 1, n)
<1>1. Len(s) \in Nat /\ MAX_WAITING_LIST_PER_HASH \in Nat
  BY Numbers
<1>2. n \in Nat /\ n <= Len(s) /\ n <= MAX_WAITING_LIST_PER_HASH
  BY <1>1 DEF AtMost
<1> HIDE DEF n
<1>3. \A i \in 1..n : s[i] \in Peers
  BY <1>1, <1>2
<1>4. /\ w \in Seq(Peers) /\ Len(w) = IF 1 <= n THEN n - 1 + 1 ELSE 0
      /\ \A i \in 1..(n - 1 + 1) : w[i] = s[1 + i - 1]
  BY <1>2, <1>3, SubSeqProperties
<1>5. Len(w) = n /\ \A i \in 1..n : w[i] = s[i] /\ i \in 1..Len(s)
  BY <1>1, <1>2, <1>4
<1> HIDE DEF w
<1> QED BY <1>2, <1>4, <1>5 DEF FreshList, w, n

\* add_new_request makes a good entry.
LEMMA NewRequestOK ==
    ASSUME NEW b \in BOOLEAN, NEW s \in Seq(Peers),
           \A i, j \in 1..Len(s) : s[i] = s[j] => i = j
    PROVE  EntryOK(add_new_request(b, s)) /\ add_new_request(b, s).age = 0
<1>1. /\ 0 \in 0..MaxAge /\ 0 \in 0..MaxLife /\ 0 \in 0..(CursorModulus - 1)
      /\ {} \in SUBSET Peers
  BY CapsTyped, Numbers
<1> QED BY <1>1, PrefixFresh, EntryBuilt DEF add_new_request

\* An entry was renewed, or is as old as before.
AgeKept(e, r) == e.age = 0 \/ (r # None /\ e.age = r.age)

\* admit_hash makes a good entry of a good one.
LEMMA AdmitOK ==
    ASSUME EntriesOK, NEW h \in Hashes, NEW peer \in Peers \cup {None}, NEW conn \in Connections
    PROVE  /\ EntryOK(AfterAdmit(h, peer, conn))
           /\ AgeKept(AfterAdmit(h, peer, conn), requested[h])
<1> DEFINE r == requested[h]
<1>1. /\ conn \in Seq(Peers) /\ \A i, j \in 1..Len(conn) : conn[i] = conn[j] => i = j
  <2>1. conn \in Seq(Peers) /\ \A i, j \in DOMAIN conn : conn[i] = conn[j] => i = j
    BY RetrieverAssumption
  <2> QED BY <2>1
<1>2. CASE r = None
  <2>1. CASE peer # None
    <3>1. <<peer>> \in Seq(Peers) /\ Len(<<peer>>) = 1
      BY <2>1
    <3>2. /\ EntryOK(add_new_request(FALSE, <<peer>>))
          /\ add_new_request(FALSE, <<peer>>).age = 0
      <4>1. \A i, j \in 1..Len(<<peer>>) : <<peer>>[i] = <<peer>>[j] => i = j
        BY <3>1
      <4> QED BY <3>1, <4>1, NewRequestOK
    <3> QED BY <1>2, <2>1, <3>2 DEF AfterAdmit, AgeKept
  <2>2. CASE peer = None
    <3>1. EntryOK(add_new_request(FALSE, conn)) /\ add_new_request(FALSE, conn).age = 0
      BY <1>1, NewRequestOK
    <3> QED BY <1>2, <2>2, <3>1 DEF AfterAdmit, AgeKept
  <2> QED BY <2>1, <2>2
<1>3. CASE r # None
  <2>0. EntryOK(r)
    BY <1>3 DEF EntriesOK
  <2>1. ASSUME NEW w, FreshList(w, r.peers)
        PROVE  EntryOK([r EXCEPT !.waiting = w]) /\ AgeKept([r EXCEPT !.waiting = w], r)
    <3>1. [r EXCEPT !.waiting = w] = [age |-> r.age, life |-> r.life, received |-> r.received,
                                      waiting |-> w, peers |-> r.peers, cursor |-> r.cursor]
      BY <2>0, EntryFields
    <3>2. EntryOK([r EXCEPT !.waiting = w])
      BY <2>0, <2>1, <3>1, EntryFields, EntryBuilt
    <3>3. [r EXCEPT !.waiting = w].age = r.age
      BY <3>1
    <3> QED BY <1>3, <3>2, <3>3 DEF AgeKept
  <2>2. /\ EntryOK([r EXCEPT !.waiting = append_missing_dependency_peers(r, conn)])
        /\ AgeKept([r EXCEPT !.waiting = append_missing_dependency_peers(r, conn)], r)
    BY <1>1, <2>0, <2>1, AppendFresh, EntryFields
  <2>3. CASE r.received \/ Len(r.waiting) >= MAX_WAITING_LIST_PER_HASH
    BY <1>3, <2>0, <2>3 DEF AfterAdmit, AgeKept
  <2>4. CASE ~ (r.received \/ Len(r.waiting) >= MAX_WAITING_LIST_PER_HASH) /\ peer = None
    BY <1>3, <2>2, <2>4 DEF AfterAdmit
  <2>5. CASE /\ ~ (r.received \/ Len(r.waiting) >= MAX_WAITING_LIST_PER_HASH) /\ peer # None
             /\ peer \in RangeOf(r.waiting) \cup r.peers
    BY <1>3, <2>0, <2>5 DEF AfterAdmit, AgeKept
  <2>6. CASE /\ ~ (r.received \/ Len(r.waiting) >= MAX_WAITING_LIST_PER_HASH) /\ peer # None
             /\ peer \notin RangeOf(r.waiting) \cup r.peers
    <3>1. Offered(r.waiting, r.peers, peer) = Append(r.waiting, peer)
      BY <2>6 DEF Offered
    <3>2. FreshList(Append(r.waiting, peer), r.peers)
      BY <2>0, <2>6, <3>1, OfferedFresh DEF EntryOK
    <3>3. /\ EntryOK([r EXCEPT !.waiting = Append(r.waiting, peer)])
          /\ AgeKept([r EXCEPT !.waiting = Append(r.waiting, peer)], r)
      BY <2>1, <3>2
    <3> QED BY <1>3, <2>6, <3>3 DEF AfterAdmit
  <2> QED BY <2>3, <2>4, <2>5, <2>6
<1> QED BY <1>2, <1>3

\* No step but the passing of time makes an entry older.
AgesKept == \A h \in Hashes : requested'[h] # None => AgeKept(requested'[h], requested[h])

\* One entry changes into a good one or goes.
LEMMA OneEntry ==
    ASSUME EntriesOK, NEW h \in Hashes, NEW e,
           e = None \/ (EntryOK(e) /\ AgeKept(e, requested[h])),
           requested' = [requested EXCEPT ![h] = e]
    PROVE  EntriesOK' /\ AgesKept
<1>1. e \in RequestStates \cup {None}
  BY DEF EntryOK
<1> QED BY <1>1 DEF EntriesOK, AgesKept, AgeKept

\* The first waiting peer moves to those asked: the other fields stay.
LEMMA MovedFields ==
    ASSUME NEW r,
           r = [age |-> r.age, life |-> r.life, received |-> r.received,
                waiting |-> r.waiting, peers |-> r.peers, cursor |-> r.cursor]
    PROVE  [r EXCEPT !.waiting = Tail(@), !.peers = @ \cup {Head(r.waiting)}]
             = [age |-> r.age, life |-> r.life, received |-> r.received,
                waiting |-> Tail(r.waiting), peers |-> r.peers \cup {Head(r.waiting)},
                cursor |-> r.cursor]
<1> DEFINE x == Tail(r.waiting)
           y == r.peers \cup {Head(r.waiting)}
           m == [r EXCEPT !.waiting = x, !.peers = y]
<1>1. m = [age |-> r.age, life |-> r.life, received |-> r.received, waiting |-> x,
           peers |-> y, cursor |-> r.cursor]
  <2> HIDE DEF x, y
  <2>1. DOMAIN r = {"age", "life", "received", "waiting", "peers", "cursor"}
    OBVIOUS
  <2>2. m = [i \in DOMAIN r |-> IF i = "peers" THEN y ELSE IF i = "waiting" THEN x ELSE r[i]]
    BY Zenon
  <2>4. DOMAIN m = DOMAIN r
    BY <2>2, Zenon
  <2>5. /\ m.age = r.age /\ m.life = r.life /\ m.received = r.received
        /\ m.cursor = r.cursor /\ m.peers = y /\ m.waiting = x
    BY <2>1, <2>2
  <2>6. m = [i \in {"age", "life", "received", "waiting", "peers", "cursor"} |-> m[i]]
    BY <2>1, <2>2, <2>4
  <2> HIDE DEF m
  <2> QED BY <2>5, <2>6
<1> QED BY <1>1, Zenon

\* The entry try_rerequest leaves: its timestamp renewed, the next peer moved
\* from the waiting list to those asked, or the cursor advanced.
LEMMA ChooseEntry ==
    ASSUME EntriesOK, PassChoose, thread[Maintenance].hash \in Hashes
    PROVE  /\ EntriesOK' /\ AgesKept
           /\ \/ requested' = requested /\ requested[thread[Maintenance].hash] = None
              \/ requested'[thread[Maintenance].hash].age = 0
<1> DEFINE h == thread[Maintenance].hash
           r == requested[h]
           moved == [r EXCEPT !.waiting = Tail(@), !.peers = @ \cup {Head(r.waiting)}]
           turned == [r EXCEPT !.cursor = (@ + 1) % CursorModulus]
<1>0. requested \in [Hashes -> RequestStates \cup {None}] /\ 0 \in 0..MaxAge
  BY CapsTyped DEF EntriesOK
<1>1. CASE r = None
  <2>1. requested' = requested
    BY <1>1 DEF PassChoose
  <2> QED BY <1>1, <2>1 DEF EntriesOK, AgesKept, AgeKept
<1>2. ASSUME NEW e, EntryOK(e), requested' = [requested EXCEPT ![h] = Refreshed(e)]
      PROVE  EntriesOK' /\ AgesKept /\ requested'[h].age = 0
  <2>1. Refreshed(e) = [age |-> 0, life |-> e.life, received |-> e.received,
                        waiting |-> e.waiting, peers |-> e.peers, cursor |-> e.cursor]
    BY <1>2, EntryFields DEF Refreshed
  <2>2. EntryOK(Refreshed(e)) /\ Refreshed(e).age = 0
    BY <1>0, <1>2, <2>1, EntryFields, EntryBuilt
  <2>3. EntriesOK' /\ AgesKept
    BY <1>2, <2>2, OneEntry DEF AgeKept
  <2> QED BY <1>0, <1>2, <2>2, <2>3
<1>3. CASE r # None /\ r.waiting # <<>>
  <2>1. EntryOK(r) /\ FreshList(r.waiting, r.peers)
    BY <1>3 DEF EntriesOK, EntryOK
  <2>2. moved = [age |-> r.age, life |-> r.life, received |-> r.received,
                 waiting |-> Tail(r.waiting), peers |-> r.peers \cup {Head(r.waiting)},
                 cursor |-> r.cursor]
    <3>1. r = [age |-> r.age, life |-> r.life, received |-> r.received,
               waiting |-> r.waiting, peers |-> r.peers, cursor |-> r.cursor]
      BY <2>1, EntryFields
    <3> QED BY <3>1, MovedFields, Zenon
  <2>3. /\ r.waiting \in Seq(Peers) /\ Head(r.waiting) = r.waiting[1] /\ Head(r.waiting) \in Peers
        /\ Len(r.waiting) \in Nat \ {0}
        /\ Tail(r.waiting) \in Seq(Peers) /\ Len(Tail(r.waiting)) = Len(r.waiting) - 1
        /\ \A i \in 1..Len(Tail(r.waiting)) : Tail(r.waiting)[i] = r.waiting[i + 1]
    <3>1. r.waiting \in Seq(Peers) /\ Len(r.waiting) \in Nat \ {0}
      BY <1>3, <2>1, EmptySeq DEF FreshList
    <3> QED BY <1>3, <3>1, HeadTailProperties
  <2> DEFINE w == Tail(r.waiting)
             n == Len(r.waiting)
  <2>4. \A i \in 1..Len(w) : /\ w[i] = r.waiting[i + 1] /\ i + 1 \in 1..n /\ i + 1 # 1
                             /\ 1 \in 1..n
    BY <2>3
  <2>5. /\ \A i \in 1..n : r.waiting[i] \notin r.peers
        /\ \A i, j \in 1..n : r.waiting[i] = r.waiting[j] => i = j
        /\ n <= MAX_WAITING_LIST_PER_HASH
    BY <2>1 DEF FreshList
  <2>6. Len(w) <= MAX_WAITING_LIST_PER_HASH
    BY <2>3, <2>5, Numbers
  <2> HIDE DEF w, n
  <2>7. \A i, j \in 1..Len(w) : w[i] = w[j] => i = j
    <3> SUFFICES ASSUME NEW i \in 1..Len(w), NEW j \in 1..Len(w), w[i] = w[j] PROVE i = j
      OBVIOUS
    <3>1. i + 1 = j + 1
      BY <2>4, <2>5
    <3> QED BY <3>1
  <2>8. \A i \in 1..Len(w) : w[i] \notin r.peers \cup {Head(r.waiting)}
    BY <2>3, <2>4, <2>5
  <2>9. FreshList(w, r.peers \cup {Head(r.waiting)})
    BY <2>3, <2>6, <2>7, <2>8 DEF FreshList, w
  <2>10. EntryOK(moved)
    <3>1. /\ r.age \in 0..MaxAge /\ r.life \in 0..MaxLife /\ r.received \in BOOLEAN
          /\ r.peers \cup {Head(r.waiting)} \in SUBSET Peers
          /\ r.cursor \in 0..(CursorModulus - 1)
      BY <2>1, <2>3, EntryFields
    <3>2. FreshList(Tail(r.waiting), r.peers \cup {Head(r.waiting)})
      BY <2>9 DEF w
    <3>3. EntryOK([age |-> r.age, life |-> r.life, received |-> r.received,
                   waiting |-> Tail(r.waiting), peers |-> r.peers \cup {Head(r.waiting)},
                   cursor |-> r.cursor])
      BY <3>1, <3>2, EntryBuilt
    <3> QED BY <2>2, <3>3, Zenon
  <2>11. requested' = [requested EXCEPT ![h] = Refreshed(moved)]
    BY <1>3 DEF PassChoose
  <2> HIDE DEF moved
  <2> QED BY <1>2, <2>10, <2>11
<1>4. CASE r # None /\ r.waiting = <<>> /\ r.peers # {}
  <2>1. EntryOK(r)
    BY <1>4 DEF EntriesOK
  <2>2. turned = [age |-> r.age, life |-> r.life, received |-> r.received,
                  waiting |-> r.waiting, peers |-> r.peers,
                  cursor |-> (r.cursor + 1) % CursorModulus]
    BY <2>1, EntryFields
  <2>3. (r.cursor + 1) % CursorModulus \in 0..(CursorModulus - 1)
    <3>1. r.cursor + 1 \in Nat /\ CursorModulus \in Nat \ {0}
      BY <2>1, EntryFields, Numbers
    <3> QED BY <3>1
  <2>4. EntryOK(turned)
    BY <2>1, <2>2, <2>3, EntryFields, EntryBuilt
  <2>5. requested' = [requested EXCEPT ![h] = Refreshed(turned)]
    BY <1>4 DEF PassChoose
  <2> HIDE DEF turned
  <2> QED BY <1>2, <2>4, <2>5
<1>5. CASE r # None /\ r.waiting = <<>> /\ r.peers = {}
  <2>1. EntryOK(r) /\ requested' = [requested EXCEPT ![h] = Refreshed(r)]
    BY <1>5 DEF EntriesOK, PassChoose
  <2> QED BY <1>2, <2>1
<1> QED BY <1>1, <1>3, <1>4, <1>5

\* An entry whose received flag is set or cleared, and one renewed with it.
LEMMA FlagEntry ==
    ASSUME NEW r, EntryOK(r), NEW b \in BOOLEAN
    PROVE  /\ EntryOK([r EXCEPT !.received = b]) /\ [r EXCEPT !.received = b].age = r.age
           /\ EntryOK([r EXCEPT !.received = b, !.age = 0])
           /\ [r EXCEPT !.received = b, !.age = 0].age = 0
<1>0. r \in RequestStates /\ FreshList(r.waiting, r.peers) /\ 0 \in 0..MaxAge
  BY CapsTyped DEF EntryOK
<1> DEFINE x == [r EXCEPT !.received = b]
           y == [r EXCEPT !.received = b, !.age = 0]
<1>1. x \in RequestStates /\ x.waiting = r.waiting /\ x.peers = r.peers /\ x.age = r.age
  BY <1>0 DEF RequestStates
<1>2. y \in RequestStates /\ y.waiting = r.waiting /\ y.peers = r.peers /\ y.age = 0
  BY <1>0 DEF RequestStates
<1> HIDE DEF x, y
<1>3. EntryOK(x) /\ EntryOK(y)
  BY <1>0, <1>1, <1>2 DEF EntryOK
<1> QED BY <1>1, <1>2, <1>3 DEF x, y

\* What the steps of the pass and of the callers do to the table.
LEMMA StepEntries ==
    ASSUME Base, EntriesOK,
           \/ Pass \/ PassSendFails
           \/ \E t \in Threads : Shared(t)
           \/ \E c \in Callers : \/ Call(c) \/ RecoverSendFails(c)
                                 \/ \E input \in Inputs : CallStart(c, input)
    PROVE  EntriesOK' /\ AgesKept
<1>0. /\ ThreadsTyped /\ Maintenance \in Threads /\ Callers \subseteq Threads
      /\ \A t \in Threads : thread[t].pc \notin Loose => thread[t].hash \in Hashes
      /\ \A t \in Threads : thread[t].peer \in Peers \cup {None}
      /\ requested \in [Hashes -> RequestStates \cup {None}]
  BY ThreadsAre DEF Base, ThreadsTyped, ThreadType, EntriesOK
<1>1. CASE requested' = requested
  BY <1>1 DEF EntriesOK, AgesKept, AgeKept
<1>2. ASSUME NEW t \in Threads, thread[t].pc \notin Loose,
             requested' = [requested EXCEPT ![thread[t].hash] = None]
      PROVE  EntriesOK' /\ AgesKept
  BY <1>0, <1>2, OneEntry
<1>3. CASE Pass \/ PassSendFails
  <2>1. CASE PassExpire
    BY <1>0, <1>2, <2>1 DEF PassExpire, RemoveRequest, At, Loose
  <2>2. CASE PassChoose
    BY <1>0, <2>2, ChooseEntry DEF PassChoose, At, Loose
  <2>3. CASE PassDrop
    <3>1. requested' = [h \in Hashes |-> IF h \in todo THEN None ELSE requested[h]]
      BY <2>3 DEF PassDrop
    <3> QED BY <3>1 DEF EntriesOK, AgesKept, AgeKept
  <2>4. CASE ~ (PassExpire \/ PassChoose \/ PassDrop)
    <3>1. requested' = requested
      BY <1>3, <2>4 DEF Pass, PassSendFails, PassStart, PassBudget, PassCount, PassRequery,
         PassBroadcast, PassRequeried, PassSent, PassDropped, PassSweep, PassEnd, PassRead,
         PassBound
    <3> QED BY <1>1, <3>1
  <2> QED BY <2>1, <2>2, <2>3, <2>4
<1>4. ASSUME NEW t \in Threads, Shared(t) PROVE EntriesOK' /\ AgesKept
  <2>1. CASE Evict(t)
    BY <1>2, <2>1 DEF Evict, RemoveRequest, At, Loose
  <2>2. CASE ~ Evict(t)
    <3>1. requested' = requested
      BY <1>4, <2>2 DEF Shared, mark_retry_budget_quarantine, cleanup_aux_tracking_for_hash,
         register_retry_attempt
    <3> QED BY <1>1, <3>1
  <2> QED BY <2>1, <2>2
<1>5. ASSUME NEW c \in Callers,
             Call(c) \/ RecoverSendFails(c) \/ \E input \in Inputs : CallStart(c, input)
      PROVE  EntriesOK' /\ AgesKept
  <2> DEFINE h == thread[c].hash
  <2>0. c \in Threads
    BY <1>0
  <2>1. ASSUME NEW conn \in Connections, AdmitTable(c, conn) PROVE EntriesOK' /\ AgesKept
    <3>1. h \in Hashes /\ requested' = [requested EXCEPT ![h] = AfterAdmit(h, thread[c].peer, conn)]
      BY <1>0, <2>0, <2>1 DEF AdmitTable, At, Loose
    <3>2. /\ EntryOK(AfterAdmit(h, thread[c].peer, conn))
          /\ AgeKept(AfterAdmit(h, thread[c].peer, conn), requested[h])
      BY <1>0, <2>0, <3>1, AdmitOK
    <3> QED BY <3>1, <3>2, OneEntry
  <2>2. CASE RecoverReopen(c)
    <3>1. h \in Hashes
      BY <1>0, <2>0, <2>2 DEF RecoverReopen, At, Loose
    <3>2. CASE requested[h] = None
      BY <1>1, <2>2, <3>2 DEF RecoverReopen
    <3>3. CASE requested[h] # None
      <4> DEFINE e == [requested[h] EXCEPT !.received = FALSE, !.age = 0]
      <4>1. requested' = [requested EXCEPT ![h] = e]
        BY <1>0, <2>2, <3>1, <3>3 DEF RecoverReopen
      <4>2. EntryOK(e) /\ AgeKept(e, requested[h])
        BY <3>1, <3>3, FlagEntry DEF EntriesOK, AgeKept
      <4> HIDE DEF e
      <4> QED BY <3>1, <4>1, <4>2, OneEntry
    <3> QED BY <3>2, <3>3
  <2>3. CASE ack_receive(c)
    <3>1. h \in Hashes
      BY <1>0, <2>0, <2>3 DEF ack_receive, At, Loose
    <3>2. CASE requested[h] = None
      <4>1. EntryOK(add_new_request(TRUE, <<>>)) /\ add_new_request(TRUE, <<>>).age = 0
        <5>1. <<>> \in Seq(Peers) /\ Len(<<>>) = 0
          OBVIOUS
        <5>2. \A i, j \in 1..Len(<<>>) : <<>>[i] = <<>>[j] => i = j
          BY <5>1
        <5> QED BY <5>1, <5>2, NewRequestOK
      <4>2. requested' = [requested EXCEPT ![h] = add_new_request(TRUE, <<>>)]
        BY <2>3, <3>2 DEF ack_receive
      <4> QED BY <3>1, <4>1, <4>2, OneEntry DEF AgeKept
    <3>3. CASE requested[h] # None
      <4> DEFINE e == [requested[h] EXCEPT !.received = TRUE]
      <4>1. requested' = [requested EXCEPT ![h] = e]
        BY <1>0, <2>3, <3>1, <3>3 DEF ack_receive
      <4>2. EntryOK(e) /\ AgeKept(e, requested[h])
        BY <3>1, <3>3, FlagEntry DEF EntriesOK, AgeKept
      <4> HIDE DEF e
      <4> QED BY <3>1, <4>1, <4>2, OneEntry
    <3> QED BY <3>2, <3>3
  <2>4. CASE cleanup_hash_tracking(c)
    BY <1>2, <2>0, <2>4 DEF cleanup_hash_tracking, At, Loose
  <2>5. CASE ~ (\/ \E conn \in Connections : AdmitTable(c, conn)
                \/ RecoverReopen(c) \/ ack_receive(c) \/ cleanup_hash_tracking(c))
    <3>1. requested' = requested
      BY <1>5, <2>5 DEF Call, RecoverSendFails, CallStart, AdmitQuarantine, RecoverQuarantine,
         RecoverBudget, RecoverCooldown, RecoverSent, is_received, ack_received
    <3> QED BY <1>1, <3>1
  <2> QED BY <2>1, <2>2, <2>3, <2>4, <2>5
<1> QED BY <1>3, <1>4, <1>5

\* Time makes every entry older, up to the cap, and changes nothing else of it.
LEMMA TickEntries ==
    ASSUME EntriesOK, Tick
    PROVE  /\ EntriesOK'
           /\ \A h \in Hashes : requested'[h] # None =>
                  /\ requested[h] # None
                  /\ requested'[h].age = AtMost(requested[h].age + 1, MaxAge)
<1> DEFINE older(h) == [requested[h] EXCEPT !.age = AtMost(@ + 1, MaxAge),
                                            !.life = AtMost(@ + 1, MaxLife)]
<1>1. \A h \in Hashes : requested'[h] = IF requested[h] = None THEN None ELSE older(h)
  BY DEF Tick
<1>2. ASSUME NEW h \in Hashes, requested[h] # None
      PROVE  EntryOK(older(h)) /\ older(h).age = AtMost(requested[h].age + 1, MaxAge)
  <2> DEFINE r == requested[h]
             a == AtMost(r.age + 1, MaxAge)
             l == AtMost(r.life + 1, MaxLife)
             e == [r EXCEPT !.age = a, !.life = l]
  <2>1. r \in RequestStates /\ FreshList(r.waiting, r.peers)
    BY <1>2 DEF EntriesOK, EntryOK
  <2>2. r.age \in 0..MaxAge /\ r.life \in 0..MaxLife
    BY <2>1 DEF RequestStates
  <2>3. a \in 0..MaxAge /\ l \in 0..MaxLife
    BY <2>2, CapsTyped DEF AtMost
  <2>4. older(h) = e
    BY Zenon
  <2> HIDE DEF a, l, r
  <2>5. e \in RequestStates /\ e.waiting = r.waiting /\ e.peers = r.peers /\ e.age = a
    BY <2>1, <2>3 DEF RequestStates
  <2> HIDE DEF e
  <2>6. EntryOK(e)
    BY <2>1, <2>5 DEF EntryOK
  <2> QED BY <2>4, <2>5, <2>6, Zenon DEF a, r
<1>3. requested' \in [Hashes -> RequestStates \cup {None}]
  <2>1. requested' = [h \in Hashes |-> IF requested[h] = None THEN None ELSE older(h)]
    BY Zenon DEF Tick
  <2> HIDE DEF older
  <2>2. \A h \in Hashes : requested[h] # None => older(h) \in RequestStates
    BY <1>2 DEF EntryOK
  <2> QED BY <2>1, <2>2
<1> HIDE DEF older
<1> QED BY <1>1, <1>2, <1>3 DEF EntriesOK

\* Every step keeps the entries well formed and fresh.
LEMMA NextEntries == Base /\ EntriesOK /\ [Next]_vars => EntriesOK'
<1> SUFFICES ASSUME Base, EntriesOK, [Next]_vars PROVE EntriesOK'
  OBVIOUS
<1>1. CASE Tick
  BY <1>1, TickEntries
<1>2. CASE UNCHANGED vars
  BY <1>2 DEF vars, EntriesOK
<1>3. CASE Next /\ ~Tick
  BY <1>3, StepEntries DEF Next
<1> QED BY <1>1, <1>2, <1>3

\* They are so in every reachable state.
LEMMA SpecEntries == Spec => []EntriesOK
<1>1. Init => EntriesOK
  BY DEF Init, EntriesOK
<1> QED BY <1>1, SpecBase, NextEntries, PTL DEF Spec

\* A list without repetitions has as many members as places.
LEMMA DistinctCount ==
    ASSUME NEW w \in Seq(Peers), \A i, j \in 1..Len(w) : w[i] = w[j] => i = j
    PROVE  Cardinality(RangeOf(w)) = Len(w)
<1>1. Len(w) \in Nat /\ DOMAIN w = 1..Len(w) /\ w \in [1..Len(w) -> RangeOf(w)]
  BY DEF RangeOf
<1>2. ExistsBijection(1..Len(w), RangeOf(w))
  <2>1. w \in Bijection(1..Len(w), RangeOf(w))
    <3>1. \A y \in RangeOf(w) : \E i \in 1..Len(w) : w[i] = y
      BY <1>1 DEF RangeOf
    <3> QED BY <1>1, <3>1, Fun_IsBij
  <2> QED BY <2>1 DEF ExistsBijection
<1> QED BY <1>1, <1>2, FS_CountingElements

\* No peer waits twice for a hash, none waits that was asked, and the list keeps
\* its cap: however many callers admit and recover the hash while the pass asks
\* its peers, and for every list of connections they see.
THEOREM WaitingFresh == Spec => []WaitingPeersAreFresh
<1>1. EntriesOK => WaitingPeersAreFresh
  <2> SUFFICES ASSUME EntriesOK, NEW h \in Tracked
               PROVE  /\ Len(requested[h].waiting) <= MAX_WAITING_LIST_PER_HASH
                      /\ RangeOf(requested[h].waiting) \cap requested[h].peers = {}
                      /\ Cardinality(RangeOf(requested[h].waiting)) = Len(requested[h].waiting)
    BY DEF WaitingPeersAreFresh
  <2> DEFINE r == requested[h]
  <2>1. FreshList(r.waiting, r.peers)
    BY DEF Tracked, EntriesOK, EntryOK
  <2>2. Cardinality(RangeOf(r.waiting)) = Len(r.waiting)
    BY <2>1, DistinctCount DEF FreshList
  <2>3. RangeOf(r.waiting) \cap r.peers = {}
    BY <2>1 DEF FreshList, RangeOf
  <2> QED BY <2>1, <2>2, <2>3 DEF FreshList
<1> QED BY <1>1, SpecEntries, PTL

\* Every variable has its type in every reachable state: the table, the counters,
\* the cooldowns, the quarantine, the threads and the locals of the pass.
THEOREM RetrieverTyped == Spec => []TypeOK
<1>1. Base /\ EntriesOK => TypeOK
  BY DEF Base, EntriesOK, ThreadsTyped, ThreadType, BookTyped, LocalsTyped, TypeOK
<1> QED BY <1>1, SpecBase, SpecEntries, PTL

-----------------------------------------------------------------------------
\* The cooldowns of the pass

QCap == MaxCooldown(PEER_REQUERY_COOLDOWN)
BCap == MaxCooldown(BROADCAST_ONLY_COOLDOWN)

\* The longest cooldown, after backoff, is no longer than the age at which an
\* entry expires.  In the code a cooldown is at most 5 * 500 ms, and the default
\* requested-blocks-timeout is 30 s.
CooldownsBelowThreshold == QCap <= effective_age_threshold /\ BCap <= effective_age_threshold

Outlived(last, age) == last = Absent \/ last >= age

\* An action on a hash is at least as old as the timestamp of its entry.
NotBehind ==
    \A h \in Hashes : requested[h] # None =>
        /\ Outlived(lastRequery[h], AtMost(requested[h].age, QCap))
        /\ Outlived(lastBroadcast[h], AtMost(requested[h].age, BCap))

\* Once the pass found an entry expired, no cooldown can stop it.
MayRetry ==
    LET m == thread[Maintenance] IN
    /\ m.pc \in {"budget", "count", "choose", "requery"} => Outlived(lastRequery[m.hash], QCap)
    /\ m.pc \in {"budget", "count", "choose", "broadcast"} =>
           Outlived(lastBroadcast[m.hash], BCap)

\* The pass records an action on an entry it has just renewed.
JustRenewed ==
    LET m == thread[Maintenance] IN
    m.pc \in {"requery", "broadcast"} => requested[m.hash] = None \/ requested[m.hash].age = 0

RetryInv == NotBehind /\ MayRetry /\ JustRenewed

\* Time keeps an action at least as old as the entry.
LEMMA OutlivedOlder ==
    ASSUME NEW last \in {Absent} \cup Nat, NEW a \in Nat, NEW cap \in Nat,
           Outlived(last, AtMost(a, cap))
    PROVE  Outlived(Older(last, cap), AtMost(AtMost(a + 1, MaxAge), cap))
<1>1. MaxAge \in Nat
  BY CapsTyped
<1> QED BY <1>1 DEF Outlived, AtMost, Older, Absent

\* What the steps of the pass and of the callers do to the two cooldowns.
LEMMA StampsKept ==
    ASSUME Base,
           \/ Pass \/ PassSendFails
           \/ \E t \in Threads : Shared(t)
           \/ \E c \in Callers : \/ Call(c) \/ RecoverSendFails(c)
                                 \/ \E input \in Inputs : CallStart(c, input),
           NEW h \in Hashes
    PROVE  /\ \/ lastRequery'[h] \in {lastRequery[h], Absent}
              \/ PassRequery /\ h = thread[Maintenance].hash /\ lastRequery'[h] = 0
           /\ \/ lastBroadcast'[h] \in {lastBroadcast[h], Absent}
              \/ PassBroadcast /\ h = thread[Maintenance].hash /\ lastBroadcast'[h] = 0
<1>0. /\ lastRequery \in [Hashes -> {Absent} \cup Nat]
      /\ lastBroadcast \in [Hashes -> {Absent} \cup Nat]
  BY DEF Base, BookTyped
<1>1. CASE Pass \/ PassSendFails
  BY <1>0, <1>1 DEF Pass, PassSendFails, PassStart, PassBudget, PassCount, PassChoose,
     PassRequery, PassBroadcast, PassRequeried, PassSent, PassExpire, RemoveRequest, PassDrop,
     PassDropped, PassSweep, PassEnd, PassRead, PassBound, cleanup_aux_tracking, tracking,
     cooldowns
<1>2. ASSUME NEW t \in Threads, Shared(t)
      PROVE  /\ lastRequery'[h] \in {lastRequery[h], Absent}
             /\ lastBroadcast'[h] \in {lastBroadcast[h], Absent}
  BY <1>0, <1>2 DEF Shared, Evict, RemoveRequest, mark_retry_budget_quarantine,
     cleanup_aux_tracking_for_hash, register_retry_attempt, cleanup_aux_tracking, tracking,
     cooldowns
<1>3. ASSUME NEW c \in Callers,
             Call(c) \/ RecoverSendFails(c) \/ \E input \in Inputs : CallStart(c, input)
      PROVE  /\ lastRequery'[h] \in {lastRequery[h], Absent}
             /\ lastBroadcast'[h] \in {lastBroadcast[h], Absent}
  <2>1. CASE ack_received(c)
    BY <2>1 DEF ack_received, cleanup_aux_tracking
  <2>2. CASE RecoverCooldown(c)
    BY <2>2 DEF RecoverCooldown
  <2>3. CASE ~ (ack_received(c) \/ RecoverCooldown(c))
    <3>1. lastRequery' = lastRequery /\ lastBroadcast' = lastBroadcast
      BY <1>3, <2>3 DEF Call, RecoverSendFails, CallStart, AdmitQuarantine, AdmitTable,
         RecoverQuarantine, RecoverBudget, RecoverReopen, RecoverSent, is_received,
         ack_receive, cleanup_hash_tracking, tracking, cooldowns
    <3> QED BY <3>1
  <2> QED BY <2>1, <2>2, <2>3
<1> QED BY <1>1, <1>2, <1>3

\* Where the maintenance thread is after a step that is not the passing of time.
LEMMA PassMoves ==
    ASSUME Base,
           \/ Pass \/ PassSendFails
           \/ \E t \in Threads : Shared(t)
           \/ \E c \in Callers : \/ Call(c) \/ RecoverSendFails(c)
                                 \/ \E input \in Inputs : CallStart(c, input)
    PROVE  \/ thread'[Maintenance].pc \notin {"budget", "count", "choose", "requery", "broadcast"}
           \/ /\ thread'[Maintenance] = thread[Maintenance]
              /\ ~PassRequery /\ ~PassBroadcast
           \/ /\ thread'[Maintenance].pc = "budget"
              /\ \E h \in Hashes : /\ PassRead(h) /\ PassDecision(h) = "budget"
                                   /\ thread'[Maintenance].hash = h
           \/ /\ thread'[Maintenance].pc = "count" /\ PassBudget
              /\ thread'[Maintenance].hash = thread[Maintenance].hash
           \/ /\ thread'[Maintenance].pc = "choose" /\ PassCount
              /\ thread'[Maintenance].hash = thread[Maintenance].hash
           \/ /\ thread'[Maintenance].pc \in {"requery", "broadcast"} /\ PassChoose
              /\ thread'[Maintenance].hash = thread[Maintenance].hash
<1> DEFINE m == Maintenance
           Retrying == {"budget", "count", "choose", "requery", "broadcast"}
<1>0. /\ ThreadsTyped /\ m \in Threads /\ m \notin Callers /\ Callers \subseteq Threads
      /\ thread \in [Threads -> ThreadType] /\ thread[m] \in ThreadType
  BY ThreadsAre DEF Base, ThreadsTyped
<1>1. ASSUME NEW pc \in Steps, Goto(m, pc)
      PROVE  thread'[m].pc = pc /\ (pc \in Retrying => thread'[m].hash = thread[m].hash)
  BY <1>0, <1>1, GotoEffect DEF Restarting
<1>2. CASE Pass \/ PassSendFails
  <2>1. CASE PassStart \/ PassRequery \/ PassBroadcast \/ PassRequeried \/ PassSent
    BY <1>1, <2>1 DEF PassStart, PassRequery, PassBroadcast, PassRequeried, PassSent, Steps
  <2>2. CASE PassExpire \/ PassDrop \/ PassDropped \/ PassSweep \/ PassEnd \/ PassSendFails
    BY <1>1, <2>2 DEF PassExpire, RemoveRequest, Return, PassDrop, PassDropped, PassSweep,
       PassEnd, PassSendFails, Steps
  <2>3. CASE \E H \in SUBSET Hashes : PassBound(H)
    BY <1>1, <2>3 DEF PassBound, Steps
  <2>4. CASE PassBudget
    BY <1>1, <2>4 DEF PassBudget, Steps
  <2>5. CASE PassCount
    <3> DEFINE q == [thread[m] EXCEPT !.pc = "choose",
                                      !.count = requeryAttempts[thread[m].hash]]
    <3>1. q.pc = "choose" /\ q.hash = thread[m].hash
      BY <1>0 DEF ThreadType
    <3>2. thread' = [thread EXCEPT ![m] = q]
      BY <2>5 DEF PassCount
    <3> HIDE DEF q
    <3> QED BY <1>0, <2>5, <3>1, <3>2
  <2>6. CASE PassChoose
    BY <1>1, <2>6 DEF PassChoose, Steps
  <2>7. ASSUME NEW h \in Hashes, PassRead(h)
        PROVE  \/ thread'[m].pc \notin Retrying
               \/ /\ thread'[m].pc = "budget" /\ PassDecision(h) = "budget"
                  /\ thread'[m].hash = h
    <3> DEFINE q == [thread[m] EXCEPT !.pc = PassDecision(h), !.hash = h]
    <3>1. q.pc = PassDecision(h) /\ q.hash = h /\ PassDecision(h) \in {"loop", "budget", "expire"}
      BY <1>0 DEF ThreadType, PassDecision
    <3>2. /\ thread' = [thread EXCEPT ![m] = IF PassDecision(h) = "loop" THEN @ ELSE q]
          /\ thread[m].pc = "loop"
      BY <2>7 DEF PassRead, At
    <3> HIDE DEF q
    <3> QED BY <1>0, <3>1, <3>2
  <2> QED BY <1>2, <2>1, <2>2, <2>3, <2>4, <2>5, <2>6, <2>7 DEF Pass
<1>3. CASE Shared(m)
  BY <1>1, <1>3 DEF Shared, Evict, RemoveRequest, mark_retry_budget_quarantine,
     cleanup_aux_tracking_for_hash, register_retry_attempt, Return, Steps
<1>4. CASE ~ (Pass \/ PassSendFails \/ Shared(m))
  <2>1. thread'[m] = thread[m]
    BY <1>0, <1>4, SharedThreads, CallThreads
  <2> QED BY <1>4, <2>1 DEF Pass
<1> QED BY <1>2, <1>3, <1>4

\* A step that is not the passing of time keeps actions as old as their entries.
LEMMA StepNotBehind ==
    ASSUME Base, EntriesOK, RetryInv, EntriesOK', AgesKept,
           \A h \in Hashes :
               /\ \/ lastRequery'[h] \in {lastRequery[h], Absent}
                  \/ PassRequery /\ h = thread[Maintenance].hash /\ lastRequery'[h] = 0
               /\ \/ lastBroadcast'[h] \in {lastBroadcast[h], Absent}
                  \/ PassBroadcast /\ h = thread[Maintenance].hash /\ lastBroadcast'[h] = 0
    PROVE  NotBehind'
<1> SUFFICES ASSUME NEW h \in Hashes, requested'[h] # None
             PROVE  /\ Outlived(lastRequery'[h], AtMost(requested'[h].age, QCap))
                    /\ Outlived(lastBroadcast'[h], AtMost(requested'[h].age, BCap))
  BY DEF NotBehind, QCap, BCap
<1>0. QCap \in Nat /\ BCap \in Nat
  BY CapsTyped DEF QCap, BCap
<1>1. /\ lastRequery[h] \in {Absent} \cup Nat /\ lastBroadcast[h] \in {Absent} \cup Nat
      /\ requested'[h].age \in Nat
  <2>1. EntryOK(requested'[h])
    BY DEF EntriesOK
  <2>2. requested'[h].age \in 0..MaxAge
    BY <2>1, EntryFields
  <2> QED BY <2>2, CapsTyped DEF Base, BookTyped
<1>2. requested'[h].age = 0 \/ (requested[h] # None /\ requested'[h].age = requested[h].age)
  BY DEF AgesKept, AgeKept
<1>3. ASSUME PassRequery \/ PassBroadcast, h = thread[Maintenance].hash
      PROVE  requested'[h].age = 0
  <2>1. requested' = requested /\ thread[Maintenance].pc \in {"requery", "broadcast"}
    BY <1>3 DEF PassRequery, PassBroadcast, At
  <2> QED BY <1>3, <2>1 DEF RetryInv, JustRenewed
<1>4. AtMost(0, QCap) = 0 /\ AtMost(0, BCap) = 0
  BY <1>0 DEF AtMost
<1>5. \A l \in {Absent} \cup Nat : Outlived(l, 0)
  BY DEF Outlived, Absent
<1>6. CASE requested'[h].age = 0
  BY <1>1, <1>4, <1>5, <1>6 DEF Outlived
<1>7. CASE requested'[h].age # 0
  <2>1. /\ Outlived(lastRequery[h], AtMost(requested[h].age, QCap))
        /\ Outlived(lastBroadcast[h], AtMost(requested[h].age, BCap))
    BY <1>2, <1>7 DEF RetryInv, NotBehind
  <2>2. /\ lastRequery'[h] \in {lastRequery[h], Absent}
        /\ lastBroadcast'[h] \in {lastBroadcast[h], Absent}
    BY <1>3, <1>7
  <2> QED BY <1>2, <1>7, <2>1, <2>2 DEF Outlived
<1> QED BY <1>6, <1>7

\* The entry the pass found expired has outlived every cooldown.
LEMMA ExpiredOutlives ==
    ASSUME Base, EntriesOK, NotBehind, CooldownsBelowThreshold, NEW h \in Hashes,
           PassDecision(h) = "budget"
    PROVE  Outlived(lastRequery[h], QCap) /\ Outlived(lastBroadcast[h], BCap)
<1>1. requested[h] # None /\ Expired(h)
  BY DEF PassDecision, Tracked
<1>2. /\ requested[h].age \in Nat /\ lag \in Nat /\ retryAttempts[h] \in Nat
      /\ lastRequery[h] \in {Absent} \cup Nat /\ lastBroadcast[h] \in {Absent} \cup Nat
  <2>1. EntryOK(requested[h])
    BY <1>1 DEF EntriesOK
  <2>2. requested[h].age \in 0..MaxAge
    BY <2>1, EntryFields
  <2> QED BY <2>2, CapsTyped, Numbers DEF Base, BookTyped, LocalsTyped
<1>3. AtLeast(requested[h].age - lag, 0) > rerequest_interval(retryAttempts[h])
  BY <1>1 DEF Expired, ElapsedAtStart
<1>4. /\ rerequest_interval(retryAttempts[h]) \in Nat /\ effective_age_threshold \in Nat
      /\ rerequest_interval(retryAttempts[h]) >= effective_age_threshold
      /\ QCap \in Nat /\ BCap \in Nat
  BY <1>2, IntervalTyped, CapsTyped DEF QCap, BCap
<1>5. requested[h].age > effective_age_threshold
  BY <1>2, <1>3, <1>4 DEF AtLeast
<1>6. AtMost(requested[h].age, QCap) = QCap /\ AtMost(requested[h].age, BCap) = BCap
  BY <1>2, <1>4, <1>5 DEF AtMost, CooldownsBelowThreshold
<1> QED BY <1>1, <1>6 DEF NotBehind

\* Every step keeps the invariant.
LEMMA NextRetry ==
    ASSUME CooldownsBelowThreshold
    PROVE  Base /\ EntriesOK /\ RetryInv /\ [Next]_vars => RetryInv'
<1> SUFFICES ASSUME Base, EntriesOK, RetryInv, [Next]_vars PROVE RetryInv'
  OBVIOUS
<1> DEFINE m == Maintenance
           last == thread[m].hash
<1>0. /\ ThreadsTyped /\ m \in Threads
      /\ thread[m].pc \notin Loose => thread[m].hash \in Hashes
  BY ThreadsAre DEF Base, ThreadsTyped
<1>1. CASE UNCHANGED vars
  BY <1>1 DEF vars, tracking, cooldowns, RetryInv, NotBehind, MayRetry, JustRenewed, QCap, BCap
<1>2. CASE Tick
  <2>1. NotBehind'
    <3> SUFFICES ASSUME NEW h \in Hashes, requested'[h] # None
                 PROVE  /\ Outlived(lastRequery'[h], AtMost(requested'[h].age, QCap))
                        /\ Outlived(lastBroadcast'[h], AtMost(requested'[h].age, BCap))
      BY DEF NotBehind, QCap, BCap
    <3>1. requested[h] # None /\ requested'[h].age = AtMost(requested[h].age + 1, MaxAge)
      BY <1>2, TickEntries
    <3>2. /\ Outlived(lastRequery[h], AtMost(requested[h].age, QCap))
          /\ Outlived(lastBroadcast[h], AtMost(requested[h].age, BCap))
      BY <3>1 DEF RetryInv, NotBehind
    <3>3. /\ lastRequery'[h] = Older(lastRequery[h], QCap)
          /\ lastBroadcast'[h] = Older(lastBroadcast[h], BCap)
      BY <1>2 DEF Tick, QCap, BCap
    <3>4. requested[h].age \in Nat
      <4>1. EntryOK(requested[h])
        BY <3>1 DEF EntriesOK
      <4>2. requested[h].age \in 0..MaxAge
        BY <4>1, EntryFields
      <4> QED BY <4>2, CapsTyped
    <3>5. /\ lastRequery[h] \in {Absent} \cup Nat /\ lastBroadcast[h] \in {Absent} \cup Nat
          /\ QCap \in Nat /\ BCap \in Nat
      BY CapsTyped DEF Base, BookTyped, QCap, BCap
    <3> QED BY <3>1, <3>2, <3>3, <3>4, <3>5, OutlivedOlder
  <2>2. thread'[m].pc \in {"idle", "send", "sendKnown"}
    BY <1>0, <1>2, TickThreads
  <2> QED BY <2>1, <2>2 DEF RetryInv, MayRetry, JustRenewed
<1>3. CASE Next /\ ~Tick
  <2>0. \/ Pass \/ PassSendFails
        \/ \E t \in Threads : Shared(t)
        \/ \E c \in Callers : \/ Call(c) \/ RecoverSendFails(c)
                              \/ \E input \in Inputs : CallStart(c, input)
    BY <1>3 DEF Next
  <2>1. EntriesOK' /\ AgesKept
    BY <2>0, StepEntries
  <2>2. \A h \in Hashes :
            /\ \/ lastRequery'[h] \in {lastRequery[h], Absent}
               \/ PassRequery /\ h = thread[Maintenance].hash /\ lastRequery'[h] = 0
            /\ \/ lastBroadcast'[h] \in {lastBroadcast[h], Absent}
               \/ PassBroadcast /\ h = thread[Maintenance].hash /\ lastBroadcast'[h] = 0
    BY <2>0, StampsKept
  <2>3. NotBehind'
    BY <2>1, <2>2, StepNotBehind
  <2>4. CASE thread'[m].pc \notin {"budget", "count", "choose", "requery", "broadcast"}
    BY <2>3, <2>4 DEF RetryInv, MayRetry, JustRenewed
  <2>5. ASSUME thread[m].pc \in {"budget", "count", "choose", "requery", "broadcast"},
               ~PassRequery, ~PassBroadcast
        PROVE  /\ last \in Hashes
               /\ lastRequery'[last] \in {lastRequery[last], Absent}
               /\ lastBroadcast'[last] \in {lastBroadcast[last], Absent}
    BY <1>0, <2>2, <2>5 DEF Loose
  <2>6. CASE thread'[m] = thread[m] /\ ~PassRequery /\ ~PassBroadcast
             /\ thread[m].pc \in {"budget", "count", "choose", "requery", "broadcast"}
    <3>1. MayRetry'
      BY <2>5, <2>6 DEF RetryInv, MayRetry, Outlived, QCap, BCap
    <3>2. JustRenewed'
      BY <2>1, <2>5, <2>6 DEF RetryInv, JustRenewed, AgesKept, AgeKept
    <3> QED BY <2>3, <3>1, <3>2 DEF RetryInv
  <2>7. ASSUME NEW h \in Hashes, PassRead(h), PassDecision(h) = "budget",
               thread'[m].pc = "budget", thread'[m].hash = h
        PROVE  RetryInv'
    <3>1. Outlived(lastRequery[h], QCap) /\ Outlived(lastBroadcast[h], BCap)
      BY <2>7, ExpiredOutlives DEF RetryInv
    <3>2. lastRequery' = lastRequery /\ lastBroadcast' = lastBroadcast
      BY <2>7 DEF PassRead, tracking, cooldowns
    <3> QED BY <2>3, <2>7, <3>1, <3>2 DEF RetryInv, MayRetry, JustRenewed, QCap, BCap
  <2>8. ASSUME PassBudget \/ PassCount, thread'[m].pc \in {"count", "choose"},
               thread'[m].hash = last
        PROVE  RetryInv'
    <3>1. /\ lastRequery' = lastRequery /\ lastBroadcast' = lastBroadcast
          /\ thread[m].pc \in {"budget", "count"}
      BY <2>8 DEF PassBudget, PassCount, At, tracking, cooldowns
    <3> QED BY <2>3, <2>8, <3>1 DEF RetryInv, MayRetry, JustRenewed, QCap, BCap
  <2>9. ASSUME PassChoose, thread'[m].pc \in {"requery", "broadcast"}, thread'[m].hash = last
        PROVE  RetryInv'
    <3>1. /\ lastRequery' = lastRequery /\ lastBroadcast' = lastBroadcast
          /\ thread[m].pc = "choose"
      BY <2>9 DEF PassChoose, At, tracking, cooldowns
    <3>2. requested'[last] = None \/ requested'[last].age = 0
      BY <1>0, <2>9, <3>1, ChooseEntry DEF Loose
    <3> QED BY <2>3, <2>9, <3>1, <3>2 DEF RetryInv, MayRetry, JustRenewed, QCap, BCap
  <2> QED BY <2>0, <2>4, <2>6, <2>7, <2>8, <2>9, PassMoves
<1> QED BY <1>1, <1>2, <1>3

\* A request that outlived its cooldowns is not suppressed, at any number of attempts.
LEMMA OutlivedIsSent ==
    Base /\ RetryOvershootBounded /\ MayRetry => ExpiredRetryIsSent
<1> SUFFICES ASSUME Base, RetryOvershootBounded, MayRetry PROVE ExpiredRetryIsSent
  OBVIOUS
<1> DEFINE h == thread[Maintenance].hash
<1>1. CASE thread[Maintenance].pc \in {"requery", "broadcast"}
  <2>1. h \in Hashes
    BY <1>1, ThreadsAre DEF Base, ThreadsTyped, Loose
  <2>2. retryAttempts[h] \in Nat /\ retryAttempts[h] <= MaxAttempts /\ MaxAttempts \in Nat
    BY <2>1, CapsTyped DEF Base, BookTyped, RetryOvershootBounded, MaxAttempts
  <2>3. /\ retry_cooldown(PEER_REQUERY_COOLDOWN, retryAttempts[h]) \in Nat
        /\ retry_cooldown(BROADCAST_ONLY_COOLDOWN, retryAttempts[h]) \in Nat
        /\ retry_cooldown(PEER_REQUERY_COOLDOWN, retryAttempts[h]) <= QCap
        /\ retry_cooldown(BROADCAST_ONLY_COOLDOWN, retryAttempts[h]) <= BCap
    BY <2>2, Numbers, CooldownTyped DEF QCap, BCap, MaxCooldown
  <2>4. /\ lastRequery[h] \in {Absent} \cup Nat /\ lastBroadcast[h] \in {Absent} \cup Nat
        /\ QCap \in Nat /\ BCap \in Nat
    BY <2>1, CapsTyped DEF Base, BookTyped, QCap, BCap
  <2>5. Outlived(lastRequery[h], QCap) => ~Suppressed(lastRequery, PEER_REQUERY_COOLDOWN, h)
    BY <2>3, <2>4 DEF Outlived, Suppressed, Absent
  <2>6. Outlived(lastBroadcast[h], BCap) =>
            ~Suppressed(lastBroadcast, BROADCAST_ONLY_COOLDOWN, h)
    BY <2>3, <2>4 DEF Outlived, Suppressed, Absent
  <2> QED BY <2>5, <2>6 DEF MayRetry, ExpiredRetryIsSent, At
<1>2. CASE thread[Maintenance].pc \notin {"requery", "broadcast"}
  BY <1>2 DEF ExpiredRetryIsSent, At
<1> QED BY <1>1, <1>2

\* Whenever the longest cooldown is no longer than the age at which an entry
\* expires, the request that the pass makes for an expired entry is sent: whatever
\* recoveries, acknowledgements and clean-ups ran since the pass read the entry,
\* and however many attempts they counted.
THEOREM ExpiredIsSent ==
    ASSUME CooldownsBelowThreshold
    PROVE  Spec => []ExpiredRetryIsSent
<1>1. Init => RetryInv
  <2>1. Init => thread[Maintenance].pc = "idle"
    BY ThreadsAre DEF Init, Idle
  <2> QED BY <2>1 DEF Init, RetryInv, NotBehind, MayRetry, JustRenewed
<1>2. Base /\ EntriesOK /\ RetryInv /\ [Next]_vars => RetryInv'
  BY NextRetry
<1>3. Base /\ RetryOvershootBounded /\ RetryInv => ExpiredRetryIsSent
  BY OutlivedIsSent DEF RetryInv
<1> QED BY <1>1, <1>2, <1>3, SpecBase, SpecEntries, OvershootBounded, PTL DEF Spec
=============================================================================
