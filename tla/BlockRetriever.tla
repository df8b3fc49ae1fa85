--------------------------- MODULE BlockRetriever ---------------------------
(***************************************************************************)
(* The block retriever: the table of requested blocks, the retry budget,   *)
(* the cooldowns and the quarantine, used by the maintenance pass          *)
(* (request_all, one loop) and by any number of concurrent callers.        *)
(*                                                                         *)
(*   requested      requested_blocks: per hash its RequestState, or None   *)
(*   retryAttempts, requeryAttempts    retry_attempts_by_hash and          *)
(*                  peer_requery_attempts_by_hash (0: no entry)            *)
(*   lastBroadcast, lastRequery, lastRecovery    the three cooldown maps   *)
(*   quarantine     retry_budget_quarantine_until                          *)
(*   thread         per thread: program counter and locals                 *)
(*   todo, lag      locals of the pass: the hashes still to process, the   *)
(*                  time since it read current_time                        *)
(*   calls, failures    calls made and sends that failed so far            *)
(*                                                                         *)
(* Each map has its own mutex: a step of a thread is one lock section.     *)
(* Only the six removals of cleanup_aux_tracking_for_hash and the six      *)
(* retains of the sweep are taken together.                                *)
(*                                                                         *)
(* The code only ever compares differences of times, so a timestamp is     *)
(* kept as its age, which saturates where no comparison can tell it apart, *)
(* and the quarantine as the time it has left.  Time passes while threads  *)
(* are idle or wait for the network, never inside a synchronous section.   *)
(* The field in_casper_buffer is never set to true and is left out.        *)
(***************************************************************************)
EXTENDS Integers, Sequences, FiniteSets

CONSTANTS
    Hashes,
    Peers,
    None,          \* no peer, no hash, no entry in the table
    Connections,   \* the lists connections_cell may hold (first seed peers)
    Callers,       \* threads of the block processor, the handlers, start-up
    Inputs,        \* the calls they make: records [op, hash, peer]
    Maintenance,   \* the thread that runs request_all
    AgeThreshold,  \* requested_blocks_timeout
    MAX_REQUESTED_BLOCKS_ENTRIES,
    MAX_WAITING_LIST_PER_HASH,
    MAX_RETRIES_PER_HASH,
    KNOWN_PEER_REQUERY_SOFT_LIMIT,
    STALE_REQUEST_LIFETIME_MULTIPLIER,
    MIN_REREQUEST_INTERVAL,
    PEER_REQUERY_COOLDOWN,
    BROADCAST_ONLY_COOLDOWN,
    DEPENDENCY_RECOVERY_COOLDOWN,
    RETRY_BUDGET_QUARANTINE,
    CursorModulus, \* 2^32 in the code, where the cursor is a u32
    MaxLag,        \* bound: how long a pass may take
    MaxCalls,      \* bound: calls of the callers
    MaxFailures    \* bound: sends that fail

Threads == Callers \cup {Maintenance}
RangeOf(s) == {s[i] : i \in DOMAIN s}
AtMost(x, y) == IF x < y THEN x ELSE y
AtLeast(x, y) == IF x > y THEN x ELSE y

\* Which call, of which hash: a peer announced it (handle_block_hash_message,
\* handle_has_block_message), it is a missing or a stuck dependency
\* (request_missing_dependencies, fetch_dependencies,
\* recover_stale_buffer_dependencies), Casper has it (ack_processed, a
\* proposal), or the start-up pass enqueued or purged it.
FirstStep == [admit |-> "admit", recover |-> "recover", ack_in_casper |-> "is_received",
              ack_receive |-> "receive", forget |-> "forget"]

ASSUME RetrieverAssumption ==
    /\ Maintenance \notin Callers
    /\ IsFiniteSet(Callers)
    /\ Inputs \subseteq [op : DOMAIN FirstStep, hash : Hashes, peer : Peers \cup {None}]
    /\ \A i \in Inputs : i.peer # None => i.op = "admit"
    /\ None \notin Peers \cup Hashes
    /\ \A c \in Connections : /\ c \in Seq(Peers)
                              /\ \A i, j \in DOMAIN c : c[i] = c[j] => i = j
    /\ AgeThreshold \in Nat
    /\ {MAX_REQUESTED_BLOCKS_ENTRIES, MAX_WAITING_LIST_PER_HASH,
        MAX_RETRIES_PER_HASH, KNOWN_PEER_REQUERY_SOFT_LIMIT,
        STALE_REQUEST_LIFETIME_MULTIPLIER, MIN_REREQUEST_INTERVAL,
        CursorModulus, RETRY_BUDGET_QUARANTINE, MaxLag} \subseteq Nat \ {0}
    /\ {PEER_REQUERY_COOLDOWN, BROADCAST_ONLY_COOLDOWN,
        DEPENDENCY_RECOVERY_COOLDOWN, MaxCalls, MaxFailures} \subseteq Nat
    /\ None \notin [age : Nat, life : Nat, received : BOOLEAN,
                    waiting : Seq(Peers), peers : SUBSET Peers, cursor : Nat]

VARIABLES requested, retryAttempts, requeryAttempts, lastBroadcast, lastRequery,
          lastRecovery, quarantine, thread, todo, lag, calls, failures

cooldowns == <<lastBroadcast, lastRequery, lastRecovery>>
counters == <<retryAttempts, requeryAttempts>>
tracking == <<counters, cooldowns, quarantine>>
bounds == <<calls, failures>>
vars == <<requested, tracking, thread, todo, lag, bounds>>

Tracked == {h \in Hashes : requested[h] # None}

-----------------------------------------------------------------------------
(* Ages, intervals and backoff                                             *)

Absent == -1

effective_age_threshold == AtLeast(AgeThreshold, MIN_REREQUEST_INTERVAL)

rerequest_interval(attempts) ==
    effective_age_threshold *
        (IF attempts <= 4 THEN 1 ELSE 1 + AtMost((attempts - 4) \div 4, 7))

retry_cooldown(base, attempts) ==
    base * (IF attempts <= 8 THEN 1 ELSE 1 + AtMost((attempts - 8) \div 8, 4))

stale_request_lifetime == effective_age_threshold * STALE_REQUEST_LIFETIME_MULTIPLIER

\* Ages beyond these caps compare like the caps.
MaxAttempts == MAX_RETRIES_PER_HASH + Cardinality(Callers)
MaxAge == rerequest_interval(MaxAttempts) + MaxLag + 1
MaxLife == stale_request_lifetime + MaxLag + 1
MaxCooldown(base) == retry_cooldown(base, MaxAttempts)

\* saturating_sub from the current_time that the pass read at its start.
ElapsedAtStart(age) == AtLeast(age - lag, 0)

\* Mutant of has_exceeded_retry_budget: one attempt too many is granted.
PassedRetryBudget(h) == retryAttempts[h] > MAX_RETRIES_PER_HASH

has_exceeded_retry_budget(h) == retryAttempts[h] >= MAX_RETRIES_PER_HASH

\* The last action of this kind is younger than its cooldown.
Suppressed(last, base, h) ==
    last[h] # Absent /\ last[h] < retry_cooldown(base, retryAttempts[h])

-----------------------------------------------------------------------------
(* The request table                                                       *)

add_new_request(mark_as_received, source_peers) ==
    [age |-> 0, life |-> 0, received |-> mark_as_received,
     waiting |-> SubSeq(source_peers, 1,
                        AtMost(Len(source_peers), MAX_WAITING_LIST_PER_HASH)),
     peers |-> {}, cursor |-> 0]

\* A candidate joins the list if it neither waits nor was asked and there is room.
Offered(waiting, asked, candidate) ==
    IF Len(waiting) >= MAX_WAITING_LIST_PER_HASH \/ candidate \in RangeOf(waiting) \cup asked
      THEN waiting ELSE Append(waiting, candidate)

append_missing_dependency_peers(r, candidates) ==
    LET after[i \in 0..Len(candidates)] ==
            IF i = 0 THEN r.waiting ELSE Offered(after[i - 1], r.peers, candidates[i])
    IN  after[Len(candidates)]

\* Mutant of AfterAdmit: a peer that was already asked may be queued again.
AfterAdmitAskedAgain(h, peer, conn) ==
    LET r == requested[h] IN
    IF r = None
      THEN add_new_request(FALSE, IF peer # None THEN <<peer>> ELSE conn)
    ELSE IF r.received \/ Len(r.waiting) >= MAX_WAITING_LIST_PER_HASH
      THEN r
    ELSE IF peer = None
      THEN [r EXCEPT !.waiting = append_missing_dependency_peers(r, conn)]
      ELSE [r EXCEPT !.waiting = Append(@, peer)]

\* The table after admit_hash, or the same table when the hash is ignored.
AfterAdmit(h, peer, conn) ==
    LET r == requested[h] IN
    IF r = None
      THEN add_new_request(FALSE, IF peer # None THEN <<peer>> ELSE conn)
    ELSE IF r.received \/ Len(r.waiting) >= MAX_WAITING_LIST_PER_HASH
      THEN r
    ELSE IF peer = None
      THEN [r EXCEPT !.waiting = append_missing_dependency_peers(r, conn)]
    ELSE IF peer \in RangeOf(r.waiting) \cup r.peers
      THEN r
      ELSE [r EXCEPT !.waiting = Append(@, peer)]

\* Mutant of cleanup_aux_tracking: the quarantine map is left alone.
CleanupKeepsQuarantine(H) ==
    /\ retryAttempts' = [h \in Hashes |-> IF h \in H THEN 0 ELSE retryAttempts[h]]
    /\ requeryAttempts' = [h \in Hashes |-> IF h \in H THEN 0 ELSE requeryAttempts[h]]
    /\ lastBroadcast' = [h \in Hashes |-> IF h \in H THEN Absent ELSE lastBroadcast[h]]
    /\ lastRequery' = [h \in Hashes |-> IF h \in H THEN Absent ELSE lastRequery[h]]
    /\ lastRecovery' = [h \in Hashes |-> IF h \in H THEN Absent ELSE lastRecovery[h]]
    /\ UNCHANGED quarantine

\* cleanup_aux_tracking_for_hash, for the hashes of H.
cleanup_aux_tracking(H) ==
    /\ retryAttempts' = [h \in Hashes |-> IF h \in H THEN 0 ELSE retryAttempts[h]]
    /\ requeryAttempts' = [h \in Hashes |-> IF h \in H THEN 0 ELSE requeryAttempts[h]]
    /\ lastBroadcast' = [h \in Hashes |-> IF h \in H THEN Absent ELSE lastBroadcast[h]]
    /\ lastRequery' = [h \in Hashes |-> IF h \in H THEN Absent ELSE lastRequery[h]]
    /\ lastRecovery' = [h \in Hashes |-> IF h \in H THEN Absent ELSE lastRecovery[h]]
    /\ quarantine' = [h \in Hashes |-> IF h \in H THEN 0 ELSE quarantine[h]]

Idle == [pc |-> "idle", hash |-> None, op |-> None, peer |-> None, count |-> 0]

\* A thread that starts over keeps no locals.
Goto(t, pc) ==
    thread' = [thread EXCEPT ![t] = IF pc \in {"idle", "sleep", "loop"} THEN [Idle EXCEPT !.pc = pc]
                                                              ELSE [@ EXCEPT !.pc = pc, !.count = 0]]

\* Where a thread continues after a call: the pass takes its next hash.
Return(t) == IF t = Maintenance THEN "loop" ELSE "idle"

At(t, pc) == thread[t].pc = pc

-----------------------------------------------------------------------------
(* Steps shared by the pass and the callers                                *)

\* state.remove: the budget is used up, or the pass found the entry expired.
RemoveRequest(t, from, next) ==
    LET h == thread[t].hash IN
    /\ At(t, from)
    /\ requested' = [requested EXCEPT ![h] = None]
    /\ Goto(t, IF requested[h] # None THEN next ELSE Return(t))
    /\ UNCHANGED <<tracking, todo, lag, bounds>>

Evict(t) == RemoveRequest(t, "evict", "mark")

mark_retry_budget_quarantine(t) ==
    /\ At(t, "mark")
    /\ quarantine' = [quarantine EXCEPT ![thread[t].hash] = RETRY_BUDGET_QUARANTINE]
    /\ Goto(t, "clean")
    /\ UNCHANGED <<requested, counters, cooldowns, todo, lag, bounds>>

cleanup_aux_tracking_for_hash(t) ==
    /\ At(t, "clean")
    /\ cleanup_aux_tracking({thread[t].hash})
    /\ Goto(t, Return(t))
    /\ UNCHANGED <<requested, todo, lag, bounds>>

register_retry_attempt(t) ==
    /\ At(t, "register")
    /\ retryAttempts' = [retryAttempts EXCEPT ![thread[t].hash] = @ + 1]
    /\ Goto(t, Return(t))
    /\ UNCHANGED <<requested, requeryAttempts, cooldowns, quarantine, todo, lag, bounds>>

-----------------------------------------------------------------------------
(* request_all: one pass over a snapshot of the table                      *)

PassStart ==
    /\ At(Maintenance, "idle")
    /\ todo' = Tracked
    /\ lag' = 0
    /\ Goto(Maintenance, "loop")
    /\ UNCHANGED <<requested, tracking, bounds>>

Expired(h) == ElapsedAtStart(requested[h].age) > rerequest_interval(retryAttempts[h])
Stale(h) == ElapsedAtStart(requested[h].life) > stale_request_lifetime

\* Mutant of PassDecision: received entries are not looked at.
PassDecisionUnresolvedOnly(h) ==
    IF h \in Tracked /\ ~requested[h].received /\ Expired(h) THEN "budget" ELSE "loop"

\* What the pass decides for an entry from one look at it.
PassDecision(h) ==
    CASE h \notin Tracked -> "loop"
      [] h \in Tracked /\ ~requested[h].received -> IF Expired(h) THEN "budget" ELSE "loop"
      [] h \in Tracked /\ requested[h].received ->
           IF Expired(h) \/ Stale(h) THEN "expire" ELSE "loop"

PassRead(h) ==
    /\ At(Maintenance, "loop")
    /\ h \in todo
    /\ todo' = todo \ {h}
    /\ thread' = [thread EXCEPT ![Maintenance] =
                      IF PassDecision(h) = "loop" THEN @
                        ELSE [@ EXCEPT !.pc = PassDecision(h), !.hash = h]]
    /\ UNCHANGED <<requested, tracking, lag, bounds>>

PassBudget ==
    /\ At(Maintenance, "budget")
    /\ Goto(Maintenance, IF has_exceeded_retry_budget(thread[Maintenance].hash)
                           THEN "evict" ELSE "count")
    /\ UNCHANGED <<requested, tracking, todo, lag, bounds>>

\* try_rerequest reads the known-peer requeries before it locks the table.
PassCount ==
    LET h == thread[Maintenance].hash IN
    /\ At(Maintenance, "count")
    /\ thread' = [thread EXCEPT ![Maintenance].pc = "choose",
                                ![Maintenance].count = requeryAttempts[h]]
    /\ UNCHANGED <<requested, tracking, todo, lag, bounds>>

peer_requery_budget(r) ==
    AtLeast(1, AtMost(KNOWN_PEER_REQUERY_SOFT_LIMIT, Cardinality(r.peers)))

\* Mutant of Refreshed: the timestamp of the entry is not renewed.
NotRefreshed(r) == r

\* try_rerequest renews the timestamp in the lock section that picks the action.
Refreshed(r) == [r EXCEPT !.age = 0]

\* The next waiting peer, a known peer again while its budget lasts, or a
\* broadcast.
PassChoose ==
    LET h == thread[Maintenance].hash
        r == requested[h]
        Choose(r2, pc) == /\ requested' = [requested EXCEPT ![h] = Refreshed(r2)]
                          /\ Goto(Maintenance, pc)
    IN
    /\ At(Maintenance, "choose")
    /\ \/ /\ r = None
          /\ Goto(Maintenance, "loop")
          /\ UNCHANGED requested
       \/ /\ r # None /\ r.waiting # <<>>
          /\ Choose([r EXCEPT !.waiting = Tail(@), !.peers = @ \cup {Head(r.waiting)}],
                    "send")
       \/ /\ r # None /\ r.waiting = <<>> /\ r.peers # {}
          /\ Choose([r EXCEPT !.cursor = (@ + 1) % CursorModulus],
                    IF thread[Maintenance].count < peer_requery_budget(r)
                      THEN "requery" ELSE "broadcast")
       \/ /\ r # None /\ r.waiting = <<>> /\ r.peers = {}
          /\ Choose(r, "broadcast")
    /\ UNCHANGED <<tracking, todo, lag, bounds>>

PassRequery ==
    LET h == thread[Maintenance].hash
        suppressed == Suppressed(lastRequery, PEER_REQUERY_COOLDOWN, h)
    IN
    /\ At(Maintenance, "requery")
    /\ lastRequery' = IF suppressed THEN lastRequery ELSE [lastRequery EXCEPT ![h] = 0]
    /\ Goto(Maintenance, IF suppressed THEN "loop" ELSE "sendKnown")
    /\ UNCHANGED <<requested, counters, lastBroadcast, lastRecovery, quarantine,
                   todo, lag, bounds>>

PassBroadcast ==
    LET h == thread[Maintenance].hash
        suppressed == Suppressed(lastBroadcast, BROADCAST_ONLY_COOLDOWN, h)
    IN
    /\ At(Maintenance, "broadcast")
    /\ lastBroadcast' = IF suppressed THEN lastBroadcast
                                      ELSE [lastBroadcast EXCEPT ![h] = 0]
    /\ Goto(Maintenance, IF suppressed THEN "loop" ELSE "send")
    /\ UNCHANGED <<requested, counters, lastRequery, lastRecovery, quarantine,
                   todo, lag, bounds>>

\* A known peer was asked again: counted before the retry itself.
PassRequeried ==
    LET h == thread[Maintenance].hash IN
    /\ At(Maintenance, "sendKnown")
    /\ requeryAttempts' = [requeryAttempts EXCEPT ![h] = @ + 1]
    /\ Goto(Maintenance, "register")
    /\ UNCHANGED <<requested, retryAttempts, cooldowns, quarantine, todo, lag, bounds>>

PassSent ==
    /\ At(Maintenance, "send")
    /\ Goto(Maintenance, "register")
    /\ UNCHANGED <<requested, tracking, todo, lag, bounds>>

\* The transport reports an error: the whole pass ends, sweeps included.
PassSendFails ==
    /\ thread[Maintenance].pc \in {"send", "sendKnown"}
    /\ failures < MaxFailures
    /\ failures' = failures + 1
    /\ Goto(Maintenance, "sleep")
    /\ todo' = {}
    /\ lag' = 0
    /\ UNCHANGED <<requested, tracking, calls>>

PassExpire == RemoveRequest(Maintenance, "expire", "clean")

\* enforce_requested_blocks_bound: the first entries in the order of the sort
\* key (received last, then oldest first; ties in any order).
EvictionCandidates(H) ==
    LET over == Cardinality(Tracked) - MAX_REQUESTED_BLOCKS_ENTRIES
        Before(x, y) == \/ ~requested[x].received /\ requested[y].received
                        \/ /\ requested[x].received = requested[y].received
                           /\ requested[x].life > requested[y].life
    IN  /\ H \subseteq Tracked
        /\ Cardinality(H) = AtLeast(over, 0)
        /\ \A x \in H, y \in Tracked \ H : ~Before(y, x)

PassBound(H) ==
    /\ At(Maintenance, "loop")
    /\ todo = {}
    /\ EvictionCandidates(H)
    /\ todo' = H
    /\ Goto(Maintenance, IF H = {} THEN "sweep" ELSE "drop")
    /\ UNCHANGED <<requested, tracking, lag, bounds>>

PassDrop ==
    /\ At(Maintenance, "drop")
    /\ requested' = [h \in Hashes |-> IF h \in todo THEN None ELSE requested[h]]
    /\ Goto(Maintenance, "dropped")
    /\ UNCHANGED <<tracking, todo, lag, bounds>>

PassDropped ==
    /\ At(Maintenance, "dropped")
    /\ cleanup_aux_tracking(todo)
    /\ Goto(Maintenance, "sweep")
    /\ UNCHANGED <<requested, todo, lag, bounds>>

\* sweep_orphaned_aux_tracking: the active hashes are read first; todo keeps
\* the others, whose tracking goes in the next step.
PassSweep ==
    /\ At(Maintenance, "sweep")
    /\ todo' = Hashes \ Tracked
    /\ Goto(Maintenance, "retain")
    /\ UNCHANGED <<requested, tracking, lag, bounds>>

\* An expired quarantine is one with no time left: nothing more to sweep.
PassEnd ==
    /\ At(Maintenance, "retain")
    /\ cleanup_aux_tracking(todo)
    /\ Goto(Maintenance, "sleep")
    /\ todo' = {}
    /\ lag' = 0
    /\ UNCHANGED <<requested, bounds>>

Pass ==
    \/ PassStart \/ PassBudget \/ PassCount \/ PassChoose
    \/ PassRequery \/ PassBroadcast \/ PassRequeried \/ PassSent
    \/ PassExpire \/ PassDrop \/ PassDropped \/ PassSweep \/ PassEnd
    \/ \E h \in Hashes : PassRead(h)
    \/ \E H \in SUBSET Hashes : PassBound(H)

-----------------------------------------------------------------------------
(* The callers                                                             *)

CallStart(c, input) ==
    /\ At(c, "idle")
    /\ calls < MaxCalls
    /\ calls' = calls + 1
    /\ thread' = [thread EXCEPT ![c] = [pc |-> FirstStep[input.op], hash |-> input.hash,
                                       op |-> input.op, peer |-> input.peer, count |-> 0]]
    /\ UNCHANGED <<requested, tracking, todo, lag, failures>>

\* admit_hash looks at the quarantine before it locks the table.  What a plain
\* admit_hash sends changes nothing here; recover_dependency waits for it.
AdmitQuarantine(c) ==
    /\ At(c, "admit")
    /\ Goto(c, IF quarantine[thread[c].hash] = 0 THEN "table"
               ELSE IF thread[c].op = "recover" THEN "send" ELSE "idle")
    /\ UNCHANGED <<requested, tracking, todo, lag, bounds>>

AdmitTable(c, conn) ==
    LET h == thread[c].hash IN
    /\ At(c, "table")
    /\ requested' = [requested EXCEPT ![h] = AfterAdmit(h, thread[c].peer, conn)]
    /\ Goto(c, IF thread[c].op = "recover" THEN "send" ELSE "idle")
    /\ UNCHANGED <<tracking, todo, lag, bounds>>

RecoverQuarantine(c) ==
    /\ At(c, "recover")
    /\ Goto(c, IF quarantine[thread[c].hash] = 0 THEN "budget" ELSE "idle")
    /\ UNCHANGED <<requested, tracking, todo, lag, bounds>>

RecoverBudget(c) ==
    /\ At(c, "budget")
    /\ Goto(c, IF has_exceeded_retry_budget(thread[c].hash) THEN "evict" ELSE "cooldown")
    /\ UNCHANGED <<requested, tracking, todo, lag, bounds>>

RecoverCooldown(c) ==
    LET h == thread[c].hash
        skip == lastRecovery[h] # Absent /\ lastRecovery[h] < DEPENDENCY_RECOVERY_COOLDOWN
    IN
    /\ At(c, "cooldown")
    /\ lastRecovery' = IF skip THEN lastRecovery ELSE [lastRecovery EXCEPT ![h] = 0]
    /\ Goto(c, IF skip THEN "idle" ELSE "reopen")
    /\ UNCHANGED <<requested, counters, lastBroadcast, lastRequery, quarantine,
                   todo, lag, bounds>>

RecoverReopen(c) ==
    LET h == thread[c].hash IN
    /\ At(c, "reopen")
    /\ requested' = IF requested[h] = None THEN requested
                    ELSE [requested EXCEPT ![h].received = FALSE, ![h].age = 0]
    /\ Goto(c, "admit")
    /\ UNCHANGED <<tracking, todo, lag, bounds>>

RecoverSent(c) ==
    /\ At(c, "send")
    /\ Goto(c, "register")
    /\ UNCHANGED <<requested, tracking, todo, lag, bounds>>

RecoverSendFails(c) ==
    /\ At(c, "send")
    /\ failures < MaxFailures
    /\ failures' = failures + 1
    /\ Goto(c, "idle")
    /\ UNCHANGED <<requested, tracking, todo, lag, calls>>

is_received(c) ==
    LET r == requested[thread[c].hash] IN
    /\ At(c, "is_received")
    /\ Goto(c, IF r # None /\ r.received THEN "forget" ELSE "receive")
    /\ UNCHANGED <<requested, tracking, todo, lag, bounds>>

ack_receive(c) ==
    LET h == thread[c].hash IN
    /\ At(c, "receive")
    /\ requested' = IF requested[h] = None
                    THEN [requested EXCEPT ![h] = add_new_request(TRUE, <<>>)]
                    ELSE [requested EXCEPT ![h].received = TRUE]
    /\ Goto(c, "received")
    /\ UNCHANGED <<tracking, todo, lag, bounds>>

ack_received(c) ==
    /\ At(c, "received")
    /\ cleanup_aux_tracking({thread[c].hash})
    /\ Goto(c, IF thread[c].op = "ack_in_casper" THEN "forget" ELSE "idle")
    /\ UNCHANGED <<requested, todo, lag, bounds>>

cleanup_hash_tracking(c) ==
    /\ At(c, "forget")
    /\ requested' = [requested EXCEPT ![thread[c].hash] = None]
    /\ Goto(c, "clean")
    /\ UNCHANGED <<tracking, todo, lag, bounds>>

Call(c) ==
    \/ AdmitQuarantine(c) \/ \E conn \in Connections : AdmitTable(c, conn)
    \/ RecoverQuarantine(c) \/ RecoverBudget(c) \/ RecoverCooldown(c)
    \/ RecoverReopen(c) \/ RecoverSent(c)
    \/ is_received(c) \/ ack_receive(c) \/ ack_received(c) \/ cleanup_hash_tracking(c)

-----------------------------------------------------------------------------
(* Time: a tick is the casper_loop_interval that the loop sleeps between   *)
(* two passes.                                                             *)

Older(age, cap) == IF age = Absent THEN Absent ELSE AtMost(age + 1, cap)

Tick ==
    /\ \A c \in Callers : thread[c].pc \in {"idle", "send"}
    /\ thread[Maintenance].pc \in {"sleep", "send", "sendKnown"}
    /\ lag < MaxLag
    /\ lag' = IF At(Maintenance, "sleep") THEN 0 ELSE lag + 1
    /\ thread' = [thread EXCEPT ![Maintenance].pc = IF @ = "sleep" THEN "idle" ELSE @]
    /\ requested' = [h \in Hashes |->
          IF requested[h] = None THEN None
          ELSE [requested[h] EXCEPT !.age = AtMost(@ + 1, MaxAge),
                                    !.life = AtMost(@ + 1, MaxLife)]]
    /\ lastBroadcast' = [h \in Hashes |->
                          Older(lastBroadcast[h], MaxCooldown(BROADCAST_ONLY_COOLDOWN))]
    /\ lastRequery' = [h \in Hashes |->
                          Older(lastRequery[h], MaxCooldown(PEER_REQUERY_COOLDOWN))]
    /\ lastRecovery' = [h \in Hashes |->
                          Older(lastRecovery[h], DEPENDENCY_RECOVERY_COOLDOWN)]
    /\ quarantine' = [h \in Hashes |-> AtLeast(quarantine[h] - 1, 0)]
    /\ UNCHANGED <<counters, todo, bounds>>

-----------------------------------------------------------------------------
Init ==
    /\ requested = [h \in Hashes |-> None]
    /\ retryAttempts = [h \in Hashes |-> 0]
    /\ requeryAttempts = [h \in Hashes |-> 0]
    /\ lastBroadcast = [h \in Hashes |-> Absent]
    /\ lastRequery = [h \in Hashes |-> Absent]
    /\ lastRecovery = [h \in Hashes |-> Absent]
    /\ quarantine = [h \in Hashes |-> 0]
    /\ thread = [t \in Threads |-> Idle]
    /\ todo = {}
    /\ lag = 0
    /\ calls = 0
    /\ failures = 0

Shared(t) ==
    \/ Evict(t) \/ mark_retry_budget_quarantine(t)
    \/ cleanup_aux_tracking_for_hash(t) \/ register_retry_attempt(t)

Next ==
    \/ Pass \/ PassSendFails \/ Tick
    \/ \E t \in Threads : Shared(t)
    \/ \E c \in Callers :
          \/ Call(c) \/ RecoverSendFails(c)
          \/ \E input \in Inputs : CallStart(c, input)

Spec == Init /\ [][Next]_vars

\* The loop of setup.rs runs pass after pass, every thread is scheduled, and
\* time goes on.  No send fails forever: failures are bounded.
Fairness ==
    /\ WF_vars(Pass \/ Shared(Maintenance))
    /\ \A c \in Callers : WF_vars(Call(c) \/ Shared(c))
    /\ WF_vars(Tick)

FairSpec == Spec /\ Fairness

-----------------------------------------------------------------------------
(* Properties                                                              *)

RequestStates ==
    [age : 0..MaxAge, life : 0..MaxLife, received : BOOLEAN, waiting : Seq(Peers),
     peers : SUBSET Peers, cursor : 0..(CursorModulus - 1)]

Steps == {"idle", "sleep", "loop", "budget", "count", "choose", "requery", "broadcast",
          "send", "sendKnown", "register", "expire", "evict", "mark", "clean", "drop",
          "dropped", "sweep", "retain", "admit", "table", "recover", "cooldown",
          "reopen", "is_received", "receive", "received", "forget"}

\* Every variable keeps the shape the code's maps, counters and locals have.
TypeOK ==
    /\ requested \in [Hashes -> RequestStates \cup {None}]
    /\ retryAttempts \in [Hashes -> Nat]
    /\ requeryAttempts \in [Hashes -> Nat]
    /\ lastBroadcast \in [Hashes -> {Absent} \cup Nat]
    /\ lastRequery \in [Hashes -> {Absent} \cup Nat]
    /\ lastRecovery \in [Hashes -> {Absent} \cup Nat]
    /\ quarantine \in [Hashes -> 0..RETRY_BUDGET_QUARANTINE]
    /\ thread \in [Threads -> [pc : Steps, hash : Hashes \cup {None},
                               op : DOMAIN FirstStep \cup {None},
                               peer : Peers \cup {None}, count : Nat]]
    /\ todo \subseteq Hashes
    /\ lag \in 0..MaxLag
    /\ calls \in 0..MaxCalls
    /\ failures \in 0..MaxFailures

\* However admissions, recoveries and re-requests interleave, a peer is queued at
\* most once for a hash and never again once it was asked, and the waiting list
\* keeps its cap.
WaitingPeersAreFresh ==
    \A h \in Tracked :
        LET r == requested[h] IN
        /\ Len(r.waiting) <= MAX_WAITING_LIST_PER_HASH
        /\ RangeOf(r.waiting) \cap r.peers = {}
        /\ Cardinality(RangeOf(r.waiting)) = Len(r.waiting)

\* The budget is checked under one lock and the attempt counted under another,
\* after the network answered: the count passes the budget by at most one
\* attempt per caller.
RetryOvershootBounded ==
    \A h \in Hashes : retryAttempts[h] <= MAX_RETRIES_PER_HASH + Cardinality(Callers)

\* When the pass re-requests an expired entry it refreshes the timestamp first and
\* looks at the cooldown afterwards: a suppressed request would be put off by a
\* whole interval.  It never is: the interval an entry had to outlive is never
\* shorter than the cooldown, whatever recoveries and acknowledgements do meanwhile.
ExpiredRetryIsSent ==
    LET h == thread[Maintenance].hash IN
    /\ At(Maintenance, "requery") => ~Suppressed(lastRequery, PEER_REQUERY_COOLDOWN, h)
    /\ At(Maintenance, "broadcast") =>
         ~Suppressed(lastBroadcast, BROADCAST_ONLY_COOLDOWN, h)

\* The quarantine of a hash that used up its budget is erased by the clean-up that
\* follows it: it is only ever seen by a thread that runs between the two.
QuarantineEndsWithEviction ==
    \A h \in Hashes : quarantine[h] > 0 =>
        \E t \in Threads : At(t, "clean") /\ thread[t].hash = h

\* Once nobody asks for blocks any more, no entry stays: a received one expires, an
\* unresolved one is re-requested until its budget is used up, also when the pass
\* was cut short by failed sends or raced with acknowledgements and recoveries.
EveryRequestEnds == <>[](Tracked = {})
=============================================================================
