------------------------------- MODULE RSpace -------------------------------
(* The tuple space (rspace++/src/rspace/rspace.rs) over its hot store          *)
(* (hot_store.rs).  A produce or a consume is a task of its own: the reducer   *)
(* spawns the terms of a parallel composition as tokio tasks                   *)
(* (rholang/src/rust/interpreter/reduce.rs), so calls interleave between any   *)
(* two accesses of the hot store.  What keeps them apart is the two-phase      *)
(* lock per channel: a consume takes both phases for all its channels; a       *)
(* produce takes phase A of its channel, reads the joins of that channel, and  *)
(* takes phase B of every channel of those joins.                              *)
(*                                                                             *)
(* The hot store caches the history of the last checkpoint.  Writers look at   *)
(* the cache again under its write lock, and are one step each; the readers    *)
(* get_joins, get_data and get_continuations look, release, read the history   *)
(* and then write the cache without looking again: two steps.                  *)
(*                                                                             *)
(* Data: a datum knows its channel, a continuation its channels (Group, all    *)
(* different: the normaliser refuses a receive that names a channel twice) and *)
(* the data its patterns accept.  Lists that the code shuffles, or whose order *)
(* the history decides, are tried in any order.  Peeks do not change what the  *)
(* store does (rspace.rs ignores them) and are left out, as is the event log.  *)
EXTENDS Integers, FiniteSets, FiniteSetsExt, Sequences, SequencesExt, TLC

CONSTANTS
    Channels,     \* channels, named by their lock key: the order of locking
    Datums,       \* the data of all produces
    Conts,        \* the continuations of all consumes
    Channel,      \* the channel of a datum
    Group,        \* the channels of a continuation
    Accepts,      \* the data the patterns of a continuation match
    Persistent,   \* data and continuations with persist = true
    Installed,    \* continuations of system processes, installed at start-up
    InHistory,    \* data and continuations of earlier checkpoints
    NotCached,    \* no entry in the hot store
    Free          \* a lock nobody holds

Calls == (Datums \cup Conts) \ (InHistory \cup Installed)
Groups == {Group[k] : k \in Conts}

ASSUME CallsAssumption ==
    /\ Channels \subseteq Nat
    /\ IsFiniteSet(Datums) /\ IsFiniteSet(Conts) /\ Datums \cap Conts = {}
    /\ Free \notin Datums \cup Conts
    /\ NotCached \notin Seq(Datums)
    /\ NotCached \notin Seq(Conts)
    /\ \A joins \in SUBSET Groups : NotCached # joins
    /\ Channel \in [Datums -> Channels]
    /\ Group \in [Conts -> SUBSET Channels]
    /\ Accepts \in [Conts -> SUBSET Datums]
    /\ \A k \in Conts : Group[k] # {}
    /\ Persistent \cup InHistory \subseteq Datums \cup Conts
    /\ Installed \subseteq Conts \cap Persistent
    /\ Installed \cap InHistory = {}
    /\ \A j, k \in Installed : Group[j] = Group[k] => j = k
    \* the history holds no match
    /\ \A k \in Conts \cap (InHistory \cup Installed) :
          \E c \in Group[k] :
             \A d \in Datums \cap InHistory : Channel[d] = c => d \notin Accepts[k]

VARIABLES
    hotData, hotConts, hotJoins,  \* HotStoreState: cached entries
    history,                      \* what the last checkpoint wrote
    lockA, lockB,                 \* phase_a_locks, phase_b_locks: their holders
    task,                         \* where each call is, and its local variables
    taken,    \* history variable: how often a datum or continuation that does
              \* not persist was part of a match
    revived   \* history variable: a fill of get_joins wrote back a join that
              \* had been removed in the meantime

hotVars == <<hotData, hotConts, hotJoins>>
vars == <<hotData, hotConts, hotJoins, history, lockA, lockB, task, taken, revived>>

Linear == (Datums \cup Conts) \ Persistent

-----------------------------------------------------------------------------
(* The hot store. *)

get_data(c) == IF hotData[c] = NotCached THEN history.data[c] ELSE hotData[c]

stored_continuations(g) ==
    IF hotConts[g] = NotCached THEN history.conts[g] ELSE hotConts[g]

installed(g) == SetToSeq({k \in Installed : Group[k] = g})
installed_joins(c) == {Group[k] : k \in {j \in Installed : c \in Group[j]}}

get_continuations(g) == installed(g) \o stored_continuations(g)

stored_joins(c) == IF hotJoins[c] = NotCached THEN history.joins[c] ELSE hotJoins[c]

remove_at(s, i) == IF i \in DOMAIN s THEN RemoveAt(s, i) ELSE s

(* Mutant of remove_continuation: the installed continuation is not counted. *)
RemoveUnshifted(g, i) ==
    hotConts' = [hotConts EXCEPT ![g] = remove_at(stored_continuations(g), i)]

(* The index counts the installed continuation, which is never removed. *)
remove_continuation(g, i) ==
    hotConts' = [hotConts EXCEPT ![g] =
                    remove_at(stored_continuations(g), i - Len(installed(g)))]

put_join(c, g) == hotJoins' = [hotJoins EXCEPT ![c] = stored_joins(c) \cup {g}]

(* A join stays as long as a continuation waits on it. *)
remove_join(c, g) ==
    hotJoins' = [hotJoins EXCEPT ![c] =
                    stored_joins(c) \ (IF get_continuations(g) = <<>> THEN {g} ELSE {})]

-----------------------------------------------------------------------------
(* A task: pc and its local variables.  want is the set of channels it still   *)
(* has to lock (or, after a match, whose join it still has to remove or put),  *)
(* todo the joins a produce has still to try, group the join being tried, seen *)
(* what it fetched for it, cands the matched data still to be removed.         *)

NotSeen == [data |-> <<>>, conts |-> <<>>, missing |-> {}, missingConts |-> {}]
Idle == [pc |-> "idle", want |-> {}, todo |-> {}, group |-> {},
         seen |-> NotSeen, cands |-> {}]

At(t, label) == task[t].pc = label
Goto(t, r) == task' = [task EXCEPT ![t] = r]
Quiescent == \A t \in Calls : task[t].pc \in {"idle", "done"}

InHistoryOn(c) == SetToSeq({d \in Datums \cap InHistory : Channel[d] = c})

Init ==
    /\ history = [data |-> [c \in Channels |-> InHistoryOn(c)],
                  conts |-> [g \in Groups |->
                                SetToSeq({k \in Conts \cap InHistory : Group[k] = g})],
                  joins |-> [c \in Channels |->
                                {Group[k] : k \in {j \in Conts \cap InHistory : c \in Group[j]}}]]
    /\ hotData = [c \in Channels |-> NotCached]
    /\ hotConts = [g \in Groups |-> NotCached]
    /\ hotJoins = [c \in Channels |-> NotCached]
    /\ lockA = [c \in Channels |-> Free]
    /\ lockB = [c \in Channels |-> Free]
    /\ task = [t \in Calls |-> Idle]
    /\ taken = [x \in Linear |-> 0]
    /\ revived = FALSE

(* Mutant of next_lock: a produce locks its own channel first. *)
OwnChannelFirst(t, keys) ==
    IF t \in Datums /\ Channel[t] \in keys THEN Channel[t] ELSE Min(keys)

(* acquire_locks takes the keys of a phase in ascending order. *)
next_lock(t, keys) == Min(keys)

phase_a_keys(t) == IF t \in Datums THEN {Channel[t]} ELSE Group[t]

(* Phase A; the call starts with its first lock.  A consume goes on to phase B *)
(* for the same channels, a produce reads the joins of its channel.            *)
AcquireA(t) ==
    LET keys == IF At(t, "idle") THEN phase_a_keys(t) ELSE task[t].want
        c == next_lock(t, keys)
        rest == keys \ {c}
    IN  /\ task[t].pc \in {"idle", "lockA"}
        /\ lockA[c] = Free
        /\ lockA' = [lockA EXCEPT ![c] = t]
        /\ Goto(t, IF rest # {} THEN [task[t] EXCEPT !.pc = "lockA", !.want = rest]
                   ELSE IF t \in Datums THEN [task[t] EXCEPT !.pc = "joins", !.want = {}]
                   ELSE [task[t] EXCEPT !.pc = "lockB", !.want = Group[t]])
        /\ UNCHANGED <<hotVars, history, lockB, taken, revived>>

(* Mutant of join_channels: phase B covers the produce's own channel only. *)
OwnChannelOnly(d, joins) ==
    IF joins \cup installed_joins(Channel[d]) = {} THEN {} ELSE {Channel[d]}

(* The channels a produce locks in phase B, from the joins it has read. *)
join_channels(d, joins) == UNION (joins \cup installed_joins(Channel[d]))

(* An empty set of joins locks nothing in phase B. *)
LockJoins(d, joins) ==
    LET keys == join_channels(d, joins)
    IN  Goto(d, [task[d] EXCEPT !.pc = IF keys = {} THEN "grouped" ELSE "lockB",
                                !.want = keys])

(* get_joins under phase A: a cached entry is copied, a missing one is read    *)
(* from the history after the state lock is released.                          *)
GetJoins(d) ==
    /\ At(d, "joins")
    /\ IF hotJoins[Channel[d]] = NotCached
       THEN Goto(d, [task[d] EXCEPT !.pc = "fillJoins"])
       ELSE LockJoins(d, hotJoins[Channel[d]])
    /\ UNCHANGED <<hotVars, history, lockA, lockB, taken, revived>>

(* The fill overwrites the entry with what the history says, whatever          *)
(* remove_join of a produce on another channel of the join did meanwhile.      *)
FillJoins(d) ==
    LET c == Channel[d]
    IN  /\ At(d, "fillJoins")
        /\ hotJoins' = [hotJoins EXCEPT ![c] = history.joins[c]]
        /\ revived' = (revived \/ stored_joins(c) # history.joins[c])
        /\ LockJoins(d, history.joins[c])
        /\ UNCHANGED <<hotData, hotConts, history, lockA, lockB, taken>>

AcquireB(t) ==
    LET c == next_lock(t, task[t].want)
        rest == task[t].want \ {c}
    IN  /\ At(t, "lockB")
        /\ lockB[c] = Free
        /\ lockB' = [lockB EXCEPT ![c] = t]
        /\ Goto(t, IF rest # {} THEN [task[t] EXCEPT !.want = rest]
                   ELSE IF t \in Datums THEN [task[t] EXCEPT !.pc = "grouped", !.want = {}]
                   ELSE [task[t] EXCEPT !.pc = "fetch", !.want = {}, !.todo = {Group[t]}])
        /\ UNCHANGED <<hotVars, history, lockA, taken, revived>>

(* locked_produce reads the joins again, now under both phases. *)
GroupedChannels(d) ==
    LET groups == stored_joins(Channel[d]) \cup installed_joins(Channel[d])
    IN  /\ At(d, "grouped")
        /\ Goto(d, [task[d] EXCEPT !.pc = IF groups = {} THEN "store" ELSE "fetch",
                                   !.todo = groups])
        /\ UNCHANGED <<hotVars, history, lockA, lockB, taken, revived>>

(* The data, and for a produce the continuations, of one join are read ...     *)
Fetch(t, g) ==
    LET missing == {c \in g : hotData[c] = NotCached}
        missingConts == {j \in {g} : t \in Datums /\ hotConts[j] = NotCached}
    IN  /\ At(t, "fetch")
        /\ Goto(t, [task[t] EXCEPT
                      !.pc = IF missing = {} /\ missingConts = {} THEN "match" ELSE "fill",
                      !.group = g,
                      !.seen = [data |-> [c \in g |-> get_data(c)],
                                conts |-> IF t \in Datums THEN get_continuations(g) ELSE <<t>>,
                                missing |-> missing, missingConts |-> missingConts]])
        /\ UNCHANGED <<hotVars, history, lockA, lockB, taken, revived>>

(* ... and what was not cached is written into the cache.                      *)
Fill(t) ==
    LET seen == task[t].seen
    IN  /\ At(t, "fill")
        /\ hotData' = [c \in Channels |->
                          IF c \in seen.missing THEN history.data[c] ELSE hotData[c]]
        /\ hotConts' = [g \in Groups |->
                          IF g \in seen.missingConts THEN history.conts[g] ELSE hotConts[g]]
        /\ Goto(t, [task[t] EXCEPT !.pc = "match"])
        /\ UNCHANGED <<hotJoins, history, lockA, lockB, taken, revived>>

-----------------------------------------------------------------------------
(* Matching and its effects. *)

(* The data that can be matched with k on channel c; the datum of a produce is *)
(* tried first and has no index.                                               *)
data_candidates(t, k, c) ==
    LET data == task[t].seen.data[c]
    IN  IF t \in Datums /\ c = Channel[t] /\ t \in Accepts[k]
        THEN {[channel |-> c, datum |-> t, index |-> 0]}
        ELSE {[channel |-> c, datum |-> data[i], index |-> i] :
                 i \in {j \in DOMAIN data : data[j] \in Accepts[k]}}

(* All or nothing: one candidate for every channel of the join. *)
extract_data_candidates(t, k) ==
    LET g == task[t].group
        options == [c \in g |-> data_candidates(t, k, c)]
    IN  {{f[c] : c \in g} :
            f \in {h \in [g -> UNION {options[c] : c \in g}] : \A c \in g : h[c] \in options[c]}}

Matches(t) ==
    \E i \in DOMAIN task[t].seen.conts : extract_data_candidates(t, task[t].seen.conts[i]) # {}

Take(k, cands) ==
    LET used == ({k} \cup {x.datum : x \in cands}) \cap Linear
    IN  taken' = [x \in Linear |-> IF x \in used THEN taken[x] + 1 ELSE taken[x]]

(* A match.  process_match_found takes the continuation out of the store at    *)
(* once; a consume's own continuation was never in it.                         *)
MatchFound(t) ==
    /\ At(t, "match")
    /\ \E i \in DOMAIN task[t].seen.conts :
          LET k == task[t].seen.conts[i]
          IN  \E cands \in extract_data_candidates(t, k) :
                 /\ Take(k, cands)
                 /\ IF t \in Datums /\ k \notin Persistent
                    THEN remove_continuation(task[t].group, i)
                    ELSE UNCHANGED hotConts
                 /\ Goto(t, [task[t] EXCEPT !.pc = "remove", !.cands = cands,
                                            !.seen = NotSeen, !.todo = {}])
    /\ UNCHANGED <<hotData, hotJoins, history, lockA, lockB, revived>>

(* No match in this join: try the next one, or store. *)
NoMatch(t) ==
    LET rest == task[t].todo \ {task[t].group}
    IN  /\ At(t, "match")
        /\ ~Matches(t)
        /\ Goto(t, [task[t] EXCEPT !.pc = IF rest = {} THEN "store" ELSE "fetch",
                                   !.todo = rest, !.group = {}, !.seen = NotSeen])
        /\ UNCHANGED <<hotVars, history, lockA, lockB, taken, revived>>

(* store_persistent_data and remove_matched_datum_and_join go through the      *)
(* candidates by ascending index: first the datum leaves ...                   *)
RemoveDatum(t, x) ==
    LET rest == task[t].cands \ {x}
        removed == x.index > 0 /\ x.datum \notin Persistent
    IN  /\ At(t, "remove")
        /\ x \in task[t].cands
        /\ \A y \in rest : x.index <= y.index
        /\ hotData' = IF removed
                      THEN [hotData EXCEPT ![x.channel] = remove_at(get_data(x.channel), x.index)]
                      ELSE hotData
        /\ Goto(t, IF t \in Datums
                   THEN [task[t] EXCEPT !.pc = "removeJoin", !.want = {x.channel}, !.cands = rest]
                   ELSE [task[t] EXCEPT !.pc = IF rest = {} THEN "return" ELSE "remove",
                                        !.cands = rest])
        /\ UNCHANGED <<hotConts, hotJoins, history, lockA, lockB, taken, revived>>

(* ... then, for a produce, the join of that channel.                          *)
RemoveJoin(d) ==
    /\ At(d, "removeJoin")
    /\ \E c \in task[d].want : remove_join(c, task[d].group)
    /\ Goto(d, [task[d] EXCEPT !.pc = IF task[d].cands = {} THEN "return" ELSE "remove",
                               !.want = {}])
    /\ UNCHANGED <<hotData, hotConts, history, lockA, lockB, taken, revived>>

store_data(d) ==
    LET c == Channel[d]
    IN  /\ At(d, "store")
        /\ hotData' = [hotData EXCEPT ![c] = <<d>> \o get_data(c)]
        /\ Goto(d, [task[d] EXCEPT !.pc = "return"])
        /\ UNCHANGED <<hotConts, hotJoins, history, lockA, lockB, taken, revived>>

(* store_waiting_continuation: the continuation first, then a join per channel. *)
put_continuation(k) ==
    /\ At(k, "store")
    /\ hotConts' = [hotConts EXCEPT ![Group[k]] = <<k>> \o stored_continuations(Group[k])]
    /\ Goto(k, [task[k] EXCEPT !.pc = "putJoin", !.want = Group[k]])
    /\ UNCHANGED <<hotData, hotJoins, history, lockA, lockB, taken, revived>>

PutJoin(k, c) ==
    LET rest == task[k].want \ {c}
    IN  /\ At(k, "putJoin")
        /\ c \in task[k].want
        /\ put_join(c, Group[k])
        /\ Goto(k, [task[k] EXCEPT !.pc = IF rest = {} THEN "return" ELSE "putJoin",
                                   !.want = rest])
        /\ UNCHANGED <<hotData, hotConts, history, lockA, lockB, taken, revived>>

(* The lock guards are dropped when the call returns. *)
Return(t) ==
    /\ At(t, "return")
    /\ lockA' = [c \in Channels |-> IF lockA[c] = t THEN Free ELSE lockA[c]]
    /\ lockB' = [c \in Channels |-> IF lockB[c] = t THEN Free ELSE lockB[c]]
    /\ Goto(t, [Idle EXCEPT !.pc = "done"])
    /\ UNCHANGED <<hotVars, history, taken, revived>>

(* create_checkpoint, once the tasks of the evaluation are joined: the changes *)
(* become the history, the hot store starts empty, installs are restored.      *)
create_checkpoint ==
    /\ Quiescent
    /\ history' = [data |-> [c \in Channels |-> get_data(c)],
                   conts |-> [g \in Groups |-> stored_continuations(g)],
                   joins |-> [c \in Channels |-> stored_joins(c)]]
    /\ hotData' = [c \in Channels |-> NotCached]
    /\ hotConts' = [g \in Groups |-> NotCached]
    /\ hotJoins' = [c \in Channels |-> NotCached]
    /\ UNCHANGED <<lockA, lockB, task, taken, revived>>

-----------------------------------------------------------------------------
Consume(k) ==
    \/ put_continuation(k)
    \/ \E c \in Group[k] : PutJoin(k, c)

Produce(d) ==
    \/ GetJoins(d)
    \/ FillJoins(d)
    \/ GroupedChannels(d)
    \/ RemoveJoin(d)
    \/ store_data(d)

Locking(t) == AcquireA(t) \/ AcquireB(t)

Run(t) ==
    \/ t \in Conts /\ Consume(t)
    \/ t \in Datums /\ Produce(t)
    \/ \E g \in task[t].todo : Fetch(t, g)
    \/ Fill(t)
    \/ MatchFound(t)
    \/ NoMatch(t)
    \/ \E x \in task[t].cands : RemoveDatum(t, x)
    \/ Return(t)

Next ==
    \/ \E t \in Calls : Locking(t) \/ Run(t)
    \/ create_checkpoint

(* The runtime polls some task that can go on as long as there is one; nothing *)
(* forces a call to be made.                                                   *)
Spec ==
    /\ Init
    /\ [][Next]_vars
    /\ WF_vars(\E t \in Calls : ~At(t, "idle") /\ (Locking(t) \/ Run(t)))

-----------------------------------------------------------------------------
(* Locks have a holder or none, and every entry of the store, cached or not,   *)
(* is under its own channel or join.                                           *)
TypeOK ==
    /\ \A c \in Channels :
          /\ lockA[c] \in Calls \cup {Free}
          /\ lockB[c] \in Calls \cup {Free}
          /\ stored_joins(c) \subseteq Groups
          /\ Range(get_data(c)) \subseteq {d \in Datums : Channel[d] = c}
    /\ \A g \in Groups : Range(stored_continuations(g)) \subseteq {k \in Conts : Group[k] = g}
    /\ \A t \in Calls : task[t].cands \subseteq
          [channel : Channels, datum : Datums, index : Nat]

(* Matched data that its task has still to take out of the store. *)
Leaving == {x.datum : x \in {y \in UNION {task[t].cands : t \in Calls} : y.index > 0}}

Stored(x) ==
    LET s == IF x \in Datums THEN get_data(Channel[x]) ELSE stored_continuations(Group[x])
    IN  Cardinality({i \in DOMAIN s : s[i] = x}) - (IF x \in Leaving THEN 1 ELSE 0)

Waiting == Installed \cup UNION {Range(stored_continuations(g)) : g \in Groups}

(* A datum or a continuation that does not persist is in the store or in one   *)
(* match, never in both and never in two matches, and once its call has        *)
(* returned it is in one of them: no interleaving of index-based removals,     *)
(* insertions at the front and cache fills loses or duplicates it, unless a    *)
(* fill of get_joins has brought a removed join back (revived), after which    *)
(* two produces no longer agree on what to lock.                               *)
EachUsedOnce ==
    \A x \in Linear \ Installed :
       /\ Stored(x) >= 0
       /\ taken[x] + Stored(x) <= 1
       /\ (x \in InHistory \/ At(x, "done")) /\ ~revived => taken[x] + Stored(x) = 1

(* A waiting continuation never has matching data on all its channels: of two  *)
(* calls that complete a join together, the later one finds the match.         *)
NoMatchMissed ==
    \A k \in Waiting : \E c \in Group[k] :
       \A x \in Range(get_data(c)) \cap Accepts[k] : x \in Leaving \ Persistent

(* Every call that has begun to lock returns: the two phases and the order of  *)
(* the keys exclude a circular wait.                                           *)
EveryCallReturns == ~Quiescent ~> Quiescent
=============================================================================
