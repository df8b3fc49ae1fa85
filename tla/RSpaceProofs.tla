---------------------------- MODULE RSpaceProofs ----------------------------
(* Proofs about the tuple space, whatever calls interleave: no waiting         *)
(* continuation is left with matching data on all its channels, and every      *)
(* datum and continuation is used once and lost never.                         *)
(*                                                                             *)
(* The inductive invariant follows the two-phase lock.  A call owns the phase  *)
(* A locks of its channels, and the phase B locks of every channel of the      *)
(* joins it works on; a join is known to every channel of a continuation that  *)
(* waits on it.  What a call has read of its join is therefore still true      *)
(* when it acts on it, and a produce about to store its datum has tried every  *)
(* continuation that waits on its channel.                                     *)
(*                                                                             *)
(* A step of one call is seen by the others as an Interference: it keeps their *)
(* locks, and changes data, continuations and joins only under locks of its    *)
(* own or by storing a datum.  That this preserves what the others rely on is  *)
(* shown once, for every action.                                               *)
EXTENDS RSpace, FiniteSetTheorems, SequenceTheorems, TLAPS

-----------------------------------------------------------------------------
(* Types. *)

Pcs == {"idle", "lockA", "joins", "fillJoins", "lockB", "grouped", "fetch", "fill",
        "match", "remove", "removeJoin", "store", "putJoin", "return", "done"}

Fetched == [data : UNION {[g -> Seq(Datums)] : g \in Groups}, conts : Seq(Conts),
            missing : SUBSET Channels, missingConts : SUBSET Groups]

Candidates == [channel : Channels, datum : Datums, index : Nat]

Tasks == [pc : Pcs, want : SUBSET Channels, todo : SUBSET Groups,
          group : Groups \cup {{}}, seen : {NotSeen} \cup Fetched,
          cands : SUBSET Candidates]

(* The types of the hot store, the history, the locks and the tasks. *)
Typed ==
    /\ hotData \in [Channels -> {NotCached} \cup Seq(Datums)]
    /\ hotConts \in [Groups -> {NotCached} \cup Seq(Conts)]
    /\ hotJoins \in [Channels -> {NotCached} \cup SUBSET Groups]
    /\ history \in [data : [Channels -> Seq(Datums)], conts : [Groups -> Seq(Conts)],
                    joins : [Channels -> SUBSET Groups]]
    /\ lockA \in [Channels -> Calls \cup {Free}]
    /\ lockB \in [Channels -> Calls \cup {Free}]
    /\ task \in [Calls -> Tasks]

(* Every datum is under its channel and every continuation under its join, and *)
(* no datum is on a channel twice.                                             *)
DataOK ==
    \A c \in Channels :
       /\ IsInjective(get_data(c)) /\ IsInjective(history.data[c])
       /\ \A x \in Range(get_data(c)) \cup Range(history.data[c]) : Channel[x] = c

ContsOK ==
    \A g \in Groups :
       \A k \in Range(stored_continuations(g)) \cup Range(history.conts[g]) : Group[k] = g

-----------------------------------------------------------------------------
(* What one call relies on. *)

(* Phase A of its channels, from the first lock to its return. *)
LocksA(u) ==
    task[u].pc \notin {"idle", "done"} =>
       \A c \in phase_a_keys(u) :
          lockA[c] = u \/ (task[u].pc = "lockA" /\ c \in task[u].want)

HasB(u, c) == lockB[c] = u \/ (task[u].pc = "lockB" /\ c \in task[u].want)

(* Phase B: a consume of its channels; a produce of the channels of all joins  *)
(* that its channel still has.                                                 *)
LocksB(u) ==
    /\ u \in Conts /\ task[u].pc \notin {"idle", "lockA", "done"} =>
          \A c \in Group[u] : HasB(u, c)
    /\ u \in Datums /\ task[u].pc \notin {"idle", "lockA", "joins", "fillJoins", "done"} =>
          \A g \in stored_joins(Channel[u]) \cup installed_joins(Channel[u]) :
             \A c \in g : HasB(u, c)

(* Phase B of the joins it has still to try and of the one it works on. *)
LocksGroup(u) ==
    /\ task[u].pc \in {"fetch", "fill", "match"} =>
          \A g \in task[u].todo : \A c \in g : lockB[c] = u
    /\ task[u].pc \in {"fill", "match", "remove", "removeJoin"} =>
          \A c \in task[u].group : lockB[c] = u

(* The local variables at each label. *)
Shape(u) ==
    /\ task[u].pc \in {"joins", "fillJoins", "grouped", "removeJoin"} => u \in Datums
    /\ task[u].pc = "putJoin" => u \in Conts
    /\ task[u].pc \in {"fill", "match"} => task[u].group \in task[u].todo
    /\ task[u].pc \in {"fill", "match", "remove", "removeJoin"} => task[u].group \in Groups
    /\ task[u].pc \in {"fetch", "fill", "match"} /\ u \in Conts => task[u].todo = {Group[u]}
    /\ task[u].pc = "remove" /\ u \in Conts => task[u].group = Group[u]
    /\ task[u].pc = "store" => task[u].todo = {}
    /\ task[u].pc = "removeJoin" => \E c \in task[u].group : task[u].want = {c}
    /\ task[u].pc \notin {"remove", "removeJoin"} => task[u].cands = {}

(* The history a fill of the joins will write has every join that is left. *)
FillsJoins(u) ==
    task[u].pc = "fillJoins" => stored_joins(Channel[u]) \subseteq history.joins[Channel[u]]

(* What a call has fetched is what the store holds, the data at least if there *)
(* is a continuation to match them with; what it will fill in is no more.      *)
SeenOK(u) ==
    task[u].pc \in {"fill", "match"} =>
       /\ task[u].seen \in Fetched
       /\ task[u].seen.data \in [task[u].group -> Seq(Datums)]
       /\ task[u].seen.conts = IF u \in Datums THEN get_continuations(task[u].group) ELSE <<u>>
       /\ task[u].seen.conts # <<>> =>
             \A c \in task[u].group : task[u].seen.data[c] = get_data(c)
       /\ task[u].pc = "fill" =>
             /\ \A c \in task[u].seen.missing :
                   /\ c \in task[u].group
                   /\ task[u].seen.data[c] = history.data[c]
                   /\ Range(history.data[c]) \subseteq Range(get_data(c))
             /\ \A g \in task[u].seen.missingConts :
                   g = task[u].group /\ stored_continuations(g) = history.conts[g]

(* Channel c has nothing for continuation k, the datum of u included. *)
Starved(u, k, c) ==
    /\ Range(get_data(c)) \cap Accepts[k] = {}
    /\ u \in Datums /\ c = Channel[u] => u \notin Accepts[k]

(* The continuations that u has tried, or need not try, cannot be matched. *)
TestedOK(u) ==
    /\ u \in Datums /\ task[u].pc \in {"fetch", "fill", "match", "store"} =>
          \A k \in Waiting : Channel[u] \in Group[k] /\ Group[k] \notin task[u].todo =>
             \E c \in Group[k] : Starved(u, k, c)
    /\ u \in Conts /\ task[u].pc = "store" => \E c \in Group[u] : Starved(u, u, c)

(* A candidate that was taken from the store is still at its index, and the    *)
(* join that protects its channel is not yet removed from it.                  *)
CandsOK(u) ==
    task[u].pc \in {"remove", "removeJoin"} =>
       \A x \in task[u].cands :
          /\ x.channel \in task[u].group
          /\ u \in Datums => /\ task[u].group \in stored_joins(x.channel)
                                                     \cup installed_joins(x.channel)
                             /\ task[u].pc = "removeJoin" => x.channel \notin task[u].want
          /\ x.index > 0 => /\ x.index \in DOMAIN get_data(x.channel)
                            /\ get_data(x.channel)[x.index] = x.datum
          /\ \A y \in task[u].cands : y.channel = x.channel => y = x

(* A datum is in no store before its produce stores it. *)
Fresh(u) ==
    u \in Datums /\ task[u].pc \notin {"remove", "removeJoin", "return", "done"} =>
       u \notin Range(get_data(Channel[u])) \cup Range(history.data[Channel[u]])

CallOK(u) ==
    /\ LocksA(u) /\ LocksB(u) /\ LocksGroup(u)
    /\ Shape(u) /\ FillsJoins(u) /\ SeenOK(u)
    /\ TestedOK(u) /\ CandsOK(u) /\ Fresh(u)

-----------------------------------------------------------------------------
(* Consume u has still to put its join on channel c. *)
Putting(u, g, c) == u \in Conts /\ Group[u] = g /\ task[u].pc = "putJoin" /\ c \in task[u].want

(* A waiting continuation is in the joins of each of its channels, but for the *)
(* ones its consume has still to write.                                        *)
JoinsOK ==
    \A g \in Groups : Range(stored_continuations(g)) # {} =>
       \A c \in g : g \in stored_joins(c) \/ \E u \in Calls : Putting(u, g, c)

IInv ==
    /\ Typed /\ DataOK /\ ContsOK
    /\ \A u \in Calls : CallOK(u)
    /\ JoinsOK
    /\ NoMatchMissed

-----------------------------------------------------------------------------
(* Sequences. *)

(* SetToSeq lists a finite set without repetition. *)
LEMMA SetToSeqLists ==
    ASSUME NEW S, IsFiniteSet(S)
    PROVE  /\ SetToSeq(S) \in Seq(S)
           /\ IsInjective(SetToSeq(S))
           /\ Range(SetToSeq(S)) = S
<1> DEFINE n == Cardinality(S)
<1>1. n \in Nat /\ ExistsBijection(1..n, S)
  BY FS_CardinalityType
<1>2. PICK f \in Bijection(1..n, S) : TRUE
  BY <1>1 DEF ExistsBijection
<1>3. f \in [1..n -> S] /\ IsInjective(f)
  BY <1>2 DEF Bijection, Injection, IsInjective
<1>4. SetToSeq(S) \in [1..n -> S] /\ IsInjective(SetToSeq(S))
  BY <1>3 DEF SetToSeq
<1>5. SetToSeq(S) \in Surjection(1..n, S)
  <2>1. SetToSeq(S) \in Injection(1..n, S)
    BY <1>4 DEF Injection, IsInjective
  <2>2. Cardinality(1..n) = n
    BY <1>1, FS_Interval
  <2>3. QED BY <2>1, <2>2, FS_Injection
<1>6. Range(SetToSeq(S)) = S
  BY <1>4, <1>5 DEF Range, Surjection
<1>7. QED
  BY <1>1, <1>4, <1>6

(* The members of a sequence, one by one. *)
LEMMA RangeMembers ==
    ASSUME NEW S, NEW s \in Seq(S), NEW x
    PROVE  /\ x \in Range(s) <=> \E i \in 1..Len(s) : s[i] = x
           /\ x \in Range(s) => x \in S
           /\ Range(s) = {} <=> s = <<>>
<1>1. x \in Range(s) <=> \E i \in 1..Len(s) : s[i] = x
  BY DEF Range
<1>2. x \in Range(s) => x \in S
  BY <1>1
<1>3. ASSUME Range(s) = {} PROVE s = <<>>
  <2>1. \A i \in 1..Len(s) : s[i] \in Range(s)
    BY DEF Range
  <2>2. Len(s) = 0
    BY <2>1, <1>3, LenProperties
  <2>3. QED BY <2>2, EmptySeq
<1>4. Range(<<>>) = {}
  BY DEF Range
<1>5. QED BY <1>1, <1>2, <1>3, <1>4

(* A new element in front of a sequence. *)
LEMMA ConsLists ==
    ASSUME NEW S, NEW s \in Seq(S), NEW e \in S
    PROVE  /\ <<e>> \o s \in Seq(S)
           /\ Range(<<e>> \o s) = Range(s) \cup {e}
           /\ IsInjective(s) /\ e \notin Range(s) => IsInjective(<<e>> \o s)
<1> DEFINE r == <<e>> \o s
<1>1. r \in Seq(S) /\ Len(r) = Len(s) + 1 /\ r[1] = e
  OBVIOUS
<1>2. \A i \in 1..Len(s) : r[i + 1] = s[i]
  OBVIOUS
<1> HIDE DEF r
<1>3. \A i \in 2..Len(r) : r[i] = s[i - 1] /\ i - 1 \in 1..Len(s)
  BY <1>1, <1>2
<1>4. Range(r) = Range(s) \cup {e}
  <2>1. ASSUME NEW x \in Range(r) PROVE x \in Range(s) \cup {e}
    <3>1. PICK i \in 1..Len(r) : r[i] = x
      BY <1>1 DEF Range
    <3>2. CASE i = 1
      BY <3>1, <3>2, <1>1
    <3>3. CASE i # 1
      <4>1. i - 1 \in 1..Len(s) /\ s[i - 1] = x
        BY <3>1, <3>3, <1>1, <1>3
      <4>2. QED BY <4>1 DEF Range
    <3>4. QED BY <3>2, <3>3
  <2>2. ASSUME NEW x \in Range(s) \cup {e} PROVE x \in Range(r)
    <3>1. CASE x = e
      BY <3>1, <1>1 DEF Range
    <3>2. CASE x \in Range(s)
      <4>1. PICK i \in 1..Len(s) : s[i] = x
        BY <3>2 DEF Range
      <4>2. i + 1 \in 1..Len(r) /\ r[i + 1] = x
        BY <4>1, <1>1, <1>2
      <4>3. QED BY <4>2, <1>1 DEF Range
    <3>3. QED BY <2>2, <3>1, <3>2
  <2>3. QED BY <2>1, <2>2
<1>5. ASSUME IsInjective(s), e \notin Range(s),
             NEW i \in DOMAIN r, NEW j \in DOMAIN r, r[i] = r[j]
      PROVE  i = j
  <2>1. \A m \in 2..Len(r) : r[m] # e
    BY <1>3, <1>5 DEF Range
  <2>2. CASE i = 1 \/ j = 1
    BY <2>1, <2>2, <1>1, <1>5
  <2>3. CASE i # 1 /\ j # 1
    <3>1. s[i - 1] = s[j - 1] /\ i - 1 \in 1..Len(s) /\ j - 1 \in 1..Len(s)
      BY <2>3, <1>1, <1>3, <1>5
    <3>2. i - 1 = j - 1
      BY <3>1, <1>5 DEF IsInjective
    <3>3. QED BY <3>2, <1>1
  <2>4. QED BY <2>2, <2>3
<1>6. IsInjective(s) /\ e \notin Range(s) => IsInjective(r)
  BY <1>5 DEF IsInjective
<1>7. QED
  BY <1>1, <1>4, <1>6 DEF r

(* remove_at drops the one element at the index, if there is one. *)
LEMMA RemoveAtDrops ==
    ASSUME NEW S, NEW s \in Seq(S), NEW i \in Int
    PROVE  /\ remove_at(s, i) \in Seq(S)
           /\ Range(remove_at(s, i)) \subseteq Range(s)
           /\ IsInjective(s) =>
                 /\ IsInjective(remove_at(s, i))
                 /\ i \in DOMAIN s => Range(remove_at(s, i)) = Range(s) \ {s[i]}
<1>1. CASE i \notin DOMAIN s
  BY <1>1 DEF remove_at
<1>2. CASE i \in DOMAIN s
  <2> DEFINE r == SubSeq(s, 1, i - 1) \o SubSeq(s, i + 1, Len(s))
  <2>1. i \in 1..Len(s) /\ remove_at(s, i) = r
    <3>1. i \in 1..Len(s)
      BY <1>2
    <3>2. remove_at(s, i) = RemoveAt(s, i)
      BY <1>2 DEF remove_at
    <3>3. QED BY <3>1, <3>2 DEF RemoveAt
  <2> DEFINE p == SubSeq(s, 1, i - 1)
             q == SubSeq(s, i + 1, Len(s))
  <2>2. p \in Seq(S) /\ Len(p) = i - 1 /\ \A j \in 1..(i - 1) : p[j] = s[j]
    <3>1. \A j \in 1..(i - 1) : s[j] \in S
      BY <2>1
    <3>2. /\ p \in Seq(S) /\ Len(p) = IF 1 <= i - 1 THEN i - 1 - 1 + 1 ELSE 0
          /\ \A j \in 1..(i - 1 - 1 + 1) : p[j] = s[1 + j - 1]
      BY <2>1, <3>1, SubSeqProperties
    <3> HIDE DEF p
    <3>3. QED BY <3>2, <2>1
  <2>3. /\ q \in Seq(S) /\ Len(q) = Len(s) - i
        /\ \A j \in 1..(Len(s) - i) : q[j] = s[i + j]
    <3>1. \A j \in (i + 1)..Len(s) : s[j] \in S
      BY <2>1
    <3>2. /\ q \in Seq(S) /\ Len(q) = IF i + 1 <= Len(s) THEN Len(s) - (i + 1) + 1 ELSE 0
          /\ \A j \in 1..(Len(s) - (i + 1) + 1) : q[j] = s[i + 1 + j - 1]
      BY <2>1, <3>1, SubSeqProperties
    <3> HIDE DEF q
    <3>3. QED BY <3>2, <2>1
  <2>4. /\ r \in Seq(S) /\ Len(r) = Len(s) - 1
        /\ \A j \in 1..(Len(s) - 1) : r[j] = IF j < i THEN s[j] ELSE s[j + 1]
    <3>1. r = p \o q
      OBVIOUS
    <3> HIDE DEF p, q, r
    <3>2. /\ r \in Seq(S) /\ Len(r) = Len(p) + Len(q)
          /\ \A j \in 1..(Len(p) + Len(q)) : r[j] = IF j <= Len(p) THEN p[j] ELSE q[j - Len(p)]
      BY <3>1, <2>2, <2>3, ConcatProperties
    <3>3. Len(p) + Len(q) = Len(s) - 1
      BY <2>1, <2>2, <2>3
    <3>4. ASSUME NEW j \in 1..(Len(s) - 1)
          PROVE  r[j] = IF j < i THEN s[j] ELSE s[j + 1]
      <4>1. r[j] = IF j <= i - 1 THEN p[j] ELSE q[j - (i - 1)]
        BY <3>2, <3>3, <2>1, <2>2
      <4>2. CASE j < i
        BY <4>1, <4>2, <2>1, <2>2
      <4>3. CASE ~(j < i)
        <5>1. j - (i - 1) \in 1..(Len(s) - i) /\ i + (j - (i - 1)) = j + 1
          BY <4>3, <2>1
        <5>2. q[j - (i - 1)] = s[j + 1]
          BY <5>1, <2>3
        <5>3. QED BY <4>1, <4>3, <5>2, <2>1
      <4>4. QED BY <4>2, <4>3
    <3>5. QED BY <3>2, <3>3, <3>4
  <2> HIDE DEF r, p, q
  <2>5. /\ \A j \in 1..(i - 1) : r[j] = s[j]
        /\ \A j \in i..(Len(s) - 1) : r[j] = s[j + 1]
    <3>1. ASSUME NEW j \in 1..(i - 1) PROVE r[j] = s[j]
      <4>1. j \in 1..(Len(s) - 1) /\ j < i
        BY <2>1
      <4>2. QED BY <4>1, <2>4
    <3>2. ASSUME NEW j \in i..(Len(s) - 1) PROVE r[j] = s[j + 1]
      <4>1. j \in 1..(Len(s) - 1) /\ ~(j < i)
        BY <2>1
      <4>2. QED BY <4>1, <2>4
    <3>3. QED BY <3>1, <3>2
  <2>6. ASSUME IsInjective(s), NEW a \in DOMAIN r, NEW b \in DOMAIN r, r[a] = r[b]
        PROVE  a = b
    <3>1. /\ a \in 1..(i - 1) \/ a \in i..(Len(s) - 1)
          /\ b \in 1..(i - 1) \/ b \in i..(Len(s) - 1)
      BY <2>1, <2>4
    <3>2. \A m, n \in 1..Len(s) : s[m] = s[n] => m = n
      BY <2>6 DEF IsInjective
    <3>3. QED BY <3>1, <3>2, <2>1, <2>4, <2>5, <2>6
  <2>7. ASSUME NEW x \in Range(r)
        PROVE  x \in Range(s) /\ (IsInjective(s) => x # s[i])
    <3>1. PICK j \in 1..Len(r) : r[j] = x
      BY <2>4 DEF Range
    <3>2. PICK m \in 1..Len(s) : m # i /\ s[m] = x
      BY <3>1, <2>1, <2>4, <2>5
    <3>3. IsInjective(s) => s[m] # s[i]
      BY <3>2, <2>1 DEF IsInjective
    <3>4. QED BY <3>2, <3>3 DEF Range
  <2>8. ASSUME NEW x \in Range(s) \ {s[i]} PROVE x \in Range(r)
    <3>1. PICK m \in 1..Len(s) : s[m] = x /\ m # i
      BY DEF Range
    <3>2. CASE m < i
      <4>1. m \in 1..Len(r) /\ r[m] = x
        BY <3>1, <3>2, <2>1, <2>4, <2>5
      <4>2. QED BY <4>1, <2>4 DEF Range
    <3>3. CASE m > i
      <4>1. m - 1 \in 1..Len(r) /\ r[m - 1] = x
        BY <3>1, <3>3, <2>1, <2>4, <2>5
      <4>2. QED BY <4>1, <2>4 DEF Range
    <3>4. QED BY <3>1, <3>2, <3>3, <2>1
  <2>9. IsInjective(s) => IsInjective(r)
    BY <2>6 DEF IsInjective
  <2>10. Range(r) \subseteq Range(s) /\ (IsInjective(s) => Range(r) = Range(s) \ {s[i]})
    BY <2>7, <2>8
  <2>11. QED
    BY <2>1, <2>4, <2>9, <2>10
<1>3. QED BY <1>1, <1>2

-----------------------------------------------------------------------------
(* The constants and the store. *)

(* What the assumptions say of calls, joins and locks. *)
LEMMA Constants ==
    /\ \A u \in Calls : u \in Datums \/ u \in Conts
    /\ \A u \in Calls : ~(u \in Datums /\ u \in Conts)
    /\ \A u \in Calls : u # Free
    /\ \A k \in Conts : Group[k] \in Groups
    /\ \A g \in Groups : g \subseteq Channels /\ g # {} /\ \E k \in Conts : Group[k] = g
    /\ \A d \in Datums : Channel[d] \in Channels
    /\ \A u \in Calls : phase_a_keys(u) \subseteq Channels
    /\ \A d \in Datums : phase_a_keys(d) = {Channel[d]}
    /\ \A k \in Conts : phase_a_keys(k) = Group[k]
    /\ Installed \subseteq Conts
<1>1. \A u \in Calls : u \in Datums \/ u \in Conts
  BY DEF Calls
<1>2. \A u \in Calls : ~(u \in Datums /\ u \in Conts)
  BY CallsAssumption
<1>3. \A u \in Calls : u # Free
  BY CallsAssumption DEF Calls
<1>4. \A k \in Conts : Group[k] \in Groups
  BY DEF Groups
<1>5. \A g \in Groups : g \subseteq Channels /\ g # {} /\ \E k \in Conts : Group[k] = g
  BY CallsAssumption DEF Groups
<1>6. \A d \in Datums : Channel[d] \in Channels
  BY CallsAssumption
<1>7. \A d \in Datums : phase_a_keys(d) = {Channel[d]}
  BY DEF phase_a_keys
<1>8. \A k \in Conts : phase_a_keys(k) = Group[k]
  BY CallsAssumption DEF phase_a_keys
<1>9. \A u \in Calls : phase_a_keys(u) \subseteq Channels
  BY <1>1, <1>4, <1>5, <1>6, <1>7, <1>8
<1>10. Installed \subseteq Conts
  BY CallsAssumption
<1>11. QED
  BY <1>1, <1>2, <1>3, <1>4, <1>5, <1>6, <1>7, <1>8, <1>9, <1>10

(* The joins of installed continuations. *)
LEMMA InstalledJoins ==
    ASSUME NEW c, NEW g
    PROVE  /\ g \in installed_joins(c) <=> \E k \in Installed : Group[k] = g /\ c \in g
           /\ g \in installed_joins(c) => g \in Groups
<1>1. g \in installed_joins(c) <=> \E k \in Installed : Group[k] = g /\ c \in g
  BY DEF installed_joins
<1>2. QED
  BY <1>1, Constants

(* installed lists the continuation that is installed on a join, if any. *)
LEMMA InstalledListed ==
    ASSUME NEW g \in Groups
    PROVE  /\ installed(g) \in Seq(Conts)
           /\ \A k : k \in Range(installed(g)) <=> k \in Installed /\ Group[k] = g
<1> DEFINE S == {k \in Installed : Group[k] = g}
<1>1. S \subseteq Conts /\ IsFiniteSet(S)
  BY CallsAssumption, FS_Subset
<1>2. /\ SetToSeq(S) \in Seq(S) /\ Range(SetToSeq(S)) \subseteq S
  BY <1>1, SetToSeqLists
<1>3. installed(g) = SetToSeq(S)
  BY DEF installed
<1>4. installed(g) \in Seq(Conts)
  BY <1>1, <1>2, <1>3, SeqMonotonic
<1>5. ASSUME NEW k \in S PROVE k \in Range(SetToSeq(S))
  <2>1. S = {k}
    BY <1>5, CallsAssumption
  <2>2. Cardinality(S) = 1
    BY <2>1, FS_Singleton
  <2>3. SetToSeq(S) \in [1..1 -> S]
    <3> DEFINE f == [i \in 1..1 |-> k]
    <3>1. f \in [1..Cardinality(S) -> S] /\ IsInjective(f)
      BY <2>1, <2>2 DEF IsInjective
    <3>2. SetToSeq(S) \in [1..Cardinality(S) -> S]
      BY <3>1 DEF SetToSeq
    <3>3. QED BY <3>2, <2>2
  <2>4. SetToSeq(S)[1] = k /\ 1 \in DOMAIN SetToSeq(S)
    BY <2>1, <2>3
  <2>5. QED BY <2>4 DEF Range
<1>6. QED
  BY <1>2, <1>3, <1>4, <1>5

(* What is stored has the type of its cache and its history. *)
LEMMA StoreTypes ==
    ASSUME Typed
    PROVE  /\ \A c \in Channels : get_data(c) \in Seq(Datums) /\ history.data[c] \in Seq(Datums)
           /\ \A c \in Channels : stored_joins(c) \subseteq Groups
                                     /\ history.joins[c] \subseteq Groups
           /\ \A g \in Groups : stored_continuations(g) \in Seq(Conts)
                                   /\ history.conts[g] \in Seq(Conts)
<1>1. \A c \in Channels : get_data(c) \in Seq(Datums) /\ history.data[c] \in Seq(Datums)
  BY DEF Typed, get_data
<1>2. \A c \in Channels : stored_joins(c) \subseteq Groups /\ history.joins[c] \subseteq Groups
  BY DEF Typed, stored_joins
<1>3. \A g \in Groups : stored_continuations(g) \in Seq(Conts) /\ history.conts[g] \in Seq(Conts)
  BY DEF Typed, stored_continuations
<1>4. QED BY <1>1, <1>2, <1>3

(* A waiting continuation is installed or stored under its own join. *)
LEMMA WaitingMembers ==
    ASSUME Typed, ContsOK, NEW k
    PROVE  /\ k \in Waiting <=> k \in Installed
                                  \/ \E g \in Groups : k \in Range(stored_continuations(g))
           /\ k \in Waiting => k \in Conts /\ Group[k] \in Groups
           /\ k \in Waiting /\ k \notin Installed => k \in Range(stored_continuations(Group[k]))
<1>1. k \in Waiting <=> k \in Installed \/ \E g \in Groups : k \in Range(stored_continuations(g))
  BY DEF Waiting
<1>2. \A g \in Groups : k \in Range(stored_continuations(g)) => k \in Conts /\ Group[k] = g
  BY StoreTypes, RangeMembers DEF ContsOK
<1>3. QED
  BY <1>1, <1>2, Constants

(* The same of the next state. *)
LEMMA NextStoreTypes ==
    ASSUME Typed'
    PROVE  /\ \A c \in Channels : get_data(c)' \in Seq(Datums) /\ history'.data[c] \in Seq(Datums)
           /\ \A c \in Channels : stored_joins(c)' \subseteq Groups
                                     /\ history'.joins[c] \subseteq Groups
           /\ \A g \in Groups : stored_continuations(g)' \in Seq(Conts)
                                   /\ history'.conts[g] \in Seq(Conts)
<1>1. \A c \in Channels : get_data(c)' \in Seq(Datums) /\ history'.data[c] \in Seq(Datums)
  BY DEF Typed, get_data
<1>2. \A c \in Channels : stored_joins(c)' \subseteq Groups /\ history'.joins[c] \subseteq Groups
  BY DEF Typed, stored_joins
<1>3. \A g \in Groups : stored_continuations(g)' \in Seq(Conts) /\ history'.conts[g] \in Seq(Conts)
  BY DEF Typed, stored_continuations
<1>4. QED BY <1>1, <1>2, <1>3

(* The same of the next state. *)
LEMMA NextWaitingMembers ==
    ASSUME Typed', ContsOK', NEW k
    PROVE  /\ k \in Waiting' <=> k \in Installed
                                  \/ \E g \in Groups : k \in Range(stored_continuations(g)')
           /\ k \in Waiting' => k \in Conts /\ Group[k] \in Groups
           /\ k \in Waiting' /\ k \notin Installed =>
                 k \in Range(stored_continuations(Group[k])')
<1>1. k \in Waiting' <=> k \in Installed \/ \E g \in Groups : k \in Range(stored_continuations(g)')
  BY DEF Waiting
<1>2. \A g \in Groups : k \in Range(stored_continuations(g)') => k \in Conts /\ Group[k] = g
  BY NextStoreTypes, RangeMembers DEF ContsOK
<1>3. QED
  BY <1>1, <1>2, Constants

(* get_continuations lists the continuations that wait on a join, the stored   *)
(* ones after the installed one.                                               *)
LEMMA ContinuationsListed ==
    ASSUME Typed, ContsOK, NEW g \in Groups
    PROVE  /\ get_continuations(g) \in Seq(Conts)
           /\ \A k : k \in Range(get_continuations(g)) <=> k \in Waiting /\ Group[k] = g
           /\ \A i \in DOMAIN get_continuations(g) :
                 get_continuations(g)[i] \notin Installed =>
                    /\ i - Len(installed(g)) \in DOMAIN stored_continuations(g)
                    /\ stored_continuations(g)[i - Len(installed(g))] = get_continuations(g)[i]
<1> DEFINE p == installed(g)
           q == stored_continuations(g)
           r == get_continuations(g)
<1>1. p \in Seq(Conts) /\ \A k : k \in Range(p) <=> k \in Installed /\ Group[k] = g
  BY InstalledListed
<1>2. q \in Seq(Conts)
  BY StoreTypes
<1>3. r = p \o q
  BY DEF get_continuations
<1>4. /\ \A i \in 1..Len(p) : p[i] \in Range(p)
      /\ \A i \in 1..Len(q) : q[i] \in Range(q)
  BY <1>1, <1>2, RangeMembers
<1>5. \A k : k \in Waiting /\ Group[k] = g <=> k \in Range(p) \/ k \in Range(q)
  <2>1. \A k \in Range(q) : Group[k] = g
    BY DEF ContsOK
  <2>2. QED BY <1>1, <2>1, WaitingMembers
<1> HIDE DEF p, q, r
<1>6. /\ r \in Seq(Conts) /\ Len(r) = Len(p) + Len(q) /\ Len(p) \in Nat /\ Len(q) \in Nat
      /\ \A i \in 1..(Len(p) + Len(q)) : r[i] = IF i <= Len(p) THEN p[i] ELSE q[i - Len(p)]
  BY <1>1, <1>2, <1>3, ConcatProperties, LenProperties
<1>7. ASSUME NEW i \in 1..Len(r)
      PROVE  \/ i \in 1..Len(p) /\ r[i] = p[i]
             \/ i - Len(p) \in 1..Len(q) /\ r[i] = q[i - Len(p)]
  BY <1>6
<1>8. ASSUME NEW k \in Range(r) PROVE k \in Range(p) \/ k \in Range(q)
  <2>1. PICK i \in 1..Len(r) : r[i] = k
    BY <1>6, RangeMembers
  <2>2. QED BY <2>1, <1>4, <1>7
<1>9. ASSUME NEW k, k \in Range(p) \/ k \in Range(q) PROVE k \in Range(r)
  <2>1. CASE k \in Range(p)
    <3>1. PICK i \in 1..Len(p) : p[i] = k
      BY <2>1, <1>1, RangeMembers
    <3>2. i \in 1..Len(r) /\ r[i] = k
      BY <3>1, <1>6
    <3>3. QED BY <3>2, <1>6, RangeMembers
  <2>2. CASE k \in Range(q)
    <3>1. PICK i \in 1..Len(q) : q[i] = k
      BY <2>2, <1>2, RangeMembers
    <3>2. /\ i + Len(p) \in 1..(Len(p) + Len(q)) /\ ~(i + Len(p) <= Len(p))
          /\ i + Len(p) - Len(p) = i
      BY <3>1, <1>6
    <3>3. r[i + Len(p)] = q[i + Len(p) - Len(p)]
      BY <3>2, <1>6
    <3>4. QED BY <3>1, <3>2, <3>3, <1>6, RangeMembers
  <2>3. QED BY <1>9, <2>1, <2>2
<1>10. ASSUME NEW i \in DOMAIN r, r[i] \notin Installed
       PROVE  i - Len(p) \in DOMAIN q /\ q[i - Len(p)] = r[i]
  <2>1. i \in 1..Len(r)
    BY <1>6
  <2>2. r[i] \notin Range(p)
    BY <1>1, <1>10
  <2>3. i - Len(p) \in 1..Len(q) /\ q[i - Len(p)] = r[i]
    BY <2>1, <2>2, <1>4, <1>7
  <2>4. QED BY <2>3, <1>2
<1>11. QED
  BY <1>5, <1>6, <1>8, <1>9, <1>10 DEF p, q, r

-----------------------------------------------------------------------------
(* Interference. *)

(* How a step of call t appears to the other calls: it leaves their locks and  *)
(* local variables alone; it removes data only under phase B, adds its own     *)
(* datum, changes the continuations of a join only under phase B of its        *)
(* channels (and adds one only under both phases), adds joins to a channel     *)
(* only under phase A, and removes a join only after a match on that join.     *)
Interference(t) ==
    /\ history' = history
    /\ \A u \in Calls \ {t} : task'[u] = task[u]
    /\ \A u \in Calls \ {t} : \A c \in Channels :
          (lockA[c] = u => lockA'[c] = u) /\ (lockB[c] = u => lockB'[c] = u)
    /\ \A c \in Channels :
          \/ get_data(c)' = get_data(c)
          \/ lockB[c] = t /\ Range(get_data(c)') \subseteq Range(get_data(c))
          \/ /\ t \in Datums /\ task[t].pc = "store" /\ c = Channel[t]
             /\ Range(get_data(c)') = Range(get_data(c)) \cup {t}
    /\ \A g \in Groups :
          \/ stored_continuations(g)' = stored_continuations(g)
          \/ /\ \A c \in g : lockB[c] = t
             /\ \/ Range(stored_continuations(g)') \subseteq Range(stored_continuations(g))
                \/ \A c \in g : lockA[c] = t
    /\ \A c \in Channels :
          \/ stored_joins(c)' = stored_joins(c)
          \/ lockA[c] = t /\ stored_joins(c) \subseteq stored_joins(c)'
          \/ task[t].pc = "removeJoin" /\ stored_joins(c)' = stored_joins(c) \ {task[t].group}

(* A produce past phase B holds it on every channel of every continuation that *)
(* waits on its channel.                                                       *)
LEMMA Protection ==
    ASSUME IInv, NEW u \in Calls, u \in Datums,
           task[u].pc \notin {"idle", "lockA", "joins", "fillJoins", "lockB", "done"},
           NEW k \in Waiting, Channel[u] \in Group[k]
    PROVE  /\ Group[k] \in stored_joins(Channel[u]) \cup installed_joins(Channel[u])
           /\ \A c \in Group[k] : lockB[c] = u
<1>1. CallOK(u) /\ Typed /\ ContsOK /\ JoinsOK
  BY DEF IInv
<1>2. k \in Conts /\ Group[k] \in Groups
  BY <1>1, WaitingMembers
<1>3. lockA[Channel[u]] = u
  BY <1>1, Constants DEF CallOK, LocksA
<1>4. Group[k] \in stored_joins(Channel[u]) \cup installed_joins(Channel[u])
  <2>1. CASE k \in Installed
    BY <2>1, InstalledJoins
  <2>2. CASE k \notin Installed
    <3>1. k \in Range(stored_continuations(Group[k]))
      BY <2>2, <1>1, WaitingMembers
    <3>2. ASSUME NEW v \in Calls, Putting(v, Group[k], Channel[u]) PROVE FALSE
      <4>1. v \in Conts /\ Group[v] = Group[k] /\ task[v].pc = "putJoin"
        BY <3>2 DEF Putting
      <4>2. lockA[Channel[u]] = v
        BY <4>1, Constants DEF IInv, CallOK, LocksA
      <4>3. QED BY <4>1, <4>2, <1>3, Constants
    <3>3. Group[k] \in stored_joins(Channel[u])
      BY <3>1, <3>2, <1>1, <1>2 DEF JoinsOK
    <3>4. QED BY <3>3
  <2>3. QED BY <2>1, <2>2
<1>5. \A c \in Group[k] : HasB(u, c)
  BY <1>1, <1>4 DEF CallOK, LocksB
<1>6. QED
  BY <1>4, <1>5 DEF HasB

(* A datum is stored on a channel only by a call that holds phase A of it, and *)
(* phase B of every join that the channel knows.                               *)
LEMMA StoringLocks ==
    ASSUME IInv, NEW t \in Calls, t \in Datums, task[t].pc = "store"
    PROVE  /\ lockA[Channel[t]] = t
           /\ \A g \in stored_joins(Channel[t]) \cup installed_joins(Channel[t]) :
                 \A c \in g : lockB[c] = t
<1>1. LocksA(t) /\ LocksB(t)
  BY DEF IInv, CallOK
<1>2. lockA[Channel[t]] = t
  BY <1>1, Constants DEF LocksA
<1>3. QED
  BY <1>1, <1>2 DEF LocksB, HasB

(* The locks and local variables of the other calls. *)
LEMMA KeepsLocks ==
    ASSUME IInv, NEW t \in Calls, Interference(t), NEW u \in Calls \ {t}
    PROVE  LocksA(u)' /\ LocksB(u)' /\ LocksGroup(u)' /\ Shape(u)' /\ FillsJoins(u)'
<1>1. CallOK(u) /\ Typed
  BY DEF IInv
<1>2. /\ task'[u] = task[u] /\ history' = history
      /\ \A c \in Channels : (lockA[c] = u => lockA'[c] = u) /\ (lockB[c] = u => lockB'[c] = u)
  BY DEF Interference
<1>3. LocksA(u)'
  BY <1>1, <1>2, Constants DEF CallOK, LocksA, phase_a_keys
<1>4. u \in Datums /\ task[u].pc \notin {"idle", "lockA", "done"} =>
         stored_joins(Channel[u])' \subseteq stored_joins(Channel[u])
  <2> SUFFICES ASSUME u \in Datums, task[u].pc \notin {"idle", "lockA", "done"}
               PROVE  stored_joins(Channel[u])' \subseteq stored_joins(Channel[u])
    OBVIOUS
  <2>1. Channel[u] \in Channels /\ lockA[Channel[u]] = u
    BY <1>1, Constants DEF CallOK, LocksA
  <2>2. QED BY <2>1 DEF Interference
<1>5. \A c \in Channels : HasB(u, c) => HasB(u, c)'
  BY <1>2 DEF HasB
<1>6. LocksB(u)'
  <2>1. \A c \in Channels : stored_joins(c) \subseteq Groups /\ installed_joins(c) \subseteq Groups
    BY <1>1, StoreTypes, InstalledJoins
  <2>2. ASSUME u \in Datums,
               task[u].pc \notin {"idle", "lockA", "joins", "fillJoins", "done"},
               NEW g \in stored_joins(Channel[u])' \cup installed_joins(Channel[u]),
               NEW c \in g
        PROVE  HasB(u, c)'
    <3>1. g \in stored_joins(Channel[u]) \cup installed_joins(Channel[u])
      BY <2>2, <1>4
    <3>2. HasB(u, c)
      BY <2>2, <3>1, <1>1 DEF CallOK, LocksB
    <3>3. c \in Channels
      BY <2>1, <2>2, <3>1, Constants
    <3>4. QED BY <3>2, <3>3, <1>5
  <2>3. ASSUME u \in Conts, task[u].pc \notin {"idle", "lockA", "done"}, NEW c \in Group[u]
        PROVE  HasB(u, c)'
    <3>1. HasB(u, c) /\ c \in Channels
      BY <2>3, <1>1, Constants DEF CallOK, LocksB
    <3>2. QED BY <3>1, <1>5
  <2>4. QED
    BY <2>2, <2>3, <1>2 DEF LocksB, installed_joins
<1>7. LocksGroup(u)'
  <2>1. task[u].todo \subseteq Groups /\ task[u].group \in Groups \cup {{}}
    BY <1>1 DEF Typed, Tasks
  <2>2. LocksGroup(u)
    BY <1>1 DEF CallOK
  <2>3. QED BY <2>1, <2>2, <1>2, Constants DEF LocksGroup
<1>8. Shape(u)'
  BY <1>1, <1>2 DEF CallOK, Shape
<1>9. FillsJoins(u)'
  <2>1. task[u].pc = "fillJoins" => u \in Datums
    BY <1>1 DEF CallOK, Shape
  <2>2. QED
    BY <2>1, <1>1, <1>2, <1>4 DEF CallOK, FillsJoins
<1>10. QED
  BY <1>3, <1>6, <1>7, <1>8, <1>9

(* What the other calls have fetched of the join they work on. *)
LEMMA KeepsSeen ==
    ASSUME IInv, NEW t \in Calls, Interference(t), NEW u \in Calls \ {t}
    PROVE  SeenOK(u)'
<1>1. CallOK(u) /\ Typed /\ ContsOK
  BY DEF IInv
<1>2. task'[u] = task[u] /\ history' = history
  BY DEF Interference
<1> SUFFICES ASSUME task[u].pc \in {"fill", "match"}
             PROVE  SeenOK(u)'
  BY <1>2 DEF SeenOK
<1>g. PICK g \in Groups : g = task[u].group
  BY <1>1 DEF CallOK, Shape
<1>3. g \subseteq Channels /\ g # {} /\ \A c \in g : lockB[c] = u
  BY <1>1, <1>g, Constants DEF CallOK, LocksGroup
<1>4. SeenOK(u)
  BY <1>1 DEF CallOK
<1>5. stored_continuations(g)' = stored_continuations(g)
  BY <1>3 DEF Interference
<1>6. get_continuations(g)' = get_continuations(g)
  BY <1>5 DEF get_continuations, installed
<1>7. ASSUME NEW c \in g, task[u].seen.conts # <<>> PROVE get_data(c)' = get_data(c)
  <2> SUFFICES ASSUME t \in Datums, task[t].pc = "store", c = Channel[t]
               PROVE  FALSE
    BY <1>3 DEF Interference
  <2>1. CASE u \in Conts
    <3>1. u \notin Datums /\ task[u].todo = {Group[u]} /\ g \in task[u].todo
      BY <2>1, <1>1, <1>g, Constants DEF CallOK, Shape
    <3>2. lockA[c] = u
      BY <2>1, <3>1, <1>1, Constants DEF CallOK, LocksA
    <3>3. QED BY <3>2, StoringLocks
  <2>2. CASE u \in Datums
    <3>1. task[u].seen.conts = get_continuations(g)
      BY <2>2, <1>4, <1>g DEF SeenOK
    <3>2. get_continuations(g) \in Seq(Conts) /\ get_continuations(g) # <<>>
      BY <3>1, <1>1, <1>3, <1>7, ContinuationsListed
    <3>3. PICK k : k \in Range(get_continuations(g))
      BY <3>2, RangeMembers
    <3>4. k \in Waiting /\ Group[k] = g
      BY <3>3, <1>1, <1>3, ContinuationsListed
    <3>5. lockB[c] = t
      BY <3>4, Protection
    <3>6. QED BY <3>5, <1>3
  <2>3. QED BY <2>1, <2>2, Constants
<1>8. ASSUME NEW c \in g PROVE Range(get_data(c)) \subseteq Range(get_data(c)')
  BY <1>3 DEF Interference
<1>9. QED
  <2>1. /\ task[u].seen.conts = IF u \in Datums THEN get_continuations(g)' ELSE <<u>>
        /\ task[u].seen.conts # <<>> => \A c \in g : task[u].seen.data[c] = get_data(c)'
    BY <1>4, <1>6, <1>7, <1>g DEF SeenOK
  <2>2. task[u].pc = "fill" =>
             /\ \A c \in task[u].seen.missing :
                   /\ c \in g /\ task[u].seen.data[c] = history.data[c]
                   /\ Range(history.data[c]) \subseteq Range(get_data(c)')
             /\ \A j \in task[u].seen.missingConts :
                   j = g /\ stored_continuations(j)' = history.conts[j]
    BY <1>4, <1>5, <1>8, <1>g DEF SeenOK
  <2>3. task[u].seen \in Fetched /\ task[u].seen.data \in [g -> Seq(Datums)]
    BY <1>4, <1>g DEF SeenOK
  <2>4. QED
    BY <2>1, <2>2, <2>3, <1>2, <1>g DEF SeenOK

(* What the other calls have tried: no continuation and no datum appears where *)
(* they found no match.                                                        *)
LEMMA KeepsTested ==
    ASSUME IInv, NEW t \in Calls, Interference(t), NEW u \in Calls \ {t},
           Typed', ContsOK'
    PROVE  TestedOK(u)'
<1>1. CallOK(u) /\ Typed /\ ContsOK
  BY DEF IInv
<1>2. task'[u] = task[u]
  BY DEF Interference
<1>3. ASSUME NEW k \in Conts, NEW c \in Group[k], Starved(u, k, c),
             ~(t \in Datums /\ task[t].pc = "store" /\ c = Channel[t])
      PROVE  Starved(u, k, c)'
  <2>1. c \in Channels
    BY Constants
  <2>2. Range(get_data(c)') \subseteq Range(get_data(c))
    BY <1>3, <2>1 DEF Interference
  <2>3. QED BY <1>3, <2>2 DEF Starved
<1>4. ASSUME u \in Conts, task[u].pc = "store"
      PROVE  \E c \in Group[u] : Starved(u, u, c)'
  <2>1. PICK c \in Group[u] : Starved(u, u, c)
    BY <1>1, <1>4 DEF CallOK, TestedOK
  <2>2. lockA[c] = u
    BY <1>1, <1>4, Constants DEF CallOK, LocksA
  <2>3. QED BY <1>3, <1>4, <2>1, <2>2, StoringLocks
<1>5. ASSUME u \in Datums, task[u].pc \in {"fetch", "fill", "match", "store"},
             NEW k \in Waiting', Channel[u] \in Group[k], Group[k] \notin task[u].todo
      PROVE  \E c \in Group[k] : Starved(u, k, c)'
  <2>1. lockA[Channel[u]] = u
    BY <1>1, <1>5, Constants DEF CallOK, LocksA
  <2>2. k \in Waiting
    <3>1. CASE k \in Installed
      BY <3>1, <1>1, WaitingMembers
    <3>2. CASE k \notin Installed
      <4>1. Group[k] \in Groups /\ k \in Range(stored_continuations(Group[k])')
        BY <1>5, <3>2, NextWaitingMembers
      <4>2. QED BY <4>1, <2>1, <1>1, <1>5, WaitingMembers DEF Interference
    <3>3. QED BY <3>1, <3>2
  <2>3. PICK c \in Group[k] : Starved(u, k, c)
    BY <2>2, <1>1, <1>5 DEF CallOK, TestedOK
  <2>4. k \in Conts /\ lockB[c] = u
    BY <2>2, <1>1, <1>5, WaitingMembers, Protection
  <2>5. ASSUME t \in Datums, task[t].pc = "store", c = Channel[t] PROVE FALSE
    <3>1. lockB[c] = t
      BY <2>2, <2>5, Protection
    <3>2. QED BY <3>1, <2>4
  <2>6. QED BY <1>3, <2>3, <2>4, <2>5
<1>6. QED
  BY <1>2, <1>4, <1>5 DEF TestedOK

(* The candidates that the other calls have still to take out of the store. *)
LEMMA KeepsCands ==
    ASSUME IInv, NEW t \in Calls, Interference(t), NEW u \in Calls \ {t}
    PROVE  CandsOK(u)'
<1>1. CallOK(u) /\ Typed
  BY DEF IInv
<1>2. task'[u] = task[u]
  BY DEF Interference
<1> SUFFICES ASSUME task[u].pc \in {"remove", "removeJoin"}, NEW x \in task[u].cands
    PROVE  /\ u \in Datums => task[u].group \in stored_joins(x.channel)'
                                                 \cup installed_joins(x.channel)
           /\ x.index > 0 => /\ x.index \in DOMAIN get_data(x.channel)'
                             /\ get_data(x.channel)'[x.index] = x.datum
  <2>1. CandsOK(u)
    BY <1>1 DEF CallOK
  <2>2. ASSUME task[u].pc \in {"remove", "removeJoin"}, NEW x \in task[u].cands
        PROVE  /\ x.channel \in task[u].group
               /\ u \in Datums /\ task[u].pc = "removeJoin" => x.channel \notin task[u].want
               /\ \A y \in task[u].cands : y.channel = x.channel => y = x
    BY <2>1, <2>2 DEF CandsOK
  <2>3. QED BY <2>2, <1>2 DEF CandsOK, installed_joins
<1>3. PICK g \in Groups : g = task[u].group
  BY <1>1 DEF CallOK, Shape
<1>4. PICK c \in Channels : c = x.channel
  BY <1>1 DEF Typed, Tasks, Candidates
<1>5. /\ c \in g
      /\ u \in Datums => g \in stored_joins(c) \cup installed_joins(c)
      /\ x.index > 0 => x.index \in DOMAIN get_data(c) /\ get_data(c)[x.index] = x.datum
  BY <1>1, <1>3, <1>4 DEF CallOK, CandsOK
<1>6. \A b \in g : lockB[b] = u
  BY <1>1, <1>3 DEF CallOK, LocksGroup
<1>7. get_data(c)' = get_data(c)
  <2> SUFFICES ASSUME t \in Datums, task[t].pc = "store", c = Channel[t]
               PROVE  FALSE
    BY <1>5, <1>6 DEF Interference
  <2>1. CASE u \in Datums
    BY <2>1, <1>5, <1>6, StoringLocks
  <2>2. CASE u \in Conts
    <3>1. task[u].pc # "removeJoin"
      BY <2>2, <1>1, Constants DEF CallOK, Shape
    <3>2. g = Group[u]
      BY <2>2, <3>1, <1>1, <1>3 DEF CallOK, Shape
    <3>3. lockA[c] = u
      BY <2>2, <3>2, <1>1, <1>5, Constants DEF CallOK, LocksA
    <3>4. QED BY <3>3, StoringLocks
  <2>3. QED BY <2>1, <2>2, Constants
<1>8. u \in Datums => g \in stored_joins(c)' \cup installed_joins(c)
  <2>1. task[t].pc = "removeJoin" => task[t].group # g
    <3> SUFFICES ASSUME task[t].pc = "removeJoin", task[t].group = g PROVE FALSE
      OBVIOUS
    <3>1. lockB[c] = t
      BY <1>5 DEF IInv, CallOK, LocksGroup
    <3>2. QED BY <3>1, <1>5, <1>6
  <2>2. QED BY <2>1, <1>5 DEF Interference
<1>9. QED
  BY <1>3, <1>4, <1>5, <1>7, <1>8

(* A datum not yet stored stays out of the store. *)
LEMMA KeepsFresh ==
    ASSUME IInv, NEW t \in Calls, Interference(t), NEW u \in Calls \ {t}
    PROVE  Fresh(u)'
<1>1. Fresh(u)
  BY DEF IInv, CallOK
<1>2. task'[u] = task[u] /\ history' = history
  BY DEF Interference
<1>3. \A c \in Channels : Range(get_data(c)') \subseteq Range(get_data(c)) \cup {t}
  BY DEF Interference
<1>4. QED
  BY <1>1, <1>2, <1>3, Constants DEF Fresh

(* All that the other calls rely on. *)
LEMMA KeepsOthers ==
    ASSUME IInv, NEW t \in Calls, Interference(t), Typed', ContsOK'
    PROVE  \A u \in Calls \ {t} : CallOK(u)'
BY KeepsLocks, KeepsSeen, KeepsTested, KeepsCands, KeepsFresh DEF CallOK

-----------------------------------------------------------------------------
(* Steps that leave the store alone. *)

(* Goto replaces the local variables of one call. *)
LEMMA GotoSets ==
    ASSUME Typed, NEW t \in Calls, NEW r \in Tasks, Goto(t, r)
    PROVE  /\ task' \in [Calls -> Tasks]
           /\ task'[t] = r
           /\ \A u \in Calls \ {t} : task'[u] = task[u]
BY DEF Typed, Goto

(* What the store holds, if neither the cache nor the history changes. *)
LEMMA QuietStore ==
    ASSUME UNCHANGED <<hotVars, history>>
    PROVE  /\ \A c : get_data(c)' = get_data(c) /\ stored_joins(c)' = stored_joins(c)
           /\ \A g : stored_continuations(g)' = stored_continuations(g)
           /\ \A g : get_continuations(g)' = get_continuations(g)
           /\ Waiting' = Waiting
           /\ DataOK => DataOK'
           /\ ContsOK => ContsOK'
<1>1. hotData' = hotData /\ hotConts' = hotConts /\ hotJoins' = hotJoins /\ history' = history
  BY DEF hotVars
<1>2. \A c : get_data(c)' = get_data(c) /\ stored_joins(c)' = stored_joins(c)
  BY <1>1 DEF get_data, stored_joins
<1>3. \A g : stored_continuations(g)' = stored_continuations(g)
  BY <1>1 DEF stored_continuations
<1>4. \A g : get_continuations(g)' = get_continuations(g)
  BY <1>3 DEF get_continuations, installed
<1>5. Waiting' = Waiting
  BY <1>3 DEF Waiting
<1>6. DataOK => DataOK'
  BY <1>1, <1>2 DEF DataOK
<1>7. ContsOK => ContsOK'
  BY <1>1, <1>3 DEF ContsOK
<1>8. QED
  BY <1>2, <1>3, <1>4, <1>5, <1>6, <1>7

(* Data that is leaving, by call and candidate. *)
LEMMA LeavingMembers ==
    ASSUME NEW x
    PROVE  x \in Leaving <=> \E u \in Calls : \E y \in task[u].cands : y.index > 0 /\ y.datum = x
BY DEF Leaving

(* The same of the next state. *)
LEMMA NextLeavingMembers ==
    ASSUME NEW x
    PROVE  x \in Leaving' <=> \E u \in Calls : \E y \in task'[u].cands : y.index > 0 /\ y.datum = x
BY DEF Leaving

(* No match appears when no datum and no continuation does, and what was       *)
(* leaving still is.                                                           *)
LEMMA KeepsNoMatch ==
    ASSUME IInv, Waiting' \subseteq Waiting,
           \A c \in Channels : Range(get_data(c)') \subseteq Range(get_data(c)),
           NEW t \in Calls, task[t].cands \subseteq task'[t].cands,
           \A u \in Calls \ {t} : task'[u] = task[u]
    PROVE  NoMatchMissed'
<1>1. Leaving \subseteq Leaving'
  BY LeavingMembers, NextLeavingMembers
<1>2. NoMatchMissed /\ Typed /\ ContsOK
  BY DEF IInv
<1>3. ASSUME NEW k \in Waiting'
      PROVE  \E c \in Group[k] : \A x \in Range(get_data(c)') \cap Accepts[k] :
                x \in Leaving' \ Persistent
  <2>1. k \in Waiting /\ Group[k] \subseteq Channels
    BY <1>2, WaitingMembers, Constants
  <2>2. PICK c \in Group[k] : \A x \in Range(get_data(c)) \cap Accepts[k] :
                x \in Leaving \ Persistent
    BY <2>1, <1>2 DEF NoMatchMissed
  <2>3. QED BY <2>1, <2>2, <1>1
<1>4. QED BY <1>3 DEF NoMatchMissed

(* The joins of waiting continuations stay, when no continuation appears, no   *)
(* join goes, and t is not putting joins.                                      *)
LEMMA KeepsJoins ==
    ASSUME IInv, NEW t \in Calls, task[t].pc # "putJoin",
           \A u \in Calls \ {t} : task'[u] = task[u],
           \A g \in Groups : Range(stored_continuations(g)') \subseteq Range(stored_continuations(g)),
           \A c \in Channels : stored_joins(c) \subseteq stored_joins(c)'
    PROVE  JoinsOK'
<1>1. JoinsOK
  BY DEF IInv
<1>2. ASSUME NEW u \in Calls, NEW g, NEW c, Putting(u, g, c) PROVE Putting(u, g, c)'
  BY <1>2 DEF Putting
<1>3. QED
  BY <1>1, <1>2, Constants DEF JoinsOK

(* A step of t on locks and local variables only keeps the invariant, if it    *)
(* keeps what t itself relies on.                                              *)
LEMMA QuietStep ==
    ASSUME IInv, NEW t \in Calls, UNCHANGED <<hotVars, history>>,
           task' \in [Calls -> Tasks], \A u \in Calls \ {t} : task'[u] = task[u],
           lockA' \in [Channels -> Calls \cup {Free}],
           lockB' \in [Channels -> Calls \cup {Free}],
           \A u \in Calls \ {t} : \A c \in Channels :
              (lockA[c] = u => lockA'[c] = u) /\ (lockB[c] = u => lockB'[c] = u),
           task[t].pc # "putJoin", task'[t].cands = task[t].cands,
           CallOK(t)'
    PROVE  IInv' /\ Interference(t)
<1>1. Typed /\ DataOK /\ ContsOK
  BY DEF IInv
<1>2. /\ Typed' /\ DataOK' /\ ContsOK'
  BY <1>1, QuietStore DEF Typed, hotVars
<1>3. Interference(t)
  BY QuietStore DEF Interference
<1>4. \A u \in Calls : CallOK(u)'
  BY <1>2, <1>3, KeepsOthers
<1>5. JoinsOK'
  BY QuietStore, KeepsJoins
<1>6. NoMatchMissed'
  BY QuietStore, KeepsNoMatch
<1>7. QED
  BY <1>2, <1>3, <1>4, <1>5, <1>6 DEF IInv

(* Phase A. *)
LEMMA AcquireAStep ==
    ASSUME IInv, NEW t \in Calls, AcquireA(t)
    PROVE  IInv' /\ Interference(t)
<1>1. Typed /\ CallOK(t) /\ task[t] \in Tasks
  BY DEF IInv, Typed
<1>2. PICK keys : keys = IF At(t, "idle") THEN phase_a_keys(t) ELSE task[t].want
  OBVIOUS
<1>3. PICK c : c = next_lock(t, keys)
  OBVIOUS
<1> DEFINE rest == keys \ {c}
<1>4. /\ task[t].pc \in {"idle", "lockA"}
      /\ lockA[c] = Free
      /\ lockA' = [lockA EXCEPT ![c] = t]
      /\ Goto(t, IF rest # {} THEN [task[t] EXCEPT !.pc = "lockA", !.want = rest]
                 ELSE IF t \in Datums THEN [task[t] EXCEPT !.pc = "joins", !.want = {}]
                 ELSE [task[t] EXCEPT !.pc = "lockB", !.want = Group[t]])
      /\ UNCHANGED <<hotVars, history, lockB, taken, revived>>
  BY <1>2, <1>3 DEF AcquireA
<1>5. keys \subseteq Channels
  BY <1>1, <1>2, Constants DEF Tasks
<1>6. PICK r \in Tasks :
         /\ Goto(t, r)
         /\ r.cands = task[t].cands
         /\ \/ r.pc = "lockA" /\ r.want = rest
            \/ rest = {} /\ r.pc = "joins" /\ t \in Datums
            \/ rest = {} /\ r.pc = "lockB" /\ r.want = Group[t] /\ t \notin Datums
  <2>1. CASE rest # {}
    <3>1. [task[t] EXCEPT !.pc = "lockA", !.want = rest] \in Tasks
      BY <1>1, <1>5 DEF Tasks, Pcs
    <3>2. QED BY <2>1, <3>1, <1>1, <1>4 DEF Tasks
  <2>2. CASE rest = {} /\ t \in Datums
    <3>1. [task[t] EXCEPT !.pc = "joins", !.want = {}] \in Tasks
      BY <1>1 DEF Tasks, Pcs
    <3>2. QED BY <2>2, <3>1, <1>1, <1>4 DEF Tasks
  <2>3. CASE rest = {} /\ t \notin Datums
    <3>1. [task[t] EXCEPT !.pc = "lockB", !.want = Group[t]] \in Tasks
      BY <1>1, <2>3, Constants DEF Tasks, Pcs
    <3>2. QED BY <2>3, <3>1, <1>1, <1>4 DEF Tasks
  <2>4. QED BY <2>1, <2>2, <2>3
<1>7. /\ task' \in [Calls -> Tasks] /\ task'[t] = r
      /\ \A u \in Calls \ {t} : task'[u] = task[u]
  BY <1>1, <1>6, GotoSets
<1>8. UNCHANGED <<hotVars, history>> /\ lockB' = lockB
  BY <1>4
<1>9. /\ lockA' \in [Channels -> Calls \cup {Free}]
      /\ \A b \in Channels : lockA'[b] = IF b = c THEN t ELSE lockA[b]
  BY <1>1, <1>4 DEF Typed
<1>10. \A u \in Calls \ {t} : \A b \in Channels :
          (lockA[b] = u => lockA'[b] = u) /\ (lockB[b] = u => lockB'[b] = u)
  BY <1>4, <1>8, <1>9, Constants
<1>11. CallOK(t)'
  <2>1. LocksA(t)'
    <3>1. \A b \in phase_a_keys(t) : b \in keys \/ lockA[b] = t
      BY <1>1, <1>2, <1>4 DEF CallOK, LocksA, At
    <3>2. \A b \in phase_a_keys(t) : lockA'[b] = t \/ b \in rest
      BY <3>1, <1>9, Constants
    <3>3. QED BY <3>2, <1>6, <1>7 DEF LocksA, phase_a_keys
  <2>2. LocksB(t)'
    BY <1>6, <1>7, Constants DEF LocksB, HasB
  <2>3. LocksGroup(t)' /\ FillsJoins(t)' /\ SeenOK(t)' /\ TestedOK(t)' /\ CandsOK(t)'
    BY <1>6, <1>7 DEF LocksGroup, FillsJoins, SeenOK, TestedOK, CandsOK
  <2>4. Shape(t)'
    BY <1>1, <1>4, <1>6, <1>7 DEF CallOK, Shape
  <2>5. Fresh(t)'
    BY <1>1, <1>4, <1>8, QuietStore DEF CallOK, Fresh
  <2>6. QED
    BY <2>1, <2>2, <2>3, <2>4, <2>5 DEF CallOK
<1>12. /\ lockB' \in [Channels -> Calls \cup {Free}]
       /\ task[t].pc # "putJoin" /\ task'[t].cands = task[t].cands
  BY <1>1, <1>4, <1>6, <1>7, <1>8 DEF Typed
<1>13. QED
  BY <1>7, <1>8, <1>9, <1>10, <1>11, <1>12, QuietStep

(* Going on to phase B with the joins of the channel. *)
LEMMA LockJoinsSets ==
    ASSUME Typed, NEW d \in Calls, NEW joins \in SUBSET Groups, LockJoins(d, joins)
    PROVE  \E r \in Tasks :
              /\ Goto(d, r)
              /\ r.cands = task[d].cands
              /\ \/ r.pc = "grouped" /\ join_channels(d, joins) = {}
                 \/ r.pc = "lockB" /\ r.want = join_channels(d, joins)
<1> DEFINE keys == join_channels(d, joins)
           r == [task[d] EXCEPT !.pc = IF keys = {} THEN "grouped" ELSE "lockB", !.want = keys]
<1>1. Goto(d, r)
  BY DEF LockJoins
<1>2. keys \subseteq Channels
  BY InstalledJoins, Constants DEF join_channels
<1> HIDE DEF keys
<1>3. task[d] \in Tasks
  BY DEF Typed
<1>4. r \in Tasks
  BY <1>2, <1>3 DEF Tasks, Pcs
<1>5. r.cands = task[d].cands /\ r.pc = (IF keys = {} THEN "grouped" ELSE "lockB") /\ r.want = keys
  BY <1>3 DEF Tasks
<1> HIDE DEF r
<1>6. QED
  BY <1>1, <1>4, <1>5 DEF keys

(* After it has read the joins, a produce holds or wants phase B of them all. *)
LEMMA LockJoinsCall ==
    ASSUME IInv, NEW d \in Calls, d \in Datums, NEW joins,
           task[d].pc \in {"joins", "fillJoins"},
           stored_joins(Channel[d])' = joins,
           get_data(Channel[d])' = get_data(Channel[d]), history' = history,
           NEW r, task'[d] = r, lockA' = lockA, r.cands = task[d].cands,
           \/ r.pc = "grouped" /\ join_channels(d, joins) = {}
           \/ r.pc = "lockB" /\ r.want = join_channels(d, joins)
    PROVE  CallOK(d)'
<1>1. CallOK(d)
  BY DEF IInv
<1>2. LocksA(d)'
  BY <1>1 DEF CallOK, LocksA, phase_a_keys
<1>3. LocksB(d)'
  <2>1. \A g \in joins \cup installed_joins(Channel[d]) : \A c \in g : c \in join_channels(d, joins)
    BY DEF join_channels
  <2>2. d \notin Conts
    BY Constants
  <2>3. QED
    BY <2>1, <2>2 DEF LocksB, HasB, installed_joins
<1>4. LocksGroup(d)' /\ FillsJoins(d)' /\ SeenOK(d)' /\ TestedOK(d)' /\ CandsOK(d)'
  BY DEF LocksGroup, FillsJoins, SeenOK, TestedOK, CandsOK
<1>5. Shape(d)'
  BY <1>1 DEF CallOK, Shape
<1>6. Fresh(d)'
  BY <1>1 DEF CallOK, Fresh
<1>7. QED
  BY <1>2, <1>3, <1>4, <1>5, <1>6 DEF CallOK

(* get_joins, the look at the cache. *)
LEMMA GetJoinsStep ==
    ASSUME IInv, NEW d \in Calls, d \in Datums, GetJoins(d)
    PROVE  IInv' /\ Interference(d)
<1>1. Typed /\ CallOK(d) /\ task[d] \in Tasks /\ Channel[d] \in Channels
  BY Constants DEF IInv, Typed
<1>2. /\ task[d].pc = "joins" /\ UNCHANGED <<hotVars, history>>
      /\ lockA' = lockA /\ lockB' = lockB
  BY DEF GetJoins, At
<1>3. CASE hotJoins[Channel[d]] = NotCached
  <2> DEFINE r == [task[d] EXCEPT !.pc = "fillJoins"]
  <2>1. Goto(d, r)
    BY <1>3 DEF GetJoins
  <2>2. r \in Tasks /\ r.cands = task[d].cands /\ r.pc = "fillJoins"
    BY <1>1 DEF Tasks, Pcs
  <2> HIDE DEF r
  <2>3. /\ task' \in [Calls -> Tasks] /\ task'[d] = r
        /\ \A u \in Calls \ {d} : task'[u] = task[u]
    BY <1>1, <2>1, <2>2, GotoSets
  <2>4. CallOK(d)'
    <3>1. stored_joins(Channel[d])' = history'.joins[Channel[d]]
      BY <1>2, <1>3 DEF stored_joins, hotVars
    <3>2. LocksA(d)'
      BY <1>1, <1>2, <2>2, <2>3 DEF CallOK, LocksA, phase_a_keys
    <3>3. LocksB(d)' /\ LocksGroup(d)' /\ SeenOK(d)' /\ TestedOK(d)' /\ CandsOK(d)'
      BY <2>2, <2>3, Constants DEF LocksB, LocksGroup, SeenOK, TestedOK, CandsOK
    <3>4. Shape(d)' /\ FillsJoins(d)'
      BY <1>1, <1>2, <2>2, <2>3, <3>1 DEF CallOK, Shape, FillsJoins
    <3>5. Fresh(d)'
      BY <1>1, <1>2, QuietStore DEF CallOK, Fresh
    <3>6. QED
      BY <3>2, <3>3, <3>4, <3>5 DEF CallOK
  <2>5. QED
    BY <1>1, <1>2, <2>2, <2>3, <2>4, QuietStep DEF Typed
<1>4. CASE hotJoins[Channel[d]] # NotCached
  <2>1. PICK joins \in SUBSET Groups : joins = hotJoins[Channel[d]]
    BY <1>1, <1>4 DEF Typed
  <2>2. LockJoins(d, joins) /\ stored_joins(Channel[d])' = joins
    BY <1>2, <1>4, <2>1 DEF GetJoins, stored_joins, hotVars
  <2>3. PICK r \in Tasks :
              /\ Goto(d, r)
              /\ r.cands = task[d].cands
              /\ \/ r.pc = "grouped" /\ join_channels(d, joins) = {}
                 \/ r.pc = "lockB" /\ r.want = join_channels(d, joins)
    BY <1>1, <2>2, LockJoinsSets
  <2>4. /\ task' \in [Calls -> Tasks] /\ task'[d] = r
        /\ \A u \in Calls \ {d} : task'[u] = task[u]
    BY <1>1, <2>3, GotoSets
  <2>5. CallOK(d)'
    BY <1>2, <2>2, <2>3, <2>4, QuietStore, LockJoinsCall
  <2>6. QED
    BY <1>1, <1>2, <2>3, <2>4, <2>5, QuietStep DEF Typed
<1>5. QED BY <1>3, <1>4

(* get_joins, the fill from the history: every join that is left is written    *)
(* back, and perhaps some that were removed.                                   *)
LEMMA FillJoinsStep ==
    ASSUME IInv, NEW d \in Calls, d \in Datums, FillJoins(d)
    PROVE  /\ IInv' /\ Interference(d)
           /\ \A b : get_data(b)' = get_data(b)
           /\ \A g : stored_continuations(g)' = stored_continuations(g)
           /\ stored_joins(Channel[d])' = history.joins[Channel[d]]
           /\ \A b \in Channels \ {Channel[d]} : stored_joins(b)' = stored_joins(b)
<1>1. Typed /\ CallOK(d) /\ task[d] \in Tasks
  BY DEF IInv, Typed
<1>2. PICK c \in Channels : c = Channel[d]
  BY Constants
<1>3. PICK joins \in SUBSET Groups : joins = history.joins[c]
  BY <1>1 DEF Typed
<1>4. /\ task[d].pc = "fillJoins" /\ hotJoins' = [hotJoins EXCEPT ![c] = joins]
      /\ LockJoins(d, joins)
      /\ UNCHANGED <<hotData, hotConts, history, lockA, lockB, taken>>
  BY <1>2, <1>3 DEF FillJoins, At
<1>5. PICK r \in Tasks :
            /\ Goto(d, r)
            /\ r.cands = task[d].cands
            /\ \/ r.pc = "grouped" /\ join_channels(d, joins) = {}
               \/ r.pc = "lockB" /\ r.want = join_channels(d, joins)
  BY <1>1, <1>4, LockJoinsSets
<1>6. /\ task' \in [Calls -> Tasks] /\ task'[d] = r
      /\ \A u \in Calls \ {d} : task'[u] = task[u]
  BY <1>1, <1>5, GotoSets
<1>7. Typed'
  BY <1>1, <1>4, <1>6 DEF Typed
<1>8. /\ \A b : get_data(b)' = get_data(b)
      /\ \A g : stored_continuations(g)' = stored_continuations(g)
  BY <1>4 DEF get_data, stored_continuations
<1>9. /\ stored_joins(c)' = joins
      /\ \A b \in Channels \ {c} : stored_joins(b)' = stored_joins(b)
  <2>1. joins # NotCached
    BY CallsAssumption
  <2>2. hotJoins'[c] = joins /\ \A b \in Channels \ {c} : hotJoins'[b] = hotJoins[b]
    BY <1>1, <1>4 DEF Typed
  <2>3. QED BY <2>1, <2>2, <1>4 DEF stored_joins
<1>10. stored_joins(c) \subseteq joins /\ lockA[c] = d
  BY <1>1, <1>2, <1>3, <1>4, Constants DEF CallOK, FillsJoins, LocksA
<1>11. Interference(d)
  BY <1>4, <1>6, <1>8, <1>9, <1>10 DEF Interference
<1>12. DataOK' /\ ContsOK'
  BY <1>4, <1>8 DEF IInv, DataOK, ContsOK
<1>13. CallOK(d)'
  BY <1>2, <1>4, <1>5, <1>6, <1>8, <1>9, LockJoinsCall
<1>14. \A u \in Calls : CallOK(u)'
  BY <1>7, <1>11, <1>12, <1>13, KeepsOthers
<1>15. JoinsOK'
  BY <1>4, <1>6, <1>8, <1>9, <1>10, KeepsJoins
<1>16. NoMatchMissed'
  <2>1. Waiting' = Waiting
    BY <1>8 DEF Waiting
  <2>2. QED BY <2>1, <1>5, <1>6, <1>8, KeepsNoMatch
<1>17. QED
  BY <1>2, <1>3, <1>7, <1>8, <1>9, <1>11, <1>12, <1>14, <1>15, <1>16 DEF IInv

(* Phase B. *)
LEMMA AcquireBStep ==
    ASSUME IInv, NEW t \in Calls, AcquireB(t)
    PROVE  IInv' /\ Interference(t)
<1>1. Typed /\ CallOK(t) /\ task[t] \in Tasks
  BY DEF IInv, Typed
<1>2. PICK c : c = next_lock(t, task[t].want)
  OBVIOUS
<1>3. PICK rest : rest = task[t].want \ {c}
  OBVIOUS
<1>4. /\ task[t].pc = "lockB"
      /\ lockB[c] = Free
      /\ lockB' = [lockB EXCEPT ![c] = t]
      /\ Goto(t, IF rest # {} THEN [task[t] EXCEPT !.want = rest]
                 ELSE IF t \in Datums THEN [task[t] EXCEPT !.pc = "grouped", !.want = {}]
                 ELSE [task[t] EXCEPT !.pc = "fetch", !.want = {}, !.todo = {Group[t]}])
      /\ UNCHANGED <<hotVars, history, lockA, taken, revived>>
  BY <1>2, <1>3 DEF AcquireB, At
<1>5. task[t].want \subseteq Channels
  BY <1>1 DEF Tasks
<1>6. PICK r \in Tasks :
         /\ Goto(t, r)
         /\ r.cands = task[t].cands
         /\ \/ r.pc = "lockB" /\ r.want = rest
            \/ rest = {} /\ r.pc = "grouped" /\ t \in Datums
            \/ rest = {} /\ r.pc = "fetch" /\ r.todo = {Group[t]} /\ t \notin Datums
  <2>1. CASE rest # {}
    <3>1. [task[t] EXCEPT !.want = rest] \in Tasks
      BY <1>1, <1>3, <1>5 DEF Tasks, Pcs
    <3>2. QED BY <2>1, <3>1, <1>1, <1>4 DEF Tasks
  <2>2. CASE rest = {} /\ t \in Datums
    <3>1. [task[t] EXCEPT !.pc = "grouped", !.want = {}] \in Tasks
      BY <1>1 DEF Tasks, Pcs
    <3>2. QED BY <2>2, <3>1, <1>1, <1>4 DEF Tasks
  <2>3. CASE rest = {} /\ t \notin Datums
    <3>1. [task[t] EXCEPT !.pc = "fetch", !.want = {}, !.todo = {Group[t]}] \in Tasks
      BY <1>1, <2>3, Constants DEF Tasks, Pcs
    <3>2. QED BY <2>3, <3>1, <1>1, <1>4 DEF Tasks
  <2>4. QED BY <2>1, <2>2, <2>3
<1>7. /\ task' \in [Calls -> Tasks] /\ task'[t] = r
      /\ \A u \in Calls \ {t} : task'[u] = task[u]
  BY <1>1, <1>6, GotoSets
<1>8. UNCHANGED <<hotVars, history>> /\ lockA' = lockA
  BY <1>4
<1>9. /\ lockB' \in [Channels -> Calls \cup {Free}]
      /\ \A b \in Channels : lockB'[b] = IF b = c THEN t ELSE lockB[b]
  BY <1>1, <1>4 DEF Typed
<1>10. \A u \in Calls \ {t} : \A b \in Channels :
          (lockA[b] = u => lockA'[b] = u) /\ (lockB[b] = u => lockB'[b] = u)
  BY <1>4, <1>8, <1>9, Constants
<1>11. \A b \in Channels : HasB(t, b) => lockB'[b] = t \/ (b \in rest /\ r.pc = "lockB")
  BY <1>3, <1>4, <1>6, <1>9 DEF HasB
<1>12. \A b : stored_joins(b)' = stored_joins(b) /\ get_data(b)' = get_data(b)
  BY <1>8, QuietStore
<1>13. CallOK(t)'
  <2>1. LocksA(t)'
    BY <1>1, <1>4, <1>6, <1>7, <1>8 DEF CallOK, LocksA, phase_a_keys
  <2>2. ASSUME NEW b \in Channels, HasB(t, b) PROVE HasB(t, b)'
    BY <2>2, <1>6, <1>7, <1>11 DEF HasB
  <2>3. LocksB(t)'
    <3>1. ASSUME t \in Conts, NEW b \in Group[t] PROVE HasB(t, b)'
      BY <3>1, <2>2, <1>1, <1>4, Constants DEF CallOK, LocksB
    <3>2. ASSUME t \in Datums, NEW b,
                 NEW g \in stored_joins(Channel[t]) \cup installed_joins(Channel[t]), b \in g
          PROVE  HasB(t, b)'
      <4>1. b \in Channels
        BY <3>2, <1>1, StoreTypes, InstalledJoins, Constants
      <4>2. HasB(t, b)
        BY <3>2, <1>1, <1>4 DEF CallOK, LocksB
      <4>3. QED BY <4>1, <4>2, <2>2
    <3>3. QED BY <3>1, <3>2, <1>12 DEF LocksB, installed_joins
  <2>4. LocksGroup(t)'
    <3>1. ASSUME r.pc = "fetch", NEW b \in Group[t], t \in Conts PROVE lockB'[b] = t
      <4>1. HasB(t, b) /\ b \in Channels
        BY <3>1, <1>1, <1>4, Constants DEF CallOK, LocksB
      <4>2. QED BY <3>1, <4>1, <1>11
    <3>2. QED BY <3>1, <1>6, <1>7, Constants DEF LocksGroup
  <2>5. FillsJoins(t)' /\ SeenOK(t)' /\ CandsOK(t)'
    BY <1>6, <1>7 DEF FillsJoins, SeenOK, CandsOK
  <2>6. TestedOK(t)'
    BY <1>6, <1>7, Constants DEF TestedOK
  <2>7. Shape(t)'
    BY <1>1, <1>4, <1>6, <1>7 DEF CallOK, Shape
  <2>8. Fresh(t)'
    BY <1>1, <1>4, <1>8, <1>12 DEF CallOK, Fresh
  <2>9. QED
    BY <2>1, <2>3, <2>4, <2>5, <2>6, <2>7, <2>8 DEF CallOK
<1>14. /\ lockA' \in [Channels -> Calls \cup {Free}]
       /\ task[t].pc # "putJoin" /\ task'[t].cands = task[t].cands
  BY <1>1, <1>4, <1>6, <1>7, <1>8 DEF Typed
<1>15. QED
  BY <1>7, <1>8, <1>9, <1>10, <1>13, <1>14, QuietStep

(* The second look at the joins: all continuations that wait on the channel    *)
(* are on joins still to be tried.                                             *)
LEMMA GroupedChannelsStep ==
    ASSUME IInv, NEW d \in Calls, d \in Datums, GroupedChannels(d)
    PROVE  IInv' /\ Interference(d)
<1>1. Typed /\ CallOK(d) /\ task[d] \in Tasks /\ Channel[d] \in Channels
  BY Constants DEF IInv, Typed
<1>2. PICK groups : groups = stored_joins(Channel[d]) \cup installed_joins(Channel[d])
  OBVIOUS
<1>3. groups \subseteq Groups
  BY <1>1, <1>2, StoreTypes, InstalledJoins
<1> DEFINE r == [task[d] EXCEPT !.pc = IF groups = {} THEN "store" ELSE "fetch", !.todo = groups]
<1>4. /\ task[d].pc = "grouped" /\ Goto(d, r) /\ UNCHANGED <<hotVars, history>>
      /\ lockA' = lockA /\ lockB' = lockB
  BY <1>2 DEF GroupedChannels, At
<1>5. /\ r \in Tasks /\ r.cands = task[d].cands /\ r.todo = groups
      /\ r.pc = IF groups = {} THEN "store" ELSE "fetch"
  BY <1>1, <1>3 DEF Tasks, Pcs
<1> HIDE DEF r
<1>6. /\ task' \in [Calls -> Tasks] /\ task'[d] = r
      /\ \A u \in Calls \ {d} : task'[u] = task[u]
  BY <1>1, <1>4, <1>5, GotoSets
<1>7. /\ Waiting' = Waiting
      /\ \A b : stored_joins(b)' = stored_joins(b) /\ get_data(b)' = get_data(b)
  BY <1>4, QuietStore
<1>8. \A g \in groups : \A c \in g : lockB[c] = d
  BY <1>1, <1>2, <1>4 DEF CallOK, LocksB, HasB
<1>9. CallOK(d)'
  <2>1. LocksA(d)'
    BY <1>1, <1>4, <1>5, <1>6 DEF CallOK, LocksA, phase_a_keys
  <2>2. LocksB(d)'
    BY <1>2, <1>4, <1>7, <1>8, Constants DEF LocksB, HasB, installed_joins
  <2>3. LocksGroup(d)'
    BY <1>4, <1>5, <1>6, <1>8 DEF LocksGroup
  <2>4. FillsJoins(d)' /\ SeenOK(d)' /\ CandsOK(d)'
    BY <1>5, <1>6 DEF FillsJoins, SeenOK, CandsOK
  <2>5. TestedOK(d)'
    <3>1. \A k \in Waiting : Channel[d] \in Group[k] => Group[k] \in groups
      BY <1>2, <1>4, Protection
    <3>2. QED BY <3>1, <1>5, <1>6, <1>7, Constants DEF TestedOK
  <2>6. Shape(d)'
    BY <1>1, <1>4, <1>5, <1>6, Constants DEF CallOK, Shape
  <2>7. Fresh(d)'
    BY <1>1, <1>4, <1>7 DEF CallOK, Fresh
  <2>8. QED
    BY <2>1, <2>2, <2>3, <2>4, <2>5, <2>6, <2>7 DEF CallOK
<1>10. /\ lockA' \in [Channels -> Calls \cup {Free}] /\ lockB' \in [Channels -> Calls \cup {Free}]
       /\ task[d].pc # "putJoin" /\ task'[d].cands = task[d].cands
  BY <1>1, <1>4, <1>5, <1>6 DEF Typed
<1>11. QED
  BY <1>4, <1>6, <1>9, <1>10, QuietStep

(* The look at the data and continuations of a join. *)
LEMMA FetchStep ==
    ASSUME IInv, NEW t \in Calls, NEW g \in task[t].todo, Fetch(t, g)
    PROVE  IInv' /\ Interference(t)
<1>1. Typed /\ CallOK(t) /\ task[t] \in Tasks /\ ContsOK
  BY DEF IInv, Typed
<1>2. g \in Groups /\ g \subseteq Channels
  BY <1>1, Constants DEF Tasks
<1>3. PICK missing : missing = {c \in g : hotData[c] = NotCached}
  OBVIOUS
<1>4. PICK missingConts : missingConts = {j \in {g} : t \in Datums /\ hotConts[j] = NotCached}
  OBVIOUS
<1>5. PICK conts : conts = IF t \in Datums THEN get_continuations(g) ELSE <<t>>
  OBVIOUS
<1>6. PICK data : data = [c \in g |-> get_data(c)]
  OBVIOUS
<1> DEFINE s == [data |-> data, conts |-> conts, missing |-> missing, missingConts |-> missingConts]
           r == [task[t] EXCEPT !.pc = IF missing = {} /\ missingConts = {} THEN "match" ELSE "fill",
                                !.group = g, !.seen = s]
<1>7. /\ task[t].pc = "fetch" /\ Goto(t, r) /\ UNCHANGED <<hotVars, history>>
      /\ lockA' = lockA /\ lockB' = lockB
  BY <1>3, <1>4, <1>5, <1>6 DEF Fetch, At
<1>8. data \in [g -> Seq(Datums)] /\ conts \in Seq(Conts)
  <2>1. data \in [g -> Seq(Datums)]
    BY <1>1, <1>2, <1>6, StoreTypes
  <2>2. CASE t \in Datums
    BY <2>1, <2>2, <1>1, <1>2, <1>5, ContinuationsListed
  <2>3. CASE t \in Conts
    <3>1. conts = <<t>>
      BY <2>3, <1>5, Constants
    <3>2. QED BY <2>1, <2>3, <3>1
  <2>4. QED BY <2>2, <2>3, Constants
<1>9. s \in Fetched
  BY <1>2, <1>3, <1>4, <1>8 DEF Fetched
<1>10. s.data = data /\ s.conts = conts /\ s.missing = missing /\ s.missingConts = missingConts
  OBVIOUS
<1> HIDE DEF s
<1>11. /\ r \in Tasks /\ r.cands = task[t].cands /\ r.todo = task[t].todo /\ r.group = g
       /\ r.seen = s /\ r.pc \in {"match", "fill"}
  BY <1>1, <1>2, <1>9 DEF Tasks, Pcs
<1> HIDE DEF r
<1>12. /\ task' \in [Calls -> Tasks] /\ task'[t] = r
       /\ \A u \in Calls \ {t} : task'[u] = task[u]
  BY <1>1, <1>7, <1>11, GotoSets
<1>13. /\ Waiting' = Waiting /\ \A j : stored_continuations(j)' = stored_continuations(j)
       /\ \A b : stored_joins(b)' = stored_joins(b) /\ get_data(b)' = get_data(b)
       /\ \A j : get_continuations(j)' = get_continuations(j)
  BY <1>7, QuietStore
<1>14. CallOK(t)'
  <2>1. LocksA(t)'
    BY <1>1, <1>7, <1>11, <1>12 DEF CallOK, LocksA, phase_a_keys
  <2>2. LocksB(t)'
    BY <1>1, <1>7, <1>13 DEF CallOK, LocksB, HasB, installed_joins
  <2>3. LocksGroup(t)'
    BY <1>1, <1>7, <1>11, <1>12 DEF CallOK, LocksGroup
  <2>4. FillsJoins(t)' /\ CandsOK(t)'
    BY <1>11, <1>12 DEF FillsJoins, CandsOK
  <2>5. SeenOK(t)'
    <3>1. \A c \in missing : c \in g /\ data[c] = history.data[c] /\ get_data(c) = history.data[c]
      BY <1>3, <1>6 DEF get_data
    <3>2. \A j \in missingConts : j = g /\ stored_continuations(j) = history.conts[j]
      BY <1>4 DEF stored_continuations
    <3>3. \A c \in g : data[c] = get_data(c)
      BY <1>6
    <3>4. history' = history
      BY <1>7
    <3>5. QED
      BY <3>1, <3>2, <3>3, <3>4, <1>5, <1>8, <1>9, <1>10, <1>11, <1>12, <1>13 DEF SeenOK
  <2>6. TestedOK(t)'
    BY <1>1, <1>7, <1>11, <1>12, <1>13 DEF CallOK, TestedOK, Starved
  <2>7. Shape(t)'
    BY <1>1, <1>2, <1>7, <1>11, <1>12, Constants DEF CallOK, Shape
  <2>8. Fresh(t)'
    BY <1>1, <1>7, <1>13 DEF CallOK, Fresh
  <2>9. QED
    BY <2>1, <2>2, <2>3, <2>4, <2>5, <2>6, <2>7, <2>8 DEF CallOK
<1>15. /\ lockA' \in [Channels -> Calls \cup {Free}] /\ lockB' \in [Channels -> Calls \cup {Free}]
       /\ task[t].pc # "putJoin" /\ task'[t].cands = task[t].cands
  BY <1>1, <1>7, <1>11, <1>12 DEF Typed
<1>16. QED
  BY <1>7, <1>12, <1>14, <1>15, QuietStep

(* Without a full set of candidates some channel has none. *)
LEMMA NoCandidates ==
    ASSUME NEW t, NEW k, NEW g, g = task[t].group, extract_data_candidates(t, k) = {}
    PROVE  \E c \in g : data_candidates(t, k, c) = {}
<1> SUFFICES ASSUME \A c \in g : data_candidates(t, k, c) # {}
             PROVE  FALSE
  OBVIOUS
<1> DEFINE options == [c \in g |-> data_candidates(t, k, c)]
           F == {f \in [g -> UNION {options[c] : c \in g}] : \A c \in g : f[c] \in options[c]}
           h == [c \in g |-> CHOOSE x : x \in options[c]]
<1>1. \A c \in g : h[c] \in options[c]
  OBVIOUS
<1>2. h \in F
  BY <1>1
<1>3. extract_data_candidates(t, k) = {{f[c] : c \in g} : f \in F}
  BY DEF extract_data_candidates
<1> HIDE DEF options, F, h
<1>4. {h[c] : c \in g} \in extract_data_candidates(t, k)
  BY <1>2, <1>3
<1>5. QED BY <1>4

(* A channel without candidates has nothing for the continuation. *)
LEMMA NoneIsStarved ==
    ASSUME Typed, NEW t, NEW k, NEW c \in Channels, task[t].seen.data[c] = get_data(c),
           data_candidates(t, k, c) = {}
    PROVE  Starved(t, k, c)
<1>1. ~(t \in Datums /\ c = Channel[t] /\ t \in Accepts[k])
  BY DEF data_candidates
<1>2. \A i \in DOMAIN get_data(c) : get_data(c)[i] \notin Accepts[k]
  BY <1>1 DEF data_candidates
<1>3. QED
  BY <1>1, <1>2 DEF Starved, Range

(* No match on a join: its continuations join those that cannot be matched. *)
LEMMA NoMatchStep ==
    ASSUME IInv, NEW t \in Calls, NoMatch(t)
    PROVE  IInv' /\ Interference(t)
<1>1. Typed /\ CallOK(t) /\ task[t] \in Tasks /\ ContsOK
  BY DEF IInv, Typed
<1>2. PICK rest : rest = task[t].todo \ {task[t].group}
  OBVIOUS
<1> DEFINE r == [task[t] EXCEPT !.pc = IF rest = {} THEN "store" ELSE "fetch",
                                !.todo = rest, !.group = {}, !.seen = NotSeen]
<1>3. /\ task[t].pc = "match" /\ ~Matches(t) /\ Goto(t, r) /\ UNCHANGED <<hotVars, history>>
      /\ lockA' = lockA /\ lockB' = lockB
  BY <1>2 DEF NoMatch, At
<1>4. /\ r \in Tasks /\ r.cands = task[t].cands /\ r.todo = rest
      /\ r.pc = IF rest = {} THEN "store" ELSE "fetch"
  <2> HIDE DEF NotSeen
  <2>1. rest \subseteq Groups
    BY <1>1, <1>2 DEF Tasks
  <2>2. QED BY <1>1, <2>1 DEF Tasks, Pcs
<1> HIDE DEF r
<1>5. /\ task' \in [Calls -> Tasks] /\ task'[t] = r
      /\ \A u \in Calls \ {t} : task'[u] = task[u]
  BY <1>1, <1>3, <1>4, GotoSets
<1>6. /\ Waiting' = Waiting
      /\ \A b : stored_joins(b)' = stored_joins(b) /\ get_data(b)' = get_data(b)
  BY <1>3, QuietStore
<1>7. PICK g \in Groups : g = task[t].group
  BY <1>1, <1>3 DEF CallOK, Shape
<1>8. ASSUME NEW k \in Range(task[t].seen.conts)
      PROVE  \E c \in g : Starved(t, k, c)
  <2>1. PICK i \in DOMAIN task[t].seen.conts : task[t].seen.conts[i] = k
    BY DEF Range
  <2>2. extract_data_candidates(t, k) = {}
    BY <2>1, <1>3 DEF Matches
  <2>3. PICK c \in g : data_candidates(t, k, c) = {}
    BY <2>2, <1>7, NoCandidates
  <2>4. task[t].seen.conts # <<>>
    BY <2>1
  <2>5. task[t].seen.data[c] = get_data(c)
    BY <2>4, <1>1, <1>3, <1>7 DEF CallOK, SeenOK
  <2>6. QED BY <2>3, <2>5, <1>1, NoneIsStarved, Constants
<1>9. TestedOK(t)'
  <2>1. ASSUME NEW k, NEW c PROVE Starved(t, k, c)' <=> Starved(t, k, c)
    BY <1>6 DEF Starved
  <2>2. ASSUME t \in Datums, NEW k \in Waiting, Channel[t] \in Group[k], Group[k] \notin rest
        PROVE  \E c \in Group[k] : Starved(t, k, c)
    <3>1. CASE Group[k] \notin task[t].todo
      BY <2>2, <3>1, <1>1, <1>3 DEF CallOK, TestedOK
    <3>2. CASE Group[k] \in task[t].todo
      <4>1. Group[k] = g
        BY <2>2, <3>2, <1>2, <1>7
      <4>2. k \in Range(get_continuations(g))
        BY <4>1, <1>1, ContinuationsListed
      <4>3. task[t].seen.conts = get_continuations(g)
        BY <2>2, <1>1, <1>3, <1>7 DEF CallOK, SeenOK
      <4>4. QED BY <4>1, <4>2, <4>3, <1>8
    <3>3. QED BY <3>1, <3>2
  <2>3. ASSUME t \in Conts PROVE \E c \in Group[t] : Starved(t, t, c)
    <3>1. t \notin Datums /\ g = Group[t]
      BY <2>3, <1>1, <1>3, <1>7, Constants DEF CallOK, Shape
    <3>2. task[t].seen.conts = <<t>>
      BY <3>1, <1>1, <1>3 DEF CallOK, SeenOK
    <3>3. t \in Range(task[t].seen.conts)
      BY <3>2 DEF Range
    <3>4. QED BY <3>1, <3>3, <1>8
  <2>4. QED
    BY <2>1, <2>2, <2>3, <1>4, <1>5, <1>6 DEF TestedOK
<1>10. CallOK(t)'
  <2>1. LocksA(t)'
    BY <1>1, <1>3, <1>4, <1>5 DEF CallOK, LocksA, phase_a_keys
  <2>2. LocksB(t)'
    BY <1>1, <1>3, <1>6 DEF CallOK, LocksB, HasB, installed_joins
  <2>3. LocksGroup(t)'
    BY <1>1, <1>2, <1>3, <1>4, <1>5 DEF CallOK, LocksGroup
  <2>4. FillsJoins(t)' /\ SeenOK(t)' /\ CandsOK(t)'
    BY <1>4, <1>5 DEF FillsJoins, SeenOK, CandsOK
  <2>5. Shape(t)'
    <3>1. t \in Conts => rest = {}
      BY <1>1, <1>2, <1>3 DEF CallOK, Shape
    <3>2. QED BY <3>1, <1>1, <1>3, <1>4, <1>5 DEF CallOK, Shape
  <2>6. Fresh(t)'
    BY <1>1, <1>3, <1>6 DEF CallOK, Fresh
  <2>7. QED
    BY <2>1, <2>2, <2>3, <2>4, <2>5, <2>6, <1>9 DEF CallOK
<1>11. /\ lockA' \in [Channels -> Calls \cup {Free}] /\ lockB' \in [Channels -> Calls \cup {Free}]
       /\ task[t].pc # "putJoin" /\ task'[t].cands = task[t].cands
  BY <1>1, <1>3, <1>4, <1>5 DEF Typed
<1>12. QED
  BY <1>3, <1>5, <1>10, <1>11, QuietStep

(* The return gives back the locks. *)
LEMMA ReturnStep ==
    ASSUME IInv, NEW t \in Calls, Return(t)
    PROVE  IInv' /\ Interference(t)
<1>1. Typed /\ CallOK(t)
  BY DEF IInv
<1> DEFINE r == [Idle EXCEPT !.pc = "done"]
<1>2. /\ task[t].pc = "return" /\ Goto(t, r) /\ UNCHANGED <<hotVars, history>>
      /\ lockA' = [c \in Channels |-> IF lockA[c] = t THEN Free ELSE lockA[c]]
      /\ lockB' = [c \in Channels |-> IF lockB[c] = t THEN Free ELSE lockB[c]]
  BY DEF Return, At
<1>3. r \in Tasks /\ r.pc = "done" /\ r.cands = {}
  BY DEF Tasks, Pcs, Idle
<1> HIDE DEF r
<1>4. /\ task' \in [Calls -> Tasks] /\ task'[t] = r
      /\ \A u \in Calls \ {t} : task'[u] = task[u]
  BY <1>1, <1>2, <1>3, GotoSets
<1>5. task[t].cands = {}
  BY <1>1, <1>2 DEF CallOK, Shape
<1>6. CallOK(t)'
  BY <1>3, <1>4 DEF CallOK, LocksA, LocksB, LocksGroup, Shape, FillsJoins, SeenOK, TestedOK,
                    CandsOK, Fresh
<1>7. /\ lockA' \in [Channels -> Calls \cup {Free}] /\ lockB' \in [Channels -> Calls \cup {Free}]
      /\ \A u \in Calls \ {t} : \A c \in Channels :
            (lockA[c] = u => lockA'[c] = u) /\ (lockB[c] = u => lockB'[c] = u)
  BY <1>1, <1>2 DEF Typed
<1>8. task[t].pc # "putJoin" /\ task'[t].cands = task[t].cands
  BY <1>2, <1>3, <1>4, <1>5
<1>9. QED
  BY <1>2, <1>4, <1>6, <1>7, <1>8, QuietStep

-----------------------------------------------------------------------------
(* Steps that change the store. *)

(* A fill of the cache: no datum appears, and the continuations are the same. *)
LEMMA FillStep ==
    ASSUME IInv, NEW t \in Calls, Fill(t)
    PROVE  /\ IInv' /\ Interference(t)
           /\ \A c \in Channels : get_data(c)' = IF c \in task[t].seen.missing
                                                 THEN history.data[c] ELSE get_data(c)
           /\ \A c \in Channels : Range(get_data(c)') \subseteq Range(get_data(c))
           /\ \A j \in Groups : stored_continuations(j)' = stored_continuations(j)
           /\ \A c \in Channels : stored_joins(c)' = stored_joins(c)
<1>1. Typed /\ CallOK(t) /\ task[t] \in Tasks /\ DataOK /\ ContsOK
  BY DEF IInv, Typed
<1>2. PICK seen : seen = task[t].seen
  OBVIOUS
<1> DEFINE r == [task[t] EXCEPT !.pc = "match"]
<1>3. /\ task[t].pc = "fill" /\ Goto(t, r)
      /\ hotData' = [c \in Channels |->
                        IF c \in seen.missing THEN history.data[c] ELSE hotData[c]]
      /\ hotConts' = [g \in Groups |->
                        IF g \in seen.missingConts THEN history.conts[g] ELSE hotConts[g]]
      /\ UNCHANGED <<hotJoins, history, lockA, lockB>>
  BY <1>2 DEF Fill, At
<1>4. /\ r \in Tasks /\ r.cands = task[t].cands /\ r.todo = task[t].todo
      /\ r.group = task[t].group /\ r.seen = seen /\ r.pc = "match"
  BY <1>1, <1>2 DEF Tasks, Pcs
<1> HIDE DEF r
<1>5. /\ task' \in [Calls -> Tasks] /\ task'[t] = r
      /\ \A u \in Calls \ {t} : task'[u] = task[u]
  BY <1>1, <1>3, <1>4, GotoSets
<1>6. Typed'
  <2>1. /\ hotData' \in [Channels -> {NotCached} \cup Seq(Datums)]
        /\ hotConts' \in [Groups -> {NotCached} \cup Seq(Conts)]
    BY <1>1, <1>3 DEF Typed
  <2>2. QED BY <2>1, <1>1, <1>3, <1>5 DEF Typed
<1>7. PICK g \in Groups : g = task[t].group
  BY <1>1, <1>3 DEF CallOK, Shape
<1>8. g \subseteq Channels /\ \A c \in g : lockB[c] = t
  BY <1>1, <1>3, <1>7, Constants DEF CallOK, LocksGroup
<1>9. /\ \A c \in seen.missing : /\ c \in g /\ seen.data[c] = history.data[c]
                                 /\ Range(history.data[c]) \subseteq Range(get_data(c))
      /\ \A j \in seen.missingConts : j = g /\ stored_continuations(j) = history.conts[j]
      /\ seen \in Fetched /\ seen.data \in [g -> Seq(Datums)]
      /\ seen.conts = IF t \in Datums THEN get_continuations(g) ELSE <<t>>
      /\ seen.conts # <<>> => \A c \in g : seen.data[c] = get_data(c)
  BY <1>1, <1>2, <1>3, <1>7 DEF CallOK, SeenOK
<1>10. \A c \in Channels : get_data(c)' = IF c \in seen.missing THEN history.data[c] ELSE get_data(c)
  <2>1. \A c \in Channels : history.data[c] # NotCached
    BY <1>1, StoreTypes, CallsAssumption
  <2>2. QED BY <2>1, <1>3 DEF get_data
<1>11. \A j \in Groups : stored_continuations(j)' = stored_continuations(j)
  <2>1. \A j \in Groups : history.conts[j] # NotCached
    BY <1>1, StoreTypes, CallsAssumption
  <2>2. QED BY <2>1, <1>3, <1>9 DEF stored_continuations
<1>12. \A c \in Channels : stored_joins(c)' = stored_joins(c)
  BY <1>3 DEF stored_joins
<1>13. \A c \in Channels : Range(get_data(c)') \subseteq Range(get_data(c))
  BY <1>9, <1>10
<1>14. Interference(t)
  BY <1>3, <1>5, <1>8, <1>9, <1>10, <1>11, <1>12, <1>13 DEF Interference
<1>15. DataOK' /\ ContsOK'
  BY <1>1, <1>3, <1>10, <1>11 DEF DataOK, ContsOK
<1>16. Waiting' = Waiting
  BY <1>11 DEF Waiting
<1>17. CallOK(t)'
  <2>1. LocksA(t)'
    BY <1>1, <1>3, <1>4, <1>5 DEF CallOK, LocksA, phase_a_keys
  <2>2. LocksB(t)'
    BY <1>1, <1>3, <1>12, Constants DEF CallOK, LocksB, HasB, installed_joins
  <2>3. LocksGroup(t)'
    BY <1>1, <1>3, <1>4, <1>5 DEF CallOK, LocksGroup
  <2>4. FillsJoins(t)' /\ CandsOK(t)'
    BY <1>4, <1>5 DEF FillsJoins, CandsOK
  <2>5. SeenOK(t)'
    <3>1. get_continuations(g)' = get_continuations(g)
      BY <1>11 DEF get_continuations, installed
    <3>2. seen.conts # <<>> => \A c \in g : seen.data[c] = get_data(c)'
      BY <1>8, <1>9, <1>10
    <3>3. QED
      BY <3>1, <3>2, <1>4, <1>5, <1>7, <1>9 DEF SeenOK
  <2>6. TestedOK(t)'
    <3>1. ASSUME NEW k \in Waiting, Channel[t] \in Group[k], Group[k] \notin task[t].todo,
                 t \in Datums
          PROVE  \E c \in Group[k] : Starved(t, k, c)'
      <4>1. PICK c \in Group[k] : Starved(t, k, c)
        BY <3>1, <1>1, <1>3 DEF CallOK, TestedOK
      <4>2. c \in Channels
        BY <1>1, WaitingMembers, Constants
      <4>3. QED BY <4>1, <4>2, <1>13 DEF Starved
    <3>2. QED BY <3>1, <1>4, <1>5, <1>16 DEF TestedOK
  <2>7. Shape(t)'
    BY <1>1, <1>3, <1>4, <1>5 DEF CallOK, Shape
  <2>8. Fresh(t)'
    BY <1>1, <1>3, <1>13, Constants DEF CallOK, Fresh
  <2>9. QED
    BY <2>1, <2>2, <2>3, <2>4, <2>5, <2>6, <2>7, <2>8 DEF CallOK
<1>18. \A u \in Calls : CallOK(u)'
  BY <1>6, <1>14, <1>15, <1>17, KeepsOthers
<1>19. JoinsOK'
  BY <1>3, <1>5, <1>11, <1>12, KeepsJoins
<1>20. NoMatchMissed'
  BY <1>4, <1>5, <1>13, <1>16, KeepsNoMatch
<1>21. QED
  BY <1>2, <1>6, <1>10, <1>11, <1>12, <1>13, <1>14, <1>15, <1>18, <1>19, <1>20 DEF IInv

(* A set of candidates has one for every channel of the join. *)
LEMMA ExtractShape ==
    ASSUME NEW t, NEW k, NEW g, g = task[t].group,
           NEW cands \in extract_data_candidates(t, k)
    PROVE  \E f : /\ cands = {f[c] : c \in g}
                  /\ \A c \in g : f[c] \in data_candidates(t, k, c)
<1> DEFINE options == [c \in g |-> data_candidates(t, k, c)]
           F == {f \in [g -> UNION {options[c] : c \in g}] : \A c \in g : f[c] \in options[c]}
<1>1. extract_data_candidates(t, k) = {{f[c] : c \in g} : f \in F}
  BY DEF extract_data_candidates
<1>2. PICK f \in F : cands = {f[c] : c \in g}
  BY <1>1
<1>3. \A c \in g : f[c] \in data_candidates(t, k, c)
  BY <1>2
<1>4. QED BY <1>2, <1>3

(* A candidate names its channel, and where in the data it was found. *)
LEMMA CandidateShape ==
    ASSUME NEW t, NEW k, NEW c \in Channels, NEW data \in Seq(Datums),
           task[t].seen.data[c] = data, NEW x \in data_candidates(t, k, c)
    PROVE  /\ x \in Candidates /\ x.channel = c /\ x.datum \in Accepts[k]
           /\ x.index > 0 => x.index \in DOMAIN data /\ data[x.index] = x.datum
           /\ x.index = 0 => t \in Datums /\ x.datum = t
<1>1. CASE t \in Datums /\ c = Channel[t] /\ t \in Accepts[k]
  <2>1. x = [channel |-> c, datum |-> t, index |-> 0]
    BY <1>1 DEF data_candidates
  <2>2. QED BY <2>1, <1>1 DEF Candidates
<1>2. CASE ~(t \in Datums /\ c = Channel[t] /\ t \in Accepts[k])
  <2>1. PICK i \in {j \in DOMAIN data : data[j] \in Accepts[k]} :
           x = [channel |-> c, datum |-> data[i], index |-> i]
    BY <1>2 DEF data_candidates
  <2>2. i \in 1..Len(data)
    BY <2>1
  <2>3. QED BY <2>1, <2>2 DEF Candidates
<1>3. QED BY <1>1, <1>2

(* A join with a waiting continuation is known to all its channels, once its   *)
(* phase B is held by a produce.                                               *)
LEMMA WaitingKnown ==
    ASSUME IInv, NEW t \in Calls, t \in Datums, NEW k \in Waiting, NEW c \in Group[k],
           lockB[c] = t
    PROVE  Group[k] \in stored_joins(c) \cup installed_joins(c)
<1>1. Typed /\ ContsOK /\ JoinsOK
  BY DEF IInv
<1>2. k \in Conts /\ Group[k] \in Groups
  BY <1>1, WaitingMembers
<1>3. CASE k \in Installed
  BY <1>3, InstalledJoins
<1>4. CASE k \notin Installed
  <2>1. k \in Range(stored_continuations(Group[k]))
    BY <1>1, <1>4, WaitingMembers
  <2>2. ASSUME NEW v \in Calls, Putting(v, Group[k], c) PROVE FALSE
    <3>1. v \in Conts /\ Group[v] = Group[k] /\ task[v].pc = "putJoin"
      BY <2>2 DEF Putting
    <3>2. lockB[c] = v
      BY <3>1 DEF IInv, CallOK, LocksB, HasB
    <3>3. QED BY <3>1, <3>2, Constants
  <2>3. QED BY <2>1, <2>2, <1>1, <1>2 DEF JoinsOK
<1>5. QED BY <1>3, <1>4

(* The effect of a match on the store: at most one continuation of the join    *)
(* goes, the one that was matched.                                             *)
LEMMA MatchStore ==
    ASSUME IInv, NEW t \in Calls, task[t].pc = "match", UNCHANGED <<hotData, hotJoins, history>>,
           NEW i \in DOMAIN task[t].seen.conts, NEW k, k = task[t].seen.conts[i],
           IF t \in Datums /\ k \notin Persistent
           THEN remove_continuation(task[t].group, i) ELSE UNCHANGED hotConts
    PROVE  /\ hotConts' \in [Groups -> {NotCached} \cup Seq(Conts)]
           /\ \A c : get_data(c)' = get_data(c) /\ stored_joins(c)' = stored_joins(c)
           /\ \A g \in Groups : g # task[t].group =>
                 stored_continuations(g)' = stored_continuations(g)
           /\ \A g \in Groups :
                 Range(stored_continuations(g)') \subseteq Range(stored_continuations(g))
           /\ \A g \in Groups : IsInjective(stored_continuations(g)) =>
                 /\ IsInjective(stored_continuations(g)')
                 /\ t \in Datums /\ k \notin Persistent /\ g = task[t].group =>
                       Range(stored_continuations(g)') = Range(stored_continuations(g)) \ {k}
           /\ ~(t \in Datums /\ k \notin Persistent) =>
                 \A g : stored_continuations(g)' = stored_continuations(g)
<1>1. Typed /\ CallOK(t) /\ ContsOK
  BY DEF IInv
<1>2. \A c : get_data(c)' = get_data(c) /\ stored_joins(c)' = stored_joins(c)
  BY DEF get_data, stored_joins
<1>3. CASE ~(t \in Datums /\ k \notin Persistent)
  <2>1. hotConts' = hotConts
    BY <1>3
  <2>2. \A g : stored_continuations(g)' = stored_continuations(g)
    BY <2>1 DEF stored_continuations
  <2>3. QED BY <1>1, <1>2, <1>3, <2>1, <2>2 DEF Typed
<1>4. CASE t \in Datums /\ k \notin Persistent
  <2>1. PICK j \in Groups : j = task[t].group
    BY <1>1 DEF CallOK, Shape
  <2>2. PICK n : n = i - Len(installed(j))
    OBVIOUS
  <2>3. PICK s \in Seq(Conts) : s = stored_continuations(j)
    BY <1>1, StoreTypes
  <2>4. hotConts' = [hotConts EXCEPT ![j] = remove_at(s, n)]
    BY <1>4, <2>1, <2>2, <2>3 DEF remove_continuation
  <2>5. task[t].seen.conts = get_continuations(j)
    BY <1>1, <1>4, <2>1 DEF CallOK, SeenOK
  <2>6. get_continuations(j) \in Seq(Conts) /\ i \in DOMAIN get_continuations(j)
           /\ get_continuations(j)[i] = k
    BY <1>1, <2>5, ContinuationsListed
  <2>7. k \notin Installed
    BY <1>4, CallsAssumption
  <2>8. n \in DOMAIN s /\ s[n] = k
    BY <1>1, <2>2, <2>3, <2>6, <2>7, ContinuationsListed
  <2>9. n \in Int
    BY <2>8
  <2>10. /\ remove_at(s, n) \in Seq(Conts)
         /\ Range(remove_at(s, n)) \subseteq Range(s)
         /\ IsInjective(s) => /\ IsInjective(remove_at(s, n))
                              /\ Range(remove_at(s, n)) = Range(s) \ {k}
    <3>1. /\ remove_at(s, n) \in Seq(Conts)
          /\ Range(remove_at(s, n)) \subseteq Range(s)
          /\ IsInjective(s) =>
                /\ IsInjective(remove_at(s, n))
                /\ n \in DOMAIN s => Range(remove_at(s, n)) = Range(s) \ {s[n]}
      BY <2>9, RemoveAtDrops
    <3>2. QED BY <3>1, <2>8
  <2>11. remove_at(s, n) # NotCached
    BY <2>10, CallsAssumption
  <2>12. /\ hotConts' \in [Groups -> {NotCached} \cup Seq(Conts)]
         /\ hotConts'[j] = remove_at(s, n)
         /\ \A g \in Groups : g # j => hotConts'[g] = hotConts[g]
    BY <1>1, <2>4, <2>10 DEF Typed
  <2>13. /\ stored_continuations(j)' = remove_at(s, n)
         /\ \A g \in Groups : g # j => stored_continuations(g)' = stored_continuations(g)
    BY <2>11, <2>12 DEF stored_continuations
  <2>14. ASSUME NEW g \in Groups
         PROVE  /\ Range(stored_continuations(g)') \subseteq Range(stored_continuations(g))
                /\ IsInjective(stored_continuations(g)) =>
                      /\ IsInjective(stored_continuations(g)')
                      /\ g = j => Range(stored_continuations(g)') =
                                     Range(stored_continuations(g)) \ {k}
    BY <2>3, <2>10, <2>13
  <2>15. QED BY <1>2, <1>4, <2>1, <2>12, <2>13, <2>14
<1>5. QED BY <1>3, <1>4

(* A match: the candidates are where they were seen, and their channels know   *)
(* the join.                                                                   *)
LEMMA MatchFoundStep ==
    ASSUME IInv, NEW t \in Calls, MatchFound(t)
    PROVE  IInv' /\ Interference(t)
<1>1. Typed /\ CallOK(t) /\ task[t] \in Tasks /\ DataOK /\ ContsOK
  BY DEF IInv, Typed
<1>2. /\ task[t].pc = "match"
      /\ UNCHANGED <<hotData, hotJoins, history, lockA, lockB>>
  BY DEF MatchFound, At
<1>3. PICK i \in DOMAIN task[t].seen.conts :
         \E cands \in extract_data_candidates(t, task[t].seen.conts[i]) :
            /\ IF t \in Datums /\ task[t].seen.conts[i] \notin Persistent
               THEN remove_continuation(task[t].group, i)
               ELSE UNCHANGED hotConts
            /\ Goto(t, [task[t] EXCEPT !.pc = "remove", !.cands = cands,
                                       !.seen = NotSeen, !.todo = {}])
  BY DEF MatchFound
<1>4. PICK k : k = task[t].seen.conts[i]
  OBVIOUS
<1>5. PICK cands \in extract_data_candidates(t, k) :
            /\ IF t \in Datums /\ k \notin Persistent
               THEN remove_continuation(task[t].group, i)
               ELSE UNCHANGED hotConts
            /\ Goto(t, [task[t] EXCEPT !.pc = "remove", !.cands = cands,
                                       !.seen = NotSeen, !.todo = {}])
  BY <1>3, <1>4
<1>6. PICK g \in Groups : g = task[t].group
  BY <1>1, <1>2 DEF CallOK, Shape
<1>7. /\ g \subseteq Channels /\ \A c \in g : lockB[c] = t
      /\ \A c \in g : task[t].seen.data[c] = get_data(c)
      /\ task[t].seen.conts = IF t \in Datums THEN get_continuations(g) ELSE <<t>>
      /\ \A c \in g : get_data(c) \in Seq(Datums)
  <2>1. g \subseteq Channels /\ \A c \in g : lockB[c] = t
    BY <1>1, <1>2, <1>6, Constants DEF CallOK, LocksGroup
  <2>2. task[t].seen.conts # <<>>
    BY <1>3
  <2>3. QED BY <1>1, <1>2, <1>6, <2>1, <2>2, StoreTypes DEF CallOK, SeenOK
<1>8. PICK f : /\ cands = {f[c] : c \in g}
               /\ \A c \in g : f[c] \in data_candidates(t, k, c)
  BY <1>5, <1>6, ExtractShape
<1>9. \A c \in g : /\ f[c] \in Candidates /\ f[c].channel = c
                   /\ f[c].index > 0 => /\ f[c].index \in DOMAIN get_data(c)
                                        /\ get_data(c)[f[c].index] = f[c].datum
  BY <1>7, <1>8, CandidateShape
<1> DEFINE r == [task[t] EXCEPT !.pc = "remove", !.cands = cands, !.seen = NotSeen, !.todo = {}]
<1>10. /\ r \in Tasks /\ r.cands = cands /\ r.pc = "remove" /\ r.group = g
  <2> HIDE DEF NotSeen
  <2>1. cands \subseteq Candidates
    BY <1>8, <1>9
  <2>2. QED BY <1>1, <1>6, <2>1 DEF Tasks, Pcs
<1>11. Goto(t, r)
  BY <1>5
<1> HIDE DEF r
<1>12. /\ task' \in [Calls -> Tasks] /\ task'[t] = r
       /\ \A u \in Calls \ {t} : task'[u] = task[u]
  BY <1>1, <1>10, <1>11, GotoSets
<1>13. /\ hotConts' \in [Groups -> {NotCached} \cup Seq(Conts)]
       /\ \A c : get_data(c)' = get_data(c) /\ stored_joins(c)' = stored_joins(c)
       /\ \A j \in Groups : j # g => stored_continuations(j)' = stored_continuations(j)
       /\ \A j \in Groups :
             Range(stored_continuations(j)') \subseteq Range(stored_continuations(j))
  BY <1>2, <1>4, <1>5, <1>6, MatchStore
<1>14. Typed'
  BY <1>1, <1>2, <1>12, <1>13 DEF Typed
<1>15. Interference(t)
  BY <1>2, <1>7, <1>12, <1>13 DEF Interference
<1>16. DataOK' /\ ContsOK'
  BY <1>1, <1>2, <1>13 DEF DataOK, ContsOK
<1>17. CandsOK(t)'
  <2>1. ASSUME t \in Datums, NEW c \in g
        PROVE  g \in stored_joins(c) \cup installed_joins(c)
    <3>1. get_continuations(g) \in Seq(Conts) /\ i \in DOMAIN get_continuations(g)
             /\ get_continuations(g)[i] = k
      BY <2>1, <1>1, <1>3, <1>4, <1>7, ContinuationsListed
    <3>2. k \in Range(get_continuations(g))
      BY <3>1 DEF Range
    <3>3. k \in Waiting /\ Group[k] = g
      BY <3>2, <1>1, ContinuationsListed
    <3>4. QED BY <2>1, <3>3, <1>7, WaitingKnown
  <2>2. ASSUME NEW x \in cands
        PROVE  /\ x.channel \in g
               /\ t \in Datums => g \in stored_joins(x.channel)' \cup installed_joins(x.channel)
               /\ x.index > 0 => /\ x.index \in DOMAIN get_data(x.channel)'
                                 /\ get_data(x.channel)'[x.index] = x.datum
               /\ \A y \in cands : y.channel = x.channel => y = x
    <3>1. PICK c \in g : x = f[c]
      BY <2>2, <1>8
    <3>2. /\ t \in Datums => g \in stored_joins(c)' \cup installed_joins(c)
          /\ x.index > 0 => x.index \in DOMAIN get_data(c)' /\ get_data(c)'[x.index] = x.datum
      BY <3>1, <2>1, <1>9, <1>13
    <3>3. \A y \in cands : y.channel = x.channel => y = x
      BY <3>1, <1>8, <1>9
    <3>4. QED BY <3>1, <3>2, <3>3, <1>9
  <2>3. QED BY <2>2, <1>10, <1>12 DEF CandsOK, installed_joins
<1>18. CallOK(t)'
  <2>1. LocksA(t)'
    BY <1>1, <1>2, <1>10, <1>12 DEF CallOK, LocksA, phase_a_keys
  <2>2. LocksB(t)'
    BY <1>1, <1>2, <1>13 DEF CallOK, LocksB, HasB, installed_joins
  <2>3. LocksGroup(t)'
    BY <1>2, <1>7, <1>10, <1>12 DEF LocksGroup
  <2>4. FillsJoins(t)' /\ SeenOK(t)' /\ TestedOK(t)' /\ Fresh(t)'
    BY <1>10, <1>12 DEF FillsJoins, SeenOK, TestedOK, Fresh
  <2>5. Shape(t)'
    BY <1>1, <1>2, <1>6, <1>10, <1>12 DEF CallOK, Shape
  <2>6. QED
    BY <2>1, <2>2, <2>3, <2>4, <2>5, <1>17 DEF CallOK
<1>19. \A u \in Calls : CallOK(u)'
  BY <1>14, <1>15, <1>16, <1>18, KeepsOthers
<1>20. JoinsOK'
  BY <1>2, <1>12, <1>13, KeepsJoins
<1>21. NoMatchMissed'
  <2>1. Waiting' \subseteq Waiting
    BY <1>13 DEF Waiting
  <2>2. task[t].cands = {}
    BY <1>1, <1>2 DEF CallOK, Shape
  <2>3. QED BY <2>1, <2>2, <1>12, <1>13, KeepsNoMatch
<1>22. QED
  BY <1>14, <1>15, <1>16, <1>19, <1>20, <1>21 DEF IInv

(* A matched datum leaves the store. *)
LEMMA RemoveDatumStore ==
    ASSUME IInv, NEW t \in Calls, task[t].pc = "remove", NEW x \in task[t].cands,
           hotData' = IF x.index > 0 /\ x.datum \notin Persistent
                      THEN [hotData EXCEPT ![x.channel] = remove_at(get_data(x.channel), x.index)]
                      ELSE hotData,
           history' = history
    PROVE  /\ hotData' \in [Channels -> {NotCached} \cup Seq(Datums)]
           /\ \A c \in Channels : c # x.channel => get_data(c)' = get_data(c)
           /\ \A c \in Channels : Range(get_data(c)') \subseteq Range(get_data(c))
           /\ \A c \in Channels : IsInjective(get_data(c)')
           /\ x.index > 0 /\ x.datum \notin Persistent =>
                 \A c \in Channels : Range(get_data(c)') = Range(get_data(c)) \ {x.datum}
           /\ ~(x.index > 0 /\ x.datum \notin Persistent) =>
                 \A c : get_data(c)' = get_data(c)
<1>1. Typed /\ CallOK(t) /\ DataOK
  BY DEF IInv
<1>2. x \in Candidates
  BY <1>1 DEF Typed, Tasks
<1>3. PICK b \in Channels : b = x.channel
  BY <1>2 DEF Candidates
<1>4. CASE ~(x.index > 0 /\ x.datum \notin Persistent)
  <2>1. hotData' = hotData
    BY <1>4
  <2>2. \A c : get_data(c)' = get_data(c)
    BY <2>1 DEF get_data
  <2>3. QED BY <1>1, <1>4, <2>1, <2>2 DEF Typed, DataOK
<1>5. CASE x.index > 0 /\ x.datum \notin Persistent
  <2>1. PICK s \in Seq(Datums) : s = get_data(b)
    BY <1>1, StoreTypes
  <2>2. PICK n \in Int : n = x.index
    BY <1>2 DEF Candidates
  <2>3. n \in DOMAIN s /\ s[n] = x.datum /\ IsInjective(s)
    BY <1>1, <1>3, <1>5, <2>1, <2>2 DEF CallOK, CandsOK, DataOK
  <2>4. /\ remove_at(s, n) \in Seq(Datums)
        /\ Range(remove_at(s, n)) \subseteq Range(s)
        /\ IsInjective(s) =>
              /\ IsInjective(remove_at(s, n))
              /\ n \in DOMAIN s => Range(remove_at(s, n)) = Range(s) \ {s[n]}
    BY RemoveAtDrops
  <2>5. remove_at(s, n) # NotCached
    BY <2>4, CallsAssumption
  <2>6. hotData' = [hotData EXCEPT ![b] = remove_at(s, n)]
    BY <1>3, <1>5, <2>1, <2>2
  <2>7. /\ hotData' \in [Channels -> {NotCached} \cup Seq(Datums)]
        /\ hotData'[b] = remove_at(s, n)
        /\ \A c \in Channels : c # b => hotData'[c] = hotData[c]
    <3>1. hotData \in [Channels -> {NotCached} \cup Seq(Datums)]
      BY <1>1 DEF Typed
    <3>2. PICK q \in Seq(Datums) : q = remove_at(s, n)
      BY <2>4
    <3>3. hotData' = [hotData EXCEPT ![b] = q]
      BY <2>6, <3>2
    <3>4. QED BY ONLY <3>1, <3>2, <3>3, b \in Channels
  <2>8. /\ get_data(b)' = remove_at(s, n)
        /\ \A c \in Channels : c # b => get_data(c)' = get_data(c)
    BY <2>5, <2>7 DEF get_data
  <2>9. ASSUME NEW c \in Channels, c # b PROVE x.datum \notin Range(get_data(c))
    <3>1. x.datum \in Range(s)
      BY <2>3 DEF Range
    <3>2. Channel[x.datum] = b
      BY <3>1, <1>1, <2>1 DEF DataOK
    <3>3. QED BY <3>2, <2>9, <1>1 DEF DataOK
  <2>10. ASSUME NEW c \in Channels
         PROVE  /\ Range(get_data(c)') = Range(get_data(c)) \ {x.datum}
                /\ IsInjective(get_data(c)')
    <3>1. CASE c = b
      BY <3>1, <2>1, <2>3, <2>4, <2>8
    <3>2. CASE c # b
      BY <3>2, <2>8, <2>9, <1>1 DEF DataOK
    <3>3. QED BY <3>1, <3>2
  <2>11. QED BY <1>3, <1>5, <2>7, <2>8, <2>10
<1>6. QED BY <1>4, <1>5

(* Taking a matched datum out of the store. *)
LEMMA RemoveDatumStep ==
    ASSUME IInv, NEW t \in Calls, NEW x \in task[t].cands, RemoveDatum(t, x)
    PROVE  IInv' /\ Interference(t)
<1>1. Typed /\ CallOK(t) /\ task[t] \in Tasks /\ DataOK /\ ContsOK
  BY DEF IInv, Typed
<1>2. PICK rest : rest = task[t].cands \ {x}
  OBVIOUS
<1>3. /\ task[t].pc = "remove"
      /\ hotData' = IF x.index > 0 /\ x.datum \notin Persistent
                    THEN [hotData EXCEPT ![x.channel] = remove_at(get_data(x.channel), x.index)]
                    ELSE hotData
      /\ Goto(t, IF t \in Datums
                 THEN [task[t] EXCEPT !.pc = "removeJoin", !.want = {x.channel}, !.cands = rest]
                 ELSE [task[t] EXCEPT !.pc = IF rest = {} THEN "return" ELSE "remove",
                                      !.cands = rest])
      /\ UNCHANGED <<hotConts, hotJoins, history, lockA, lockB>>
  BY <1>2 DEF RemoveDatum, At
<1>4. PICK b \in Channels : b = x.channel
  BY <1>1 DEF Tasks, Candidates
<1>5. PICK g \in Groups : g = task[t].group
  BY <1>1, <1>3 DEF CallOK, Shape
<1>6. /\ b \in g /\ lockB[b] = t
      /\ \A y \in rest : y.channel # b
  BY <1>1, <1>2, <1>3, <1>4, <1>5 DEF CallOK, CandsOK, LocksGroup
<1>7. rest \subseteq Candidates
  BY <1>1, <1>2 DEF Tasks
<1>8. PICK r \in Tasks :
         /\ Goto(t, r) /\ r.cands = rest /\ r.group = g
         /\ IF t \in Datums THEN r.pc = "removeJoin" /\ r.want = {b}
            ELSE r.pc = IF rest = {} THEN "return" ELSE "remove"
  <2>1. CASE t \in Datums
    <3> DEFINE r == [task[t] EXCEPT !.pc = "removeJoin", !.want = {x.channel}, !.cands = rest]
    <3>1. r \in Tasks /\ r.cands = rest /\ r.group = g /\ r.pc = "removeJoin" /\ r.want = {b}
      BY <1>1, <1>4, <1>5, <1>7 DEF Tasks, Pcs
    <3>2. Goto(t, r)
      BY <2>1, <1>3
    <3> HIDE DEF r
    <3>3. QED BY <2>1, <3>1, <3>2
  <2>2. CASE t \notin Datums
    <3> DEFINE r == [task[t] EXCEPT !.pc = IF rest = {} THEN "return" ELSE "remove", !.cands = rest]
    <3>1. /\ r \in Tasks /\ r.cands = rest /\ r.group = g
          /\ r.pc = IF rest = {} THEN "return" ELSE "remove"
      BY <1>1, <1>5, <1>7 DEF Tasks, Pcs
    <3>2. Goto(t, r)
      BY <2>2, <1>3
    <3> HIDE DEF r
    <3>3. QED BY <2>2, <3>1, <3>2
  <2>3. QED BY <2>1, <2>2
<1>9. /\ task' \in [Calls -> Tasks] /\ task'[t] = r
      /\ \A u \in Calls \ {t} : task'[u] = task[u]
  BY <1>1, <1>8, GotoSets
<1>10. /\ hotData' \in [Channels -> {NotCached} \cup Seq(Datums)]
       /\ \A c \in Channels : c # b => get_data(c)' = get_data(c)
       /\ \A c \in Channels : Range(get_data(c)') \subseteq Range(get_data(c))
       /\ \A c \in Channels : IsInjective(get_data(c)')
       /\ x.index > 0 /\ x.datum \notin Persistent =>
             \A c \in Channels : Range(get_data(c)') = Range(get_data(c)) \ {x.datum}
  BY <1>3, <1>4, RemoveDatumStore
<1>11. /\ \A c : stored_joins(c)' = stored_joins(c)
       /\ \A j : stored_continuations(j)' = stored_continuations(j)
       /\ Waiting' = Waiting
  BY <1>3 DEF stored_joins, stored_continuations, Waiting
<1>12. Typed'
  BY <1>1, <1>3, <1>9, <1>10 DEF Typed
<1>13. DataOK' /\ ContsOK'
  BY <1>1, <1>3, <1>10, <1>11 DEF DataOK, ContsOK
<1>14. Interference(t)
  BY <1>3, <1>6, <1>9, <1>10, <1>11 DEF Interference
<1>15. CandsOK(t)'
  <2>1. ASSUME NEW y \in rest
        PROVE  /\ y.channel \in g
               /\ t \in Datums => /\ g \in stored_joins(y.channel)' \cup installed_joins(y.channel)
                                  /\ y.channel # b
               /\ y.index > 0 => /\ y.index \in DOMAIN get_data(y.channel)'
                                 /\ get_data(y.channel)'[y.index] = y.datum
               /\ \A z \in rest : z.channel = y.channel => z = y
    <3>1. PICK c \in Channels : c = y.channel
      BY <1>7 DEF Candidates
    <3>2. /\ c \in g
          /\ t \in Datums => g \in stored_joins(c) \cup installed_joins(c)
          /\ y.index > 0 => y.index \in DOMAIN get_data(c) /\ get_data(c)[y.index] = y.datum
          /\ \A z \in rest : z.channel = c => z = y
      BY <1>1, <1>2, <1>3, <1>5, <3>1 DEF CallOK, CandsOK
    <3>3. c # b /\ get_data(c)' = get_data(c) /\ stored_joins(c)' = stored_joins(c)
      BY <3>1, <1>6, <1>10, <1>11
    <3>4. QED BY <3>1, <3>2, <3>3
  <2>2. QED BY <2>1, <1>8, <1>9 DEF CandsOK, installed_joins
<1>16. CallOK(t)'
  <2>1. LocksA(t)'
    BY <1>1, <1>3, <1>8, <1>9 DEF CallOK, LocksA, phase_a_keys
  <2>2. LocksB(t)'
    BY <1>1, <1>3, <1>11 DEF CallOK, LocksB, HasB, installed_joins
  <2>3. LocksGroup(t)'
    BY <1>1, <1>3, <1>5, <1>8, <1>9 DEF CallOK, LocksGroup
  <2>4. FillsJoins(t)' /\ SeenOK(t)' /\ TestedOK(t)' /\ Fresh(t)'
    BY <1>8, <1>9 DEF FillsJoins, SeenOK, TestedOK, Fresh
  <2>5. Shape(t)'
    BY <1>1, <1>3, <1>5, <1>6, <1>8, <1>9, Constants DEF CallOK, Shape
  <2>6. QED
    BY <2>1, <2>2, <2>3, <2>4, <2>5, <1>15 DEF CallOK
<1>17. \A u \in Calls : CallOK(u)'
  BY <1>12, <1>13, <1>14, <1>16, KeepsOthers
<1>18. JoinsOK'
  BY <1>3, <1>9, <1>11, KeepsJoins
<1>19. NoMatchMissed'
  <2>1. ASSUME NEW k \in Waiting
        PROVE  \E c \in Group[k] : \A z \in Range(get_data(c)') \cap Accepts[k] :
                  z \in Leaving' \ Persistent
    <3>1. Group[k] \subseteq Channels
      BY <1>1, WaitingMembers, Constants
    <3>2. PICK c \in Group[k] : \A z \in Range(get_data(c)) \cap Accepts[k] :
                  z \in Leaving \ Persistent
      BY DEF IInv, NoMatchMissed
    <3>3. ASSUME NEW z \in Range(get_data(c)') \cap Accepts[k]
          PROVE  z \in Leaving' \ Persistent
      <4>1. z \in Leaving \ Persistent
        BY <3>1, <3>2, <3>3, <1>10
      <4>2. PICK u \in Calls : \E y \in task[u].cands : y.index > 0 /\ y.datum = z
        BY <4>1, LeavingMembers
      <4>3. PICK y \in task[u].cands : y.index > 0 /\ y.datum = z
        BY <4>2
      <4>4. y # x \/ u # t
        BY <4>1, <4>3, <3>1, <3>3, <1>10
      <4>5. y \in task'[u].cands
        BY <4>3, <4>4, <1>2, <1>8, <1>9
      <4>6. QED BY <4>1, <4>3, <4>5, NextLeavingMembers
    <3>4. QED BY <3>3
  <2>2. QED BY <2>1, <1>11 DEF NoMatchMissed
<1>20. QED
  BY <1>12, <1>13, <1>14, <1>17, <1>18, <1>19 DEF IInv

(* A join is removed only when no continuation waits on it. *)
LEMMA RemoveJoinStep ==
    ASSUME IInv, NEW d \in Calls, d \in Datums, RemoveJoin(d)
    PROVE  /\ IInv' /\ Interference(d)
           /\ \A b : get_data(b)' = get_data(b)
           /\ \A j : stored_continuations(j)' = stored_continuations(j)
           /\ \E c \in task[d].group :
                 /\ task[d].want = {c}
                 /\ stored_joins(c)' = stored_joins(c) \
                       (IF get_continuations(task[d].group) = <<>> THEN {task[d].group} ELSE {})
                 /\ \A b \in Channels : b # c => stored_joins(b)' = stored_joins(b)
<1>1. Typed /\ CallOK(d) /\ task[d] \in Tasks /\ DataOK /\ ContsOK /\ JoinsOK
  BY DEF IInv, Typed
<1>2. /\ task[d].pc = "removeJoin"
      /\ \E c \in task[d].want : remove_join(c, task[d].group)
      /\ UNCHANGED <<hotData, hotConts, history, lockA, lockB>>
  BY DEF RemoveJoin, At
<1>3. PICK g \in Groups : g = task[d].group
  BY <1>1, <1>2 DEF CallOK, Shape
<1>4. PICK c \in g : task[d].want = {c}
  BY <1>1, <1>2, <1>3 DEF CallOK, Shape
<1>5. PICK gone : gone = IF get_continuations(g) = <<>> THEN {g} ELSE {}
  OBVIOUS
<1>6. c \in Channels /\ hotJoins' = [hotJoins EXCEPT ![c] = stored_joins(c) \ gone]
  BY <1>2, <1>3, <1>4, <1>5, Constants DEF remove_join
<1> DEFINE r == [task[d] EXCEPT !.pc = IF task[d].cands = {} THEN "return" ELSE "remove",
                                !.want = {}]
<1>7. Goto(d, r)
  BY DEF RemoveJoin
<1>8. /\ r \in Tasks /\ r.cands = task[d].cands /\ r.group = g
      /\ r.pc = IF task[d].cands = {} THEN "return" ELSE "remove"
  BY <1>1, <1>3 DEF Tasks, Pcs
<1> HIDE DEF r
<1>9. /\ task' \in [Calls -> Tasks] /\ task'[d] = r
      /\ \A u \in Calls \ {d} : task'[u] = task[u]
  BY <1>1, <1>7, <1>8, GotoSets
<1>10. /\ hotJoins' \in [Channels -> {NotCached} \cup SUBSET Groups]
       /\ stored_joins(c)' = stored_joins(c) \ gone
       /\ \A b \in Channels : b # c => stored_joins(b)' = stored_joins(b)
  <2>1. PICK joins \in SUBSET Groups : joins = stored_joins(c) \ gone
    BY <1>1, <1>6, StoreTypes
  <2>2. joins # NotCached
    BY CallsAssumption
  <2>3. /\ hotJoins' \in [Channels -> {NotCached} \cup SUBSET Groups]
        /\ hotJoins'[c] = joins
        /\ \A b \in Channels : b # c => hotJoins'[b] = hotJoins[b]
    <3>1. hotJoins \in [Channels -> {NotCached} \cup SUBSET Groups]
      BY <1>1 DEF Typed
    <3>2. hotJoins' = [hotJoins EXCEPT ![c] = joins]
      BY <1>6, <2>1
    <3>3. QED BY <3>1, <3>2, <1>6
  <2>4. history' = history
    BY <1>2
  <2>5. QED BY <2>1, <2>2, <2>3, <2>4 DEF stored_joins
<1>11. /\ \A b : get_data(b)' = get_data(b)
       /\ \A j : stored_continuations(j)' = stored_continuations(j)
       /\ Waiting' = Waiting
  BY <1>2 DEF get_data, stored_continuations, Waiting
<1>12. Typed'
  BY <1>1, <1>2, <1>9, <1>10 DEF Typed
<1>13. DataOK' /\ ContsOK'
  BY <1>1, <1>2, <1>11 DEF DataOK, ContsOK
<1>14. stored_joins(c)' = stored_joins(c) \/ stored_joins(c)' = stored_joins(c) \ {g}
  BY <1>5, <1>10
<1>15. Interference(d)
  BY <1>2, <1>3, <1>9, <1>10, <1>11, <1>14 DEF Interference
<1>16. CallOK(d)'
  <2>1. LocksA(d)'
    BY <1>1, <1>2, <1>8, <1>9 DEF CallOK, LocksA, phase_a_keys
  <2>2. LocksB(d)'
    <3>1. stored_joins(Channel[d])' \subseteq stored_joins(Channel[d])
      BY <1>10, Constants
    <3>2. \A j \in stored_joins(Channel[d]) \cup installed_joins(Channel[d]) :
             \A b \in j : lockB[b] = d
      BY <1>1, <1>2 DEF CallOK, LocksB, HasB
    <3>3. QED BY <3>1, <3>2, <1>2, Constants DEF LocksB, HasB, installed_joins
  <2>3. LocksGroup(d)'
    BY <1>1, <1>2, <1>3, <1>8, <1>9 DEF CallOK, LocksGroup
  <2>4. FillsJoins(d)' /\ SeenOK(d)' /\ TestedOK(d)' /\ Fresh(d)'
    BY <1>8, <1>9 DEF FillsJoins, SeenOK, TestedOK, Fresh
  <2>5. Shape(d)'
    BY <1>1, <1>3, <1>8, <1>9, Constants DEF CallOK, Shape
  <2>6. CandsOK(d)'
    <3>1. ASSUME NEW x \in task[d].cands
          PROVE  /\ x.channel \in g
                 /\ g \in stored_joins(x.channel)' \cup installed_joins(x.channel)
                 /\ x.index > 0 => /\ x.index \in DOMAIN get_data(x.channel)
                                   /\ get_data(x.channel)[x.index] = x.datum
                 /\ \A y \in task[d].cands : y.channel = x.channel => y = x
      <4>1. /\ x.channel \in g /\ x.channel # c
            /\ g \in stored_joins(x.channel) \cup installed_joins(x.channel)
            /\ x.index > 0 => /\ x.index \in DOMAIN get_data(x.channel)
                              /\ get_data(x.channel)[x.index] = x.datum
            /\ \A y \in task[d].cands : y.channel = x.channel => y = x
        BY <1>1, <1>2, <1>3, <1>4 DEF CallOK, CandsOK
      <4>2. PICK b \in Channels : b = x.channel
        BY <4>1, Constants
      <4>3. stored_joins(b)' = stored_joins(b)
        BY <4>1, <4>2, <1>10
      <4>4. QED BY <4>1, <4>2, <4>3
    <3>2. ASSUME NEW x \in task[d].cands
          PROVE  /\ x.index > 0 => /\ x.index \in DOMAIN get_data(x.channel)'
                                   /\ get_data(x.channel)'[x.index] = x.datum
      BY <3>1, <1>11
    <3>3. QED BY <3>1, <3>2, <1>8, <1>9 DEF CandsOK, installed_joins
  <2>7. QED
    BY <2>1, <2>2, <2>3, <2>4, <2>5, <2>6 DEF CallOK
<1>17. \A u \in Calls : CallOK(u)'
  BY <1>12, <1>13, <1>15, <1>16, KeepsOthers
<1>18. JoinsOK'
  <2>1. ASSUME NEW j \in Groups, Range(stored_continuations(j)) # {}, NEW b \in j
        PROVE  j \in stored_joins(b)' \/ \E u \in Calls : Putting(u, j, b)'
    <3>1. CASE \E u \in Calls : Putting(u, j, b)
      <4>1. PICK u \in Calls : Putting(u, j, b)
        BY <3>1
      <4>2. u # d
        BY <4>1, <1>2 DEF Putting
      <4>3. Putting(u, j, b)'
        BY <4>1, <4>2, <1>9 DEF Putting
      <4>4. QED BY <4>3
    <3>2. CASE j \in stored_joins(b)
      <4>1. j \notin gone
        <5>1. PICK k : k \in Range(stored_continuations(j))
          BY <2>1
        <5>2. k \in Waiting /\ Group[k] = j
          BY <5>1, <1>1, WaitingMembers DEF ContsOK
        <5>3. k \in Range(get_continuations(j))
          BY <5>2, <1>1, ContinuationsListed
        <5>4. get_continuations(j) # <<>>
          BY <5>3, <1>1, ContinuationsListed, RangeMembers
        <5>5. QED BY <5>4, <1>5
      <4>2. b \in Channels
        BY Constants
      <4>3. QED BY <4>1, <4>2, <3>2, <1>10
    <3>3. QED BY <3>1, <3>2, <2>1, <1>1 DEF JoinsOK
  <2>2. QED BY <2>1, <1>11 DEF JoinsOK
<1>19. NoMatchMissed'
  BY <1>8, <1>9, <1>11, KeepsNoMatch
<1>20. QED
  BY <1>3, <1>4, <1>5, <1>10, <1>11, <1>12, <1>13, <1>15, <1>17, <1>18, <1>19 DEF IInv

(* Storing a datum: it completes no join, for its produce has tried them all. *)
LEMMA StoreDataStep ==
    ASSUME IInv, NEW d \in Calls, d \in Datums, store_data(d)
    PROVE  /\ IInv' /\ Interference(d)
           /\ Range(get_data(Channel[d])') = Range(get_data(Channel[d])) \cup {d}
           /\ \A b \in Channels : b # Channel[d] => get_data(b)' = get_data(b)
           /\ \A b : stored_joins(b)' = stored_joins(b)
           /\ \A j : stored_continuations(j)' = stored_continuations(j)
<1>1. Typed /\ CallOK(d) /\ task[d] \in Tasks /\ DataOK /\ ContsOK
  BY DEF IInv, Typed
<1>2. PICK c \in Channels : c = Channel[d]
  BY Constants
<1>3. PICK s \in Seq(Datums) : s = get_data(c)
  BY <1>1, StoreTypes
<1> DEFINE r == [task[d] EXCEPT !.pc = "return"]
<1>4. /\ task[d].pc = "store" /\ hotData' = [hotData EXCEPT ![c] = <<d>> \o s]
      /\ Goto(d, r)
      /\ UNCHANGED <<hotConts, hotJoins, history, lockA, lockB>>
  BY <1>2, <1>3 DEF store_data, At
<1>5. r \in Tasks /\ r.cands = task[d].cands /\ r.pc = "return"
  BY <1>1 DEF Tasks, Pcs
<1> HIDE DEF r
<1>6. /\ task' \in [Calls -> Tasks] /\ task'[d] = r
      /\ \A u \in Calls \ {d} : task'[u] = task[u]
  BY <1>1, <1>4, <1>5, GotoSets
<1>7. d \notin Range(s)
  BY <1>1, <1>2, <1>3, <1>4 DEF CallOK, Fresh
<1>8. PICK q \in Seq(Datums) : /\ q = <<d>> \o s /\ Range(q) = Range(s) \cup {d}
                              /\ IsInjective(q) /\ q # NotCached
  <2>1. IsInjective(s)
    BY <1>1, <1>3 DEF DataOK
  <2>2. /\ <<d>> \o s \in Seq(Datums)
        /\ Range(<<d>> \o s) = Range(s) \cup {d}
        /\ IsInjective(s) /\ d \notin Range(s) => IsInjective(<<d>> \o s)
    BY ConsLists
  <2>3. <<d>> \o s # NotCached
    BY <2>2, CallsAssumption
  <2>4. QED BY <2>1, <2>2, <2>3, <1>7
<1>9. /\ hotData' \in [Channels -> {NotCached} \cup Seq(Datums)]
      /\ get_data(c)' = q
      /\ \A b \in Channels : b # c => get_data(b)' = get_data(b)
  <2>1. /\ hotData' \in [Channels -> {NotCached} \cup Seq(Datums)]
        /\ hotData'[c] = q
        /\ \A b \in Channels : b # c => hotData'[b] = hotData[b]
    <3>1. hotData \in [Channels -> {NotCached} \cup Seq(Datums)]
      BY <1>1 DEF Typed
    <3>2. hotData' = [hotData EXCEPT ![c] = q]
      BY <1>4, <1>8
    <3>3. QED BY ONLY <3>1, <3>2, c \in Channels, q \in Seq(Datums)
  <2>2. history' = history
    BY <1>4
  <2>3. QED BY <2>1, <2>2, <1>8 DEF get_data
<1>10. /\ \A b : stored_joins(b)' = stored_joins(b)
       /\ \A j : stored_continuations(j)' = stored_continuations(j)
       /\ Waiting' = Waiting
  BY <1>4 DEF stored_joins, stored_continuations, Waiting
<1>11. Typed'
  BY <1>1, <1>4, <1>6, <1>9 DEF Typed
<1>12. Range(get_data(c)') = Range(get_data(c)) \cup {d}
  BY <1>3, <1>8, <1>9
<1>13. DataOK' /\ ContsOK'
  <2>1. ASSUME NEW b \in Channels
        PROVE  /\ IsInjective(get_data(b)') /\ IsInjective(history.data[b])
               /\ \A x \in Range(get_data(b)') \cup Range(history.data[b]) : Channel[x] = b
    <3>1. CASE b = c
      <4>1. IsInjective(get_data(b)')
        BY <3>1, <1>8, <1>9
      <4>2. QED BY <3>1, <4>1, <1>1, <1>2, <1>12 DEF DataOK
    <3>2. CASE b # c
      BY <3>2, <1>1, <1>9 DEF DataOK
    <3>3. QED BY <3>1, <3>2
  <2>2. history' = history
    BY <1>4
  <2>3. DataOK'
    BY <2>1, <2>2 DEF DataOK
  <2>4. ContsOK'
    BY <2>2, <1>1, <1>10 DEF ContsOK
  <2>5. QED BY <2>3, <2>4
<1>14. Interference(d)
  BY <1>2, <1>4, <1>6, <1>9, <1>10, <1>12 DEF Interference
<1>15. CallOK(d)'
  <2>1. LocksA(d)'
    BY <1>1, <1>4, <1>5, <1>6 DEF CallOK, LocksA, phase_a_keys
  <2>2. LocksB(d)'
    BY <1>1, <1>4, <1>10 DEF CallOK, LocksB, HasB, installed_joins
  <2>3. /\ LocksGroup(d)' /\ FillsJoins(d)' /\ SeenOK(d)' /\ TestedOK(d)' /\ CandsOK(d)'
        /\ Fresh(d)'
    BY <1>5, <1>6 DEF LocksGroup, FillsJoins, SeenOK, TestedOK, CandsOK, Fresh
  <2>4. Shape(d)'
    BY <1>1, <1>4, <1>5, <1>6 DEF CallOK, Shape
  <2>5. QED
    BY <2>1, <2>2, <2>3, <2>4 DEF CallOK
<1>16. \A u \in Calls : CallOK(u)'
  BY <1>11, <1>13, <1>14, <1>15, KeepsOthers
<1>17. JoinsOK'
  BY <1>4, <1>6, <1>10, KeepsJoins
<1>18. NoMatchMissed'
  <2>1. Leaving \subseteq Leaving'
    BY <1>5, <1>6, LeavingMembers, NextLeavingMembers
  <2>2. ASSUME NEW k \in Waiting
        PROVE  \E b \in Group[k] : \A x \in Range(get_data(b)') \cap Accepts[k] :
                  x \in Leaving' \ Persistent
    <3>1. Group[k] \subseteq Channels
      BY <1>1, WaitingMembers, Constants
    <3>2. CASE c \in Group[k]
      <4>1. task[d].todo = {}
        BY <1>1, <1>4 DEF CallOK, Shape
      <4>2. PICK b \in Group[k] : Starved(d, k, b)
        BY <4>1, <3>2, <1>1, <1>2, <1>4 DEF CallOK, TestedOK
      <4>3. Range(get_data(b)') \cap Accepts[k] = {}
        BY <4>2, <3>1, <1>2, <1>9, <1>12 DEF Starved
      <4>4. QED BY <4>3
    <3>3. CASE c \notin Group[k]
      <4>1. PICK b \in Group[k] : \A x \in Range(get_data(b)) \cap Accepts[k] :
                  x \in Leaving \ Persistent
        BY DEF IInv, NoMatchMissed
      <4>2. get_data(b)' = get_data(b)
        BY <3>1, <3>3, <1>9
      <4>3. QED BY <4>1, <4>2, <2>1
    <3>4. QED BY <3>2, <3>3
  <2>3. QED BY <2>2, <1>10 DEF NoMatchMissed
<1>19. QED
  BY <1>2, <1>9, <1>10, <1>11, <1>12, <1>13, <1>14, <1>16, <1>17, <1>18 DEF IInv

(* Storing a continuation: its own join had no match, and no other             *)
(* continuation is affected.                                                   *)
LEMMA PutContinuationStep ==
    ASSUME IInv, NEW k \in Calls, k \in Conts, put_continuation(k)
    PROVE  /\ IInv' /\ Interference(k)
           /\ \A b : get_data(b)' = get_data(b) /\ stored_joins(b)' = stored_joins(b)
           /\ stored_continuations(Group[k])' = <<k>> \o stored_continuations(Group[k])
           /\ \A j \in Groups : j # Group[k] =>
                 stored_continuations(j)' = stored_continuations(j)
<1>1. Typed /\ CallOK(k) /\ task[k] \in Tasks /\ DataOK /\ ContsOK /\ JoinsOK
  BY DEF IInv, Typed
<1>2. PICK g \in Groups : g = Group[k]
  BY Constants
<1>3. PICK s \in Seq(Conts) : s = stored_continuations(g)
  BY <1>1, StoreTypes
<1> DEFINE r == [task[k] EXCEPT !.pc = "putJoin", !.want = g]
<1>4. /\ task[k].pc = "store" /\ hotConts' = [hotConts EXCEPT ![g] = <<k>> \o s]
      /\ Goto(k, r)
      /\ UNCHANGED <<hotData, hotJoins, history, lockA, lockB>>
  BY <1>2, <1>3 DEF put_continuation, At
<1>5. r \in Tasks /\ r.cands = task[k].cands /\ r.pc = "putJoin" /\ r.want = g
  BY <1>1, Constants DEF Tasks, Pcs
<1> HIDE DEF r
<1>6. /\ task' \in [Calls -> Tasks] /\ task'[k] = r
      /\ \A u \in Calls \ {k} : task'[u] = task[u]
  BY <1>1, <1>4, <1>5, GotoSets
<1>7. PICK q \in Seq(Conts) : /\ q = <<k>> \o s /\ Range(q) = Range(s) \cup {k}
                             /\ q # NotCached
  <2>1. /\ <<k>> \o s \in Seq(Conts)
        /\ Range(<<k>> \o s) = Range(s) \cup {k}
    BY ConsLists
  <2>2. <<k>> \o s # NotCached
    BY <2>1, CallsAssumption
  <2>3. QED BY <2>1, <2>2
<1>8. /\ hotConts' \in [Groups -> {NotCached} \cup Seq(Conts)]
      /\ stored_continuations(g)' = q
      /\ \A j \in Groups : j # g => stored_continuations(j)' = stored_continuations(j)
  <2>1. /\ hotConts' \in [Groups -> {NotCached} \cup Seq(Conts)]
        /\ hotConts'[g] = q
        /\ \A j \in Groups : j # g => hotConts'[j] = hotConts[j]
    <3>1. hotConts \in [Groups -> {NotCached} \cup Seq(Conts)]
      BY <1>1 DEF Typed
    <3>2. hotConts' = [hotConts EXCEPT ![g] = q]
      BY <1>4, <1>7
    <3>3. QED BY ONLY <3>1, <3>2, g \in Groups, q \in Seq(Conts)
  <2>2. history' = history
    BY <1>4
  <2>3. QED BY <2>1, <2>2, <1>7 DEF stored_continuations
<1>9. /\ \A b : get_data(b)' = get_data(b)
      /\ \A b : stored_joins(b)' = stored_joins(b)
  BY <1>4 DEF stored_joins, get_data
<1>10. Typed'
  BY <1>1, <1>4, <1>6, <1>8 DEF Typed
<1>11. DataOK' /\ ContsOK'
  <2>1. history' = history
    BY <1>4
  <2>2. DataOK'
    BY <2>1, <1>1, <1>9 DEF DataOK
  <2>3. ASSUME NEW j \in Groups
        PROVE  \A m \in Range(stored_continuations(j)') \cup Range(history.conts[j]) :
                  Group[m] = j
    <3>1. CASE j = g
      BY <3>1, <1>1, <1>2, <1>3, <1>7, <1>8 DEF ContsOK
    <3>2. CASE j # g
      BY <3>2, <1>1, <1>8 DEF ContsOK
    <3>3. QED BY <3>1, <3>2
  <2>4. ContsOK'
    BY <2>1, <2>3 DEF ContsOK
  <2>5. QED BY <2>2, <2>4
<1>12. \A c \in g : lockA[c] = k /\ lockB[c] = k
  <2>1. \A c \in g : lockA[c] = k
    BY <1>1, <1>2, <1>4, Constants DEF CallOK, LocksA
  <2>2. \A c \in g : lockB[c] = k
    BY <1>1, <1>2, <1>4 DEF CallOK, LocksB, HasB
  <2>3. QED BY <2>1, <2>2
<1>13. Interference(k)
  BY <1>4, <1>6, <1>8, <1>9, <1>12 DEF Interference
<1>14. CallOK(k)'
  <2>1. LocksA(k)'
    BY <1>2, <1>4, <1>12, Constants DEF LocksA, phase_a_keys
  <2>2. LocksB(k)'
    BY <1>2, <1>4, <1>12, Constants DEF LocksB, HasB
  <2>3. /\ LocksGroup(k)' /\ FillsJoins(k)' /\ SeenOK(k)' /\ TestedOK(k)' /\ CandsOK(k)'
    BY <1>5, <1>6, Constants DEF LocksGroup, FillsJoins, SeenOK, TestedOK, CandsOK
  <2>4. Fresh(k)'
    BY Constants DEF Fresh
  <2>5. Shape(k)'
    BY <1>1, <1>4, <1>5, <1>6 DEF CallOK, Shape
  <2>6. QED
    BY <2>1, <2>2, <2>3, <2>4, <2>5 DEF CallOK
<1>15. \A u \in Calls : CallOK(u)'
  BY <1>10, <1>11, <1>13, <1>14, KeepsOthers
<1>16. JoinsOK'
  <2>1. ASSUME NEW j \in Groups, Range(stored_continuations(j)') # {}, NEW c \in j
        PROVE  j \in stored_joins(c) \/ \E u \in Calls : Putting(u, j, c)'
    <3>1. CASE j = g
      <4>1. Putting(k, j, c)'
        BY <3>1, <1>2, <1>5, <1>6 DEF Putting
      <4>2. QED BY <4>1
    <3>2. CASE j # g
      <4>1. Range(stored_continuations(j)) # {}
        BY <2>1, <3>2, <1>8
      <4>2. CASE j \in stored_joins(c)
        BY <4>2
      <4>3. CASE \E u \in Calls : Putting(u, j, c)
        <5>1. PICK u \in Calls : Putting(u, j, c)
          BY <4>3
        <5>2. u # k
          BY <5>1, <1>2, <3>2 DEF Putting
        <5>3. Putting(u, j, c)'
          BY <5>1, <5>2, <1>6 DEF Putting
        <5>4. QED BY <5>3
      <4>4. QED BY <4>1, <4>2, <4>3, <1>1 DEF JoinsOK
    <3>3. QED BY <3>1, <3>2
  <2>2. QED BY <2>1, <1>9 DEF JoinsOK
<1>17. NoMatchMissed'
  <2>1. Leaving' = Leaving
    BY <1>5, <1>6, LeavingMembers, NextLeavingMembers
  <2>2. ASSUME NEW m \in Waiting'
        PROVE  \E b \in Group[m] : \A x \in Range(get_data(b)) \cap Accepts[m] :
                  x \in Leaving \ Persistent
    <3>1. CASE m = k
      <4>1. PICK b \in Group[k] : Starved(k, k, b)
        BY <1>1, <1>4 DEF CallOK, TestedOK
      <4>2. Range(get_data(b)) \cap Accepts[k] = {}
        BY <4>1 DEF Starved
      <4>3. QED BY <3>1, <4>2
    <3>2. CASE m # k
      <4>1. m \in Waiting
        <5>1. \A j \in Groups : m \in Range(stored_continuations(j)') =>
                  m \in Range(stored_continuations(j))
          BY <3>2, <1>3, <1>7, <1>8
        <5>2. QED BY <5>1, <1>1, <1>10, <1>11, WaitingMembers, NextWaitingMembers
      <4>2. QED BY <4>1 DEF IInv, NoMatchMissed
    <3>3. QED BY <3>1, <3>2
  <2>3. QED BY <2>1, <2>2, <1>9 DEF NoMatchMissed
<1>18. QED
  BY <1>2, <1>3, <1>7, <1>8, <1>9, <1>10, <1>11, <1>13, <1>15, <1>16, <1>17 DEF IInv

(* A join is put on a channel of its continuation. *)
LEMMA PutJoinStep ==
    ASSUME IInv, NEW k \in Calls, k \in Conts, NEW c \in Group[k], PutJoin(k, c)
    PROVE  /\ IInv' /\ Interference(k)
           /\ \A b : get_data(b)' = get_data(b)
           /\ \A j : stored_continuations(j)' = stored_continuations(j)
           /\ stored_joins(c)' = stored_joins(c) \cup {Group[k]}
           /\ \A b \in Channels : b # c => stored_joins(b)' = stored_joins(b)
<1>1. Typed /\ CallOK(k) /\ task[k] \in Tasks /\ DataOK /\ ContsOK /\ JoinsOK
  BY DEF IInv, Typed
<1>2. PICK g \in Groups : g = Group[k]
  BY Constants
<1>3. c \in Channels
  BY Constants
<1>4. PICK joins \in SUBSET Groups : joins = stored_joins(c) \cup {g}
  BY <1>1, <1>3, StoreTypes
<1>5. PICK rest \in SUBSET Channels : rest = task[k].want \ {c}
  BY <1>1 DEF Tasks
<1> DEFINE r == [task[k] EXCEPT !.pc = IF rest = {} THEN "return" ELSE "putJoin", !.want = rest]
<1>6. /\ task[k].pc = "putJoin" /\ c \in task[k].want
      /\ hotJoins' = [hotJoins EXCEPT ![c] = joins]
      /\ Goto(k, r)
      /\ UNCHANGED <<hotData, hotConts, history, lockA, lockB>>
  BY <1>2, <1>4, <1>5 DEF PutJoin, At, put_join
<1>7. /\ r \in Tasks /\ r.cands = task[k].cands /\ r.want = rest
      /\ r.pc = IF rest = {} THEN "return" ELSE "putJoin"
  BY <1>1 DEF Tasks, Pcs
<1> HIDE DEF r
<1>8. /\ task' \in [Calls -> Tasks] /\ task'[k] = r
      /\ \A u \in Calls \ {k} : task'[u] = task[u]
  BY <1>1, <1>6, <1>7, GotoSets
<1>9. /\ hotJoins' \in [Channels -> {NotCached} \cup SUBSET Groups]
      /\ stored_joins(c)' = joins
      /\ \A b \in Channels : b # c => stored_joins(b)' = stored_joins(b)
  <2>1. joins # NotCached
    BY CallsAssumption
  <2>2. /\ hotJoins' \in [Channels -> {NotCached} \cup SUBSET Groups]
        /\ hotJoins'[c] = joins
        /\ \A b \in Channels : b # c => hotJoins'[b] = hotJoins[b]
    <3>1. hotJoins \in [Channels -> {NotCached} \cup SUBSET Groups]
      BY <1>1 DEF Typed
    <3>2. QED BY <3>1, <1>6, <1>3
  <2>3. history' = history
    BY <1>6
  <2>4. QED BY <2>1, <2>2, <2>3 DEF stored_joins
<1>10. /\ \A b : get_data(b)' = get_data(b)
       /\ \A j : stored_continuations(j)' = stored_continuations(j)
       /\ Waiting' = Waiting
  BY <1>6 DEF get_data, stored_continuations, Waiting
<1>11. Typed'
  BY <1>1, <1>6, <1>8, <1>9 DEF Typed
<1>12. DataOK' /\ ContsOK'
  BY <1>1, <1>6, <1>10 DEF DataOK, ContsOK
<1>13. \A b \in g : lockA[b] = k /\ lockB[b] = k
  <2>1. \A b \in g : lockA[b] = k
    BY <1>1, <1>2, <1>6, Constants DEF CallOK, LocksA
  <2>2. \A b \in g : lockB[b] = k
    BY <1>1, <1>2, <1>6 DEF CallOK, LocksB, HasB
  <2>3. QED BY <2>1, <2>2
<1>14. Interference(k)
  BY <1>2, <1>4, <1>6, <1>8, <1>9, <1>10, <1>13 DEF Interference
<1>15. CallOK(k)'
  <2>1. LocksA(k)'
    BY <1>2, <1>6, <1>13, Constants DEF LocksA, phase_a_keys
  <2>2. LocksB(k)'
    BY <1>2, <1>6, <1>13, Constants DEF LocksB, HasB
  <2>3. /\ LocksGroup(k)' /\ FillsJoins(k)' /\ SeenOK(k)' /\ TestedOK(k)' /\ CandsOK(k)'
    BY <1>7, <1>8, Constants DEF LocksGroup, FillsJoins, SeenOK, TestedOK, CandsOK
  <2>4. Fresh(k)'
    BY Constants DEF Fresh
  <2>5. Shape(k)'
    BY <1>1, <1>6, <1>7, <1>8 DEF CallOK, Shape
  <2>6. QED
    BY <2>1, <2>2, <2>3, <2>4, <2>5 DEF CallOK
<1>16. \A u \in Calls : CallOK(u)'
  BY <1>11, <1>12, <1>14, <1>15, KeepsOthers
<1>17. JoinsOK'
  <2>1. ASSUME NEW j \in Groups, Range(stored_continuations(j)) # {}, NEW b \in j
        PROVE  j \in stored_joins(b)' \/ \E u \in Calls : Putting(u, j, b)'
    <3>1. b \in Channels
      BY Constants
    <3>2. CASE j \in stored_joins(b)
      BY <3>1, <3>2, <1>4, <1>9
    <3>3. CASE \E u \in Calls : Putting(u, j, b)
      <4>1. PICK u \in Calls : Putting(u, j, b)
        BY <3>3
      <4>2. CASE u # k
        <5>1. Putting(u, j, b)'
          BY <4>1, <4>2, <1>8 DEF Putting
        <5>2. QED BY <5>1
      <4>3. CASE u = k /\ b = c
        BY <4>1, <4>3, <1>2, <1>4, <1>9 DEF Putting
      <4>4. CASE u = k /\ b # c
        <5>1. b \in rest /\ Group[k] = j
          BY <4>1, <4>4, <1>5 DEF Putting
        <5>2. Putting(k, j, b)'
          BY <5>1, <1>7, <1>8 DEF Putting
        <5>3. QED BY <5>2
      <4>5. QED BY <4>2, <4>3, <4>4
    <3>4. QED BY <3>2, <3>3, <2>1, <1>1 DEF JoinsOK
  <2>2. QED BY <2>1, <1>10 DEF JoinsOK
<1>18. NoMatchMissed'
  BY <1>7, <1>8, <1>10, KeepsNoMatch
<1>19. QED
  BY <1>2, <1>4, <1>9, <1>10, <1>11, <1>12, <1>14, <1>16, <1>17, <1>18 DEF IInv

(* A checkpoint writes what the store holds into the history. *)
LEMMA CheckpointStore ==
    ASSUME Typed, create_checkpoint
    PROVE  /\ Typed'
           /\ \A c \in Channels : get_data(c)' = get_data(c) /\ history'.data[c] = get_data(c)
           /\ \A c \in Channels : stored_joins(c)' = stored_joins(c)
                                     /\ history'.joins[c] = stored_joins(c)
           /\ \A g \in Groups : stored_continuations(g)' = stored_continuations(g)
                                   /\ history'.conts[g] = stored_continuations(g)
           /\ Waiting' = Waiting
<1>1. /\ hotData' = [c \in Channels |-> NotCached]
      /\ hotConts' = [g \in Groups |-> NotCached]
      /\ hotJoins' = [c \in Channels |-> NotCached]
      /\ history' = [data |-> [c \in Channels |-> get_data(c)],
                     conts |-> [g \in Groups |-> stored_continuations(g)],
                     joins |-> [c \in Channels |-> stored_joins(c)]]
      /\ UNCHANGED <<lockA, lockB, task>>
  BY DEF create_checkpoint
<1>2. Typed'
  <2>1. history' \in [data : [Channels -> Seq(Datums)], conts : [Groups -> Seq(Conts)],
                      joins : [Channels -> SUBSET Groups]]
    BY <1>1, StoreTypes
  <2>2. QED BY <1>1, <2>1 DEF Typed
<1>3. \A c \in Channels : get_data(c)' = get_data(c) /\ history'.data[c] = get_data(c)
  BY <1>1 DEF get_data
<1>4. \A c \in Channels : stored_joins(c)' = stored_joins(c) /\ history'.joins[c] = stored_joins(c)
  BY <1>1 DEF stored_joins
<1>5. \A g \in Groups : /\ stored_continuations(g)' = stored_continuations(g)
                        /\ history'.conts[g] = stored_continuations(g)
  BY <1>1 DEF stored_continuations
<1>6. Waiting' = Waiting
  BY <1>5 DEF Waiting
<1>7. QED BY <1>2, <1>3, <1>4, <1>5, <1>6

(* Between calls nobody relies on the cache. *)
LEMMA CheckpointStep ==
    ASSUME IInv, create_checkpoint
    PROVE  IInv'
<1>1. Typed /\ DataOK /\ ContsOK /\ JoinsOK /\ NoMatchMissed
  BY DEF IInv
<1>2. /\ Typed'
      /\ \A c \in Channels : get_data(c)' = get_data(c) /\ history'.data[c] = get_data(c)
      /\ \A c \in Channels : stored_joins(c)' = stored_joins(c)
      /\ \A g \in Groups : stored_continuations(g)' = stored_continuations(g)
                              /\ history'.conts[g] = stored_continuations(g)
      /\ Waiting' = Waiting
  BY <1>1, CheckpointStore
<1>3. /\ \A u \in Calls : task[u].pc \in {"idle", "done"}
      /\ lockA' = lockA /\ lockB' = lockB /\ task' = task
  BY DEF create_checkpoint, Quiescent
<1>4. DataOK' /\ ContsOK'
  BY <1>1, <1>2 DEF DataOK, ContsOK
<1>5. ASSUME NEW u \in Calls PROVE CallOK(u)'
  <2>1. CallOK(u) /\ task[u].pc \in {"idle", "done"}
    BY <1>3 DEF IInv
  <2>2. LocksA(u)' /\ LocksB(u)' /\ LocksGroup(u)' /\ FillsJoins(u)' /\ SeenOK(u)'
    BY <1>3, <2>1 DEF LocksA, LocksB, LocksGroup, FillsJoins, SeenOK
  <2>3. TestedOK(u)' /\ CandsOK(u)'
    BY <1>3, <2>1 DEF TestedOK, CandsOK
  <2>4. Shape(u)'
    BY <1>3, <2>1 DEF Shape, CallOK
  <2>5. Fresh(u)'
    BY <1>2, <1>3, <2>1, Constants DEF Fresh, CallOK
  <2>6. QED BY <2>2, <2>3, <2>4, <2>5 DEF CallOK
<1>6. JoinsOK'
  BY <1>1, <1>2, <1>3, Constants DEF JoinsOK, Putting
<1>7. NoMatchMissed'
  <2>1. Leaving' = Leaving
    BY <1>3 DEF Leaving
  <2>2. \A k \in Waiting : Group[k] \subseteq Channels
    BY <1>1, WaitingMembers, Constants
  <2>3. ASSUME NEW k \in Waiting
        PROVE  \E c \in Group[k] : \A x \in Range(get_data(c)') \cap Accepts[k] :
                  x \in Leaving \ Persistent
    <3>1. PICK c \in Group[k] : \A x \in Range(get_data(c)) \cap Accepts[k] :
                x \in Leaving \ Persistent
      BY <1>1 DEF NoMatchMissed
    <3>2. QED BY <3>1, <2>2, <1>2
  <2>4. QED BY <2>1, <2>3, <1>2 DEF NoMatchMissed
<1>8. QED
  BY <1>2, <1>4, <1>5, <1>6, <1>7 DEF IInv

-----------------------------------------------------------------------------
(* The invariant. *)

(* What the store holds before the first call. *)
LEMMA InitialStore ==
    ASSUME Init
    PROVE  /\ \A c \in Channels :
                 /\ get_data(c) = history.data[c]
                 /\ history.data[c] \in Seq(Datums) /\ IsInjective(history.data[c])
                 /\ Range(history.data[c]) = {d \in Datums \cap InHistory : Channel[d] = c}
           /\ \A g \in Groups :
                 /\ stored_continuations(g) = history.conts[g]
                 /\ history.conts[g] \in Seq(Conts) /\ IsInjective(history.conts[g])
                 /\ Range(history.conts[g]) = {k \in Conts \cap InHistory : Group[k] = g}
           /\ \A c \in Channels :
                 /\ stored_joins(c) = history.joins[c]
                 /\ \A g : g \in history.joins[c] <=>
                       c \in g /\ \E k \in Conts \cap InHistory : Group[k] = g
<1>1. \A c \in Channels : /\ hotData[c] = NotCached /\ hotJoins[c] = NotCached
                          /\ history.data[c] = InHistoryOn(c)
  BY DEF Init
<1>2. \A g \in Groups : /\ hotConts[g] = NotCached
                        /\ history.conts[g] = SetToSeq({k \in Conts \cap InHistory : Group[k] = g})
  BY DEF Init
<1>3. \A c \in Channels : history.joins[c] =
         {Group[k] : k \in {j \in Conts \cap InHistory : c \in Group[j]}}
  BY DEF Init
<1>4. ASSUME NEW c \in Channels
      PROVE  /\ get_data(c) = history.data[c]
             /\ history.data[c] \in Seq(Datums) /\ IsInjective(history.data[c])
             /\ Range(history.data[c]) = {d \in Datums \cap InHistory : Channel[d] = c}
  <2> DEFINE S == {d \in Datums \cap InHistory : Channel[d] = c}
  <2>1. S \subseteq Datums /\ IsFiniteSet(S)
    BY CallsAssumption, FS_Subset
  <2>2. history.data[c] = SetToSeq(S)
    BY <1>1 DEF InHistoryOn
  <2> HIDE DEF S
  <2>3. /\ SetToSeq(S) \in Seq(S) /\ IsInjective(SetToSeq(S)) /\ Range(SetToSeq(S)) = S
    BY <2>1, SetToSeqLists
  <2>4. SetToSeq(S) \in Seq(Datums)
    BY <2>1, <2>3, SeqMonotonic
  <2>5. get_data(c) = history.data[c]
    BY <1>1 DEF get_data
  <2>6. QED BY <2>2, <2>3, <2>4, <2>5 DEF S
<1>5. ASSUME NEW g \in Groups
      PROVE  /\ stored_continuations(g) = history.conts[g]
             /\ history.conts[g] \in Seq(Conts) /\ IsInjective(history.conts[g])
             /\ Range(history.conts[g]) = {k \in Conts \cap InHistory : Group[k] = g}
  <2> DEFINE S == {k \in Conts \cap InHistory : Group[k] = g}
  <2>1. S \subseteq Conts /\ IsFiniteSet(S)
    BY CallsAssumption, FS_Subset
  <2>2. history.conts[g] = SetToSeq(S)
    BY <1>2
  <2> HIDE DEF S
  <2>3. /\ SetToSeq(S) \in Seq(S) /\ IsInjective(SetToSeq(S)) /\ Range(SetToSeq(S)) = S
    BY <2>1, SetToSeqLists
  <2>4. SetToSeq(S) \in Seq(Conts)
    BY <2>1, <2>3, SeqMonotonic
  <2>5. stored_continuations(g) = history.conts[g]
    BY <1>2 DEF stored_continuations
  <2>6. QED BY <2>2, <2>3, <2>4, <2>5 DEF S
<1>6. \A c \in Channels : stored_joins(c) = history.joins[c]
  BY <1>1 DEF stored_joins
<1>7. ASSUME NEW c \in Channels, NEW g
      PROVE  g \in history.joins[c] <=> c \in g /\ \E k \in Conts \cap InHistory : Group[k] = g
  BY <1>3
<1>8. QED BY <1>4, <1>5, <1>6, <1>7

(* The initial state satisfies the invariant: the history holds no match. *)
LEMMA InitIInv ==
    ASSUME Init
    PROVE  IInv
<1>1. /\ lockA = [c \in Channels |-> Free] /\ lockB = [c \in Channels |-> Free]
      /\ task = [t \in Calls |-> Idle]
      /\ hotData = [c \in Channels |-> NotCached]
      /\ hotConts = [g \in Groups |-> NotCached]
      /\ hotJoins = [c \in Channels |-> NotCached]
  BY DEF Init
<1>2. Idle \in Tasks /\ Idle.pc = "idle" /\ Idle.cands = {}
  BY DEF Idle, Tasks, Pcs
<1>3. \A u \in Calls : task[u].pc = "idle" /\ task[u].cands = {}
  BY <1>1, <1>2
<1>4. \A c \in Channels : history.joins[c] \subseteq Groups
  BY InitialStore, Constants
<1>5. Typed
  <2>1. history \in [data : [Channels -> Seq(Datums)], conts : [Groups -> Seq(Conts)],
                     joins : [Channels -> SUBSET Groups]]
    <3>1. /\ \A c \in Channels : /\ history.data[c] \in Seq(Datums)
                                 /\ history.joins[c] \in SUBSET Groups
          /\ \A g \in Groups : history.conts[g] \in Seq(Conts)
      BY <1>4, InitialStore
    <3>2. PICK D, K, J :
             history = [data |-> [c \in Channels |-> D[c]], conts |-> [g \in Groups |-> K[g]],
                        joins |-> [c \in Channels |-> J[c]]]
      <4>1. history = [data |-> [c \in Channels |-> history.data[c]],
                       conts |-> [g \in Groups |-> history.conts[g]],
                       joins |-> [c \in Channels |-> history.joins[c]]]
        BY DEF Init
      <4>2. QED BY <4>1
    <3>3. QED BY <3>1, <3>2
  <2>2. QED BY <1>1, <1>2, <2>1 DEF Typed
<1>6. DataOK /\ ContsOK
  BY InitialStore DEF DataOK, ContsOK
<1>7. ASSUME NEW u \in Calls PROVE CallOK(u)
  <2>1. LocksA(u) /\ LocksB(u) /\ LocksGroup(u) /\ FillsJoins(u) /\ SeenOK(u)
    BY <1>3 DEF LocksA, LocksB, LocksGroup, FillsJoins, SeenOK
  <2>2. TestedOK(u) /\ CandsOK(u) /\ Shape(u)
    BY <1>3 DEF TestedOK, CandsOK, Shape
  <2>3. Fresh(u)
    <3>1. u \notin InHistory
      BY DEF Calls
    <3>2. QED BY <3>1, InitialStore, Constants DEF Fresh
  <2>4. QED BY <2>1, <2>2, <2>3 DEF CallOK
<1>8. JoinsOK
  <2>1. ASSUME NEW g \in Groups, Range(stored_continuations(g)) # {}, NEW c \in g
        PROVE  g \in stored_joins(c)
    <3>1. PICK k : k \in Conts \cap InHistory /\ Group[k] = g
      BY <2>1, InitialStore
    <3>2. QED BY <3>1, InitialStore, Constants
  <2>2. QED BY <2>1 DEF JoinsOK
<1>9. NoMatchMissed
  <2>1. ASSUME NEW k \in Waiting
        PROVE  \E c \in Group[k] : Range(get_data(c)) \cap Accepts[k] = {}
    <3>1. k \in Conts \cap (InHistory \cup Installed)
      <4>1. k \in Installed \/ \E g \in Groups : k \in Range(stored_continuations(g))
        BY <1>5, <1>6, WaitingMembers
      <4>2. QED BY <4>1, InitialStore, Constants
    <3>2. PICK c \in Group[k] :
             \A d \in Datums \cap InHistory : Channel[d] = c => d \notin Accepts[k]
      BY <3>1, CallsAssumption
    <3>3. c \in Channels
      BY <3>1, Constants
    <3>4. QED BY <3>2, <3>3, InitialStore
  <2>2. QED BY <2>1 DEF NoMatchMissed
<1>10. QED
  BY <1>5, <1>6, <1>7, <1>8, <1>9 DEF IInv

(* Every step of every call, and every checkpoint, keeps the invariant. *)
LEMMA NextIInv ==
    ASSUME IInv, [Next]_vars
    PROVE  IInv'
<1>1. CASE UNCHANGED vars
  <2>1. /\ hotData' = hotData /\ hotConts' = hotConts /\ hotJoins' = hotJoins
        /\ history' = history /\ lockA' = lockA /\ lockB' = lockB /\ task' = task
    BY <1>1 DEF vars
  <2>2. UNCHANGED <<hotVars, history>>
    BY <2>1 DEF hotVars
  <2>3. Typed' /\ DataOK' /\ ContsOK'
    BY <2>1, <2>2, QuietStore DEF IInv, Typed
  <2>4. ASSUME NEW u \in Calls PROVE CallOK(u)'
    <3>1. CallOK(u)
      BY DEF IInv
    <3>2. LocksA(u)' /\ LocksB(u)' /\ LocksGroup(u)' /\ Shape(u)'
      BY <3>1, <2>1, <2>2, QuietStore
         DEF CallOK, LocksA, LocksB, HasB, LocksGroup, Shape, phase_a_keys, installed_joins
    <3>3. FillsJoins(u)' /\ TestedOK(u)' /\ CandsOK(u)' /\ Fresh(u)'
      <4>1. FillsJoins(u)' /\ Fresh(u)'
        BY <3>1, <2>1, <2>2, QuietStore DEF CallOK, FillsJoins, Fresh
      <4>2. TestedOK(u)'
        BY <3>1, <2>1, <2>2, QuietStore DEF CallOK, TestedOK, Starved
      <4>3. CandsOK(u)'
        BY <3>1, <2>1, <2>2, QuietStore DEF CallOK, CandsOK, installed_joins
      <4>4. QED BY <4>1, <4>2, <4>3
    <3>4. SeenOK(u)'
      BY <3>1, <2>1, <2>2, QuietStore DEF CallOK, SeenOK
    <3>5. QED BY <3>2, <3>3, <3>4 DEF CallOK
  <2>5. JoinsOK'
    BY <2>1, <2>2, QuietStore DEF IInv, JoinsOK, Putting
  <2>6. NoMatchMissed'
    BY <2>1, <2>2, QuietStore DEF IInv, NoMatchMissed, Leaving
  <2>7. QED BY <2>3, <2>4, <2>5, <2>6 DEF IInv
<1>2. CASE create_checkpoint
  BY <1>2, CheckpointStep
<1>3. ASSUME NEW t \in Calls, Locking(t) PROVE IInv'
  BY <1>3, AcquireAStep, AcquireBStep DEF Locking
<1>4. ASSUME NEW t \in Calls, Run(t) PROVE IInv'
  <2>1. CASE t \in Conts /\ Consume(t)
    BY <2>1, PutContinuationStep, PutJoinStep DEF Consume
  <2>2. CASE t \in Datums /\ Produce(t)
    BY <2>2, GetJoinsStep, FillJoinsStep, GroupedChannelsStep, RemoveJoinStep, StoreDataStep
       DEF Produce
  <2>3. CASE \E g \in task[t].todo : Fetch(t, g)
    BY <2>3, FetchStep
  <2>4. CASE Fill(t)
    BY <2>4, FillStep
  <2>5. CASE MatchFound(t)
    BY <2>5, MatchFoundStep
  <2>6. CASE NoMatch(t)
    BY <2>6, NoMatchStep
  <2>7. CASE \E x \in task[t].cands : RemoveDatum(t, x)
    BY <2>7, RemoveDatumStep
  <2>8. CASE Return(t)
    BY <2>8, ReturnStep
  <2>9. QED
    BY <1>4, <2>1, <2>2, <2>3, <2>4, <2>5, <2>6, <2>7, <2>8 DEF Run
<1>5. QED
  BY <1>1, <1>2, <1>3, <1>4 DEF Next

(* The invariant holds in every reachable state. *)
THEOREM SpecIInv == Spec => []IInv
<1>1. Init => IInv
  BY InitIInv
<1>2. IInv /\ [Next]_vars => IInv'
  BY NextIInv
<1>3. QED
  BY <1>1, <1>2, PTL DEF Spec

(* Locks are held by calls or by nobody, and what the store holds, cached or   *)
(* not, is under its own channel or join, whatever calls interleave.           *)
THEOREM TypeCorrect == Spec => []TypeOK
<1>1. ASSUME IInv PROVE TypeOK
  <2>1. Typed /\ DataOK /\ ContsOK
    BY <1>1 DEF IInv
  <2>2. ASSUME NEW c \in Channels
        PROVE  /\ lockA[c] \in Calls \cup {Free}
               /\ lockB[c] \in Calls \cup {Free}
               /\ stored_joins(c) \subseteq Groups
               /\ Range(get_data(c)) \subseteq {d \in Datums : Channel[d] = c}
    <3>1. lockA[c] \in Calls \cup {Free} /\ lockB[c] \in Calls \cup {Free}
      BY <2>1 DEF Typed
    <3>2. stored_joins(c) \subseteq Groups
      BY <2>1, StoreTypes
    <3>3. Range(get_data(c)) \subseteq {d \in Datums : Channel[d] = c}
      BY <2>1, StoreTypes, RangeMembers DEF DataOK
    <3>4. QED BY <3>1, <3>2, <3>3
  <2>3. ASSUME NEW g \in Groups
        PROVE  Range(stored_continuations(g)) \subseteq {k \in Conts : Group[k] = g}
    BY <2>1, StoreTypes, RangeMembers DEF ContsOK
  <2>4. ASSUME NEW t \in Calls
        PROVE  task[t].cands \subseteq [channel : Channels, datum : Datums, index : Nat]
    BY <2>1 DEF Typed, Tasks, Candidates
  <2>5. QED BY <2>2, <2>3, <2>4 DEF TypeOK
<1>2. QED
  BY <1>1, SpecIInv, PTL

(* Of two calls that complete a join together, the later one finds the match:  *)
(* no waiting continuation has matching data on all its channels, whatever     *)
(* produces, consumes, cache fills, removals and checkpoints interleave.       *)
THEOREM NoMatchIsMissed == Spec => []NoMatchMissed
<1>1. IInv => NoMatchMissed
  BY DEF IInv
<1>2. QED
  BY <1>1, SpecIInv, PTL

-----------------------------------------------------------------------------
(* What is used once.                                                          *)
(*                                                                             *)
(* A second invariant, on top of the first.  That a datum or a continuation is *)
(* in one match at most rests on phase B: who matches it holds its channels    *)
(* until it is out of the store.  That none is lost rests on the calls'        *)
(* agreement on what to lock: as long as no fill of get_joins has brought a    *)
(* removed join back, every channel of a join knows it or none does, but for   *)
(* the one call that is putting or removing it, and so a cache fill of a       *)
(* produce never overwrites a datum that another produce has stored.           *)

InStore(x) ==
    x \in Range(IF x \in Datums THEN get_data(Channel[x]) ELSE stored_continuations(Group[x]))

(* A continuation is stored once. *)
ContsOnce == \A g \in Groups : IsInjective(stored_continuations(g))

(* A call that has neither matched nor stored is in no match, and its          *)
(* continuation is not in the store.                                           *)
Unused(u) ==
    task[u].pc \notin {"remove", "removeJoin", "putJoin", "return", "done"} =>
       /\ u \in Linear => taken[u] = 0
       /\ u \in Conts => u \notin Range(stored_continuations(Group[u]))

(* What was matched is on its way out of the store, or out of it. *)
UsedOK ==
    \A x \in Linear :
       /\ taken[x] \in {0, 1}
       /\ x \in Leaving => taken[x] = 1
       /\ taken[x] = 1 /\ InStore(x) => x \in Leaving

(* The joins a produce tries are known to all their channels, and what a fill  *)
(* will write is what the store holds.                                         *)
FillsOK(u) ==
    ~revived =>
       /\ u \in Datums /\ task[u].pc \in {"fetch", "fill", "match"} =>
             \A g \in task[u].todo : \A c \in g : g \in stored_joins(c) \cup installed_joins(c)
       /\ task[u].pc = "fill" =>
             \A c \in task[u].seen.missing : get_data(c) = history.data[c]

Kept(x) == taken[x] = 1 \/ InStore(x)

(* What a call has matched or stored is not lost. *)
KeptOK(u) ==
    u \in Linear /\ ~revived =>
       /\ task[u].pc \in {"remove", "removeJoin"} => taken[u] = 1
       /\ task[u].pc \in {"putJoin", "return", "done"} => Kept(u)

KeptHistory == ~revived => \A x \in Linear \cap InHistory : Kept(x)

(* Call u is putting join g on its channels, or removing it from them. *)
Changing(u, g) ==
    \/ u \in Conts /\ task[u].pc = "putJoin" /\ Group[u] = g
    \/ u \in Datums /\ task[u].pc \in {"remove", "removeJoin"} /\ task[u].group = g

(* A join that one channel has is on all its channels. *)
JoinsAgree ==
    ~revived =>
       \A b \in Channels : \A g \in stored_joins(b) :
          b \in g /\ \A c \in g : g \in stored_joins(c) \/ \E u \in Calls : Changing(u, g)

(* The channels whose join a produce may still have to remove. *)
Pending(u) == {x.channel : x \in task[u].cands}
                 \cup (IF task[u].pc = "removeJoin" THEN task[u].want ELSE {})

(* How far a change of a join has got: a consume has put it on all channels    *)
(* but those it wants; a produce that leaves the join without continuations    *)
(* has removed it from all but those that are pending.                         *)
ChangeOK(u) ==
    /\ u \in Conts /\ task[u].pc = "putJoin" =>
          \A c \in Group[u] \ task[u].want : Group[u] \in stored_joins(c)
    /\ ~revived /\ u \in Datums /\ task[u].pc \in {"remove", "removeJoin"} =>
          IF get_continuations(task[u].group) = <<>>
          THEN \A c \in task[u].group \ Pending(u) : task[u].group \notin stored_joins(c)
          ELSE \A b, c \in task[u].group :
                  task[u].group \in stored_joins(b) => task[u].group \in stored_joins(c)

UseOK(u) == Unused(u) /\ FillsOK(u) /\ KeptOK(u) /\ ChangeOK(u)

Counted == taken \in [Linear -> Int] /\ revived \in BOOLEAN

UInv ==
    /\ Counted /\ ContsOnce /\ UsedOK /\ KeptHistory /\ JoinsAgree
    /\ \A u \in Calls : UseOK(u)

-----------------------------------------------------------------------------
(* Interference. *)

(* How a step of call t appears in these terms: what it matches is its own or  *)
(* in the store, it stores no continuation but its own, it loses nothing, and  *)
(* it changes the joins only by putting or removing the one it works on, all   *)
(* this as long as it does not bring a removed join back.                      *)
UseInterference(t) ==
    /\ revived => revived'
    /\ \A x \in Linear : \/ taken'[x] = taken[x]
                         \/ (x = t \/ InStore(x)) /\ taken'[x] = 1
    /\ \A g \in Groups :
          Range(stored_continuations(g)') \subseteq Range(stored_continuations(g)) \cup {t}
    /\ ~revived' => \A x \in Linear : x # t /\ Kept(x) => Kept(x)'
    /\ ~revived' => \A c \in Channels :
          \/ stored_joins(c)' = stored_joins(c)
          \/ /\ t \in Conts /\ task[t].pc = "putJoin"
             /\ stored_joins(c)' = stored_joins(c) \cup {Group[t]}
          \/ /\ t \in Datums /\ task[t].pc = "removeJoin"
             /\ stored_joins(c)' = stored_joins(c) \ {task[t].group}

(* Who changes a join holds phase B of all its channels. *)
LEMMA ChangingLocks ==
    ASSUME IInv, NEW u \in Calls, NEW g, Changing(u, g)
    PROVE  g \in Groups /\ \A c \in g : lockB[c] = u
<1>1. CallOK(u)
  BY DEF IInv
<1>2. CASE u \in Conts /\ task[u].pc = "putJoin" /\ Group[u] = g
  BY <1>1, <1>2, Constants DEF CallOK, LocksB, HasB
<1>3. CASE u \in Datums /\ task[u].pc \in {"remove", "removeJoin"} /\ task[u].group = g
  BY <1>1, <1>3 DEF CallOK, LocksGroup, Shape
<1>4. QED BY <1>2, <1>3 DEF Changing

(* So a join changes in one call at a time. *)
LEMMA OneChanges ==
    ASSUME IInv, NEW u \in Calls, NEW v \in Calls, NEW g, Changing(u, g),
           \A c \in g : lockB[c] = v
    PROVE  u = v
<1>1. g \in Groups /\ \A c \in g : lockB[c] = u
  BY ChangingLocks
<1>2. PICK c : c \in g
  BY <1>1, Constants
<1>3. QED BY <1>1, <1>2

(* What the other calls have not used. *)
LEMMA KeepsUnused ==
    ASSUME IInv, UInv, NEW t \in Calls, Interference(t), UseInterference(t),
           NEW u \in Calls \ {t}
    PROVE  Unused(u)'
<1>1. Unused(u) /\ Fresh(u) /\ task'[u] = task[u]
  BY DEF IInv, CallOK, UInv, UseOK, Interference
<1>2. SUFFICES ASSUME task[u].pc \notin {"remove", "removeJoin", "putJoin", "return", "done"}
               PROVE  /\ u \in Linear => taken'[u] = 0
                      /\ u \in Conts => u \notin Range(stored_continuations(Group[u])')
  BY <1>1 DEF Unused
<1>3. ~InStore(u)
  <2>1. CASE u \in Datums
    BY <2>1, <1>1, <1>2 DEF InStore, Fresh
  <2>2. CASE u \notin Datums
    BY <2>2, <1>1, <1>2, Constants DEF InStore, Unused
  <2>3. QED BY <2>1, <2>2
<1>4. u \in Linear => taken'[u] = 0
  BY <1>1, <1>2, <1>3 DEF UseInterference, Unused
<1>5. u \in Conts => u \notin Range(stored_continuations(Group[u])')
  BY <1>1, <1>2, Constants DEF UseInterference, Unused
<1>6. QED BY <1>4, <1>5

(* What the other calls have fetched and will fill. *)
LEMMA KeepsFills ==
    ASSUME IInv, UInv, NEW t \in Calls, Interference(t), UseInterference(t),
           NEW u \in Calls \ {t}
    PROVE  FillsOK(u)'
<1>1. FillsOK(u) /\ CallOK(u) /\ task'[u] = task[u] /\ history' = history
  BY DEF IInv, UInv, UseOK, Interference
<1>2. SUFFICES ASSUME ~revived' PROVE FillsOK(u)'
  BY DEF FillsOK
<1>3. ~revived
  BY <1>2 DEF UseInterference
<1>4. task[u] \in Tasks /\ CallOK(t)
  BY DEF IInv, Typed
<1>5. ASSUME u \in Datums, task[u].pc \in {"fetch", "fill", "match"},
             NEW g \in task[u].todo, NEW c \in g
      PROVE  g \in stored_joins(c)' \cup installed_joins(c)
  <2>1. g \in stored_joins(c) \cup installed_joins(c) /\ lockB[c] = u
    BY <1>1, <1>3, <1>5 DEF FillsOK, CallOK, LocksGroup
  <2>2. c \in Channels /\ g \in Groups
    BY <1>4, <1>5, Constants DEF Tasks
  <2>3. CASE task[t].pc = "removeJoin" /\ task[t].group = g
    BY <2>1, <2>3, <1>4, <1>5 DEF CallOK, LocksGroup
  <2>4. CASE ~(task[t].pc = "removeJoin" /\ task[t].group = g)
    BY <2>1, <2>2, <2>4, <1>2 DEF UseInterference
  <2>5. QED BY <2>3, <2>4
<1>6. ASSUME task[u].pc = "fill", NEW c \in task[u].seen.missing
      PROVE  get_data(c)' = history.data[c]
  <2>1. /\ get_data(c) = history.data[c] /\ c \in task[u].group /\ lockB[c] = u
        /\ task[u].group \in task[u].todo /\ task[u].group \in Groups
    BY <1>1, <1>3, <1>6 DEF FillsOK, CallOK, SeenOK, LocksGroup, Shape
  <2>2. c \in Channels
    BY <2>1, Constants
  <2>3. ASSUME t \in Datums, task[t].pc = "store", c = Channel[t] PROVE FALSE
    <3>1. /\ lockA[c] = t
          /\ \A g \in stored_joins(c) \cup installed_joins(c) : \A b \in g : lockB[b] = t
      BY <2>3, StoringLocks
    <3>2. CASE u \in Datums
      <4>1. task[u].group \in stored_joins(c) \cup installed_joins(c)
        BY <3>2, <2>1, <1>1, <1>3, <1>6 DEF FillsOK
      <4>2. QED BY <4>1, <3>1, <2>1
    <3>3. CASE u \in Conts
      <4>1. task[u].group = Group[u]
        BY <3>3, <2>1, <1>1, <1>6 DEF CallOK, Shape
      <4>2. lockA[c] = u
        BY <4>1, <3>3, <2>1, <1>1, <1>6, Constants DEF CallOK, LocksA
      <4>3. QED BY <4>2, <3>1
    <3>4. QED BY <3>2, <3>3, Constants
  <2>4. get_data(c)' = get_data(c)
    BY <2>1, <2>2, <2>3 DEF Interference
  <2>5. QED BY <2>1, <2>4
<1>7. QED
  BY <1>1, <1>5, <1>6 DEF FillsOK, installed_joins

(* How far the other calls have got with their joins. *)
LEMMA KeepsChange ==
    ASSUME IInv, UInv, NEW t \in Calls, Interference(t), UseInterference(t),
           NEW u \in Calls \ {t}
    PROVE  ChangeOK(u)'
<1>1. ChangeOK(u) /\ task'[u] = task[u] /\ CallOK(t)
  BY DEF IInv, UInv, UseOK, Interference
<1>2. ASSUME NEW g, Changing(u, g), NEW c \in g
      PROVE  ~(task[t].pc = "removeJoin" /\ task[t].group = g) /\ c \in Channels
  <2>1. g \in Groups /\ lockB[c] = u
    BY <1>2, ChangingLocks
  <2>2. QED BY <2>1, <1>1, <1>2, Constants DEF CallOK, LocksGroup
<1>3. ASSUME u \in Conts, task[u].pc = "putJoin", NEW c \in Group[u] \ task[u].want
      PROVE  Group[u] \in stored_joins(c)'
  <2>1. Changing(u, Group[u])
    BY <1>3 DEF Changing
  <2>2. Group[u] \in stored_joins(c)
    BY <1>1, <1>3 DEF ChangeOK
  <2>3. QED BY <2>1, <2>2, <1>2 DEF Interference
<1>4. ASSUME ~revived', u \in Datums, task[u].pc \in {"remove", "removeJoin"},
             NEW g, g = task[u].group
      PROVE  IF get_continuations(g)' = <<>>
             THEN \A c \in g \ Pending(u) : g \notin stored_joins(c)'
             ELSE \A b, c \in g : g \in stored_joins(b)' => g \in stored_joins(c)'
  <2>2. Changing(u, g)
    BY <1>4 DEF Changing
  <2>3. g \in Groups /\ \A c \in g : lockB[c] = u
    BY <2>2, ChangingLocks
  <2>4. stored_continuations(g)' = stored_continuations(g)
    BY <2>3, Constants DEF Interference
  <2>5. get_continuations(g)' = get_continuations(g)
    BY <2>4 DEF get_continuations, installed
  <2>6. t \in Conts /\ task[t].pc = "putJoin" => Group[t] # g
    <3>1. t \in Conts /\ task[t].pc = "putJoin" /\ Group[t] = g => Changing(t, g)
      BY DEF Changing
    <3>2. QED BY <3>1, <2>3, OneChanges
  <2>7. ASSUME NEW c \in g PROVE g \in stored_joins(c)' <=> g \in stored_joins(c)
    BY <2>2, <2>6, <2>7, <1>2, <1>4 DEF UseInterference
  <2>8. ~revived
    BY <1>4 DEF UseInterference
  <2>9. IF get_continuations(g) = <<>>
        THEN \A c \in g \ Pending(u) : g \notin stored_joins(c)
        ELSE \A b, c \in g : g \in stored_joins(b) => g \in stored_joins(c)
    BY <2>8, <1>1, <1>4 DEF ChangeOK
  <2>10. QED BY <2>5, <2>7, <2>9
<1>5. Pending(u)' = Pending(u)
  BY <1>1 DEF Pending
<1>6. QED
  BY <1>1, <1>3, <1>4, <1>5 DEF ChangeOK

(* A step of t keeps the invariant, if it keeps the part that is about the     *)
(* store and what t itself relies on.                                          *)
LEMMA UseStep ==
    ASSUME IInv, UInv, NEW t \in Calls, Interference(t), UseInterference(t),
           Counted', ContsOnce', UsedOK', JoinsAgree', UseOK(t)'
    PROVE  UInv'
<1>1. ASSUME NEW u \in Calls \ {t} PROVE KeptOK(u)'
  <2>1. KeptOK(u) /\ task'[u] = task[u]
    BY DEF UInv, UseOK, Interference
  <2>2. u \in Linear /\ taken[u] = 1 => taken'[u] = 1
    BY DEF UseInterference
  <2>3. QED
    BY <2>1, <2>2 DEF KeptOK, UseInterference
<1>2. \A u \in Calls : UseOK(u)'
  BY <1>1, KeepsUnused, KeepsFills, KeepsChange DEF UseOK
<1>3. KeptHistory'
  <2>1. \A x \in Linear \cap InHistory : x # t
    BY DEF Calls
  <2>2. QED BY <2>1 DEF UInv, KeptHistory, UseInterference
<1>4. QED
  BY <1>2, <1>3 DEF UInv

-----------------------------------------------------------------------------
(* Steps that use nothing. *)

(* Goto, for any local variables. *)
LEMMA GotoTask ==
    ASSUME Typed, NEW t \in Calls, NEW r, Goto(t, r)
    PROVE  task'[t] = r
BY DEF Typed, Goto

(* What is in the store, when the store does not change. *)
LEMMA SameStore ==
    ASSUME \A c \in Channels : get_data(c)' = get_data(c),
           \A g \in Groups : stored_continuations(g)' = stored_continuations(g),
           NEW x \in Linear
    PROVE  InStore(x)' <=> InStore(x)
<1>1. CASE x \in Datums
  BY <1>1, Constants DEF InStore
<1>2. CASE x \notin Datums
  <2>1. x \in Conts
    BY <1>2 DEF Linear
  <2>2. QED BY <1>2, <2>1, Constants DEF InStore
<1>3. QED BY <1>1, <1>2

(* The joins still agree when they do not change and t does not stop changing  *)
(* one.                                                                        *)
LEMMA KeepsAgree ==
    ASSUME IInv, UInv, NEW t \in Calls, Interference(t), revived => revived',
           ~revived' => \A c \in Channels : stored_joins(c)' = stored_joins(c),
           \A g : Changing(t, g) => Changing(t, g)'
    PROVE  JoinsAgree'
<1>1. SUFFICES ASSUME ~revived' PROVE JoinsAgree'
  BY DEF JoinsAgree
<1>2. JoinsAgree /\ ~revived
  BY <1>1 DEF UInv
<1>3. ASSUME NEW u \in Calls, NEW g, Changing(u, g) PROVE Changing(u, g)'
  BY <1>3 DEF Changing, Interference
<1>4. ASSUME NEW b \in Channels, NEW g \in stored_joins(b)
      PROVE  b \in g /\ \A c \in g : g \in stored_joins(c)' \/ \E u \in Calls : Changing(u, g)'
  <2>1. b \in g /\ \A c \in g : g \in stored_joins(c) \/ \E u \in Calls : Changing(u, g)
    BY <1>2, <1>4 DEF JoinsAgree
  <2>2. g \in Groups
    BY StoreTypes DEF IInv
  <2>3. QED BY <2>1, <2>2, <1>1, <1>3, Constants
<1>5. QED
  BY <1>1, <1>4 DEF JoinsAgree

(* A step before the match, or the return. *)
LEMMA QuietUse ==
    ASSUME IInv, UInv, NEW t \in Calls, Interference(t),
           \A c \in Channels : get_data(c)' = get_data(c),
           \A g \in Groups : stored_continuations(g)' = stored_continuations(g),
           ~revived' => \A c \in Channels : stored_joins(c)' = stored_joins(c),
           taken' = taken, revived => revived', revived' \in BOOLEAN,
           task'[t].cands = task[t].cands,
           \/ /\ task[t].pc \notin {"remove", "removeJoin", "putJoin", "return", "done"}
              /\ task'[t].pc \notin {"remove", "removeJoin", "putJoin", "return", "done"}
           \/ task[t].pc = "return" /\ task'[t].pc = "done",
           FillsOK(t)'
    PROVE  UInv'
<1>1. \A x \in Linear : InStore(x)' <=> InStore(x)
  BY SameStore
<1>2. Counted /\ ContsOnce /\ UsedOK /\ UseOK(t)
  BY DEF UInv
<1>3. \A x \in Linear : Kept(x)' <=> Kept(x)
  BY <1>1 DEF Kept
<1>4. UseInterference(t)
  BY <1>3 DEF UseInterference
<1>5. Counted' /\ ContsOnce'
  BY <1>2 DEF Counted, ContsOnce
<1>6. UsedOK'
  <2>1. \A x : x \in Leaving' <=> x \in Leaving
    BY LeavingMembers, NextLeavingMembers DEF Interference
  <2>2. QED BY <2>1, <1>1, <1>2 DEF UsedOK
<1>7. JoinsAgree'
  <2>1. \A g : ~Changing(t, g)
    BY DEF Changing
  <2>2. QED BY <2>1, KeepsAgree
<1>8. UseOK(t)'
  <2>1. Unused(t)'
    BY <1>2, Constants DEF UseOK, Unused
  <2>2. KeptOK(t)'
    <3>1. task[t].pc = "return" => revived \/ t \notin Linear \/ Kept(t)
      BY <1>2 DEF UseOK, KeptOK
    <3>2. QED BY <3>1, <1>3 DEF KeptOK
  <2>3. ChangeOK(t)'
    BY DEF ChangeOK
  <2>4. QED BY <2>1, <2>2, <2>3 DEF UseOK
<1>9. QED
  BY <1>4, <1>5, <1>6, <1>7, <1>8, UseStep

(* The same when the whole store is unchanged. *)
LEMMA QuietUseStep ==
    ASSUME IInv, UInv, NEW t \in Calls, Interference(t), UNCHANGED <<hotVars, history>>,
           taken' = taken, revived' = revived,
           task'[t].cands = task[t].cands,
           \/ /\ task[t].pc \notin {"remove", "removeJoin", "putJoin", "return", "done"}
              /\ task'[t].pc \notin {"remove", "removeJoin", "putJoin", "return", "done"}
           \/ task[t].pc = "return" /\ task'[t].pc = "done",
           FillsOK(t)'
    PROVE  UInv'
<1>1. revived' \in BOOLEAN
  BY DEF UInv, Counted
<1>2. QED
  BY <1>1, QuietStore, QuietUse

(* Phase A. *)
LEMMA AcquireAUse ==
    ASSUME IInv, UInv, NEW t \in Calls, AcquireA(t)
    PROVE  UInv'
<1>1. Typed /\ task[t] \in Tasks /\ Interference(t)
  BY AcquireAStep DEF IInv, Typed
<1>2. /\ task[t].pc \in {"idle", "lockA"} /\ UNCHANGED <<hotVars, history>>
      /\ taken' = taken /\ revived' = revived
  BY DEF AcquireA
<1>3. PICK r : /\ Goto(t, r) /\ r.cands = task[t].cands /\ r.pc \in {"lockA", "joins", "lockB"}
  <2>1. PICK rest : Goto(t, IF rest # {} THEN [task[t] EXCEPT !.pc = "lockA", !.want = rest]
                   ELSE IF t \in Datums THEN [task[t] EXCEPT !.pc = "joins", !.want = {}]
                   ELSE [task[t] EXCEPT !.pc = "lockB", !.want = Group[t]])
    BY DEF AcquireA
  <2> DEFINE r == IF rest # {} THEN [task[t] EXCEPT !.pc = "lockA", !.want = rest]
                  ELSE IF t \in Datums THEN [task[t] EXCEPT !.pc = "joins", !.want = {}]
                  ELSE [task[t] EXCEPT !.pc = "lockB", !.want = Group[t]]
  <2>2. r.cands = task[t].cands /\ r.pc \in {"lockA", "joins", "lockB"}
    BY <1>1 DEF Tasks
  <2> HIDE DEF r
  <2>3. QED BY <2>1, <2>2 DEF r
<1>4. task'[t] = r
  BY <1>1, <1>3, GotoTask
<1>5. FillsOK(t)'
  BY <1>3, <1>4 DEF FillsOK
<1>6. QED
  BY <1>1, <1>2, <1>3, <1>4, <1>5, QuietUseStep

(* Going on to phase B. *)
LEMMA LockJoinsUse ==
    ASSUME Typed, NEW d \in Calls, NEW joins, LockJoins(d, joins)
    PROVE  task'[d].cands = task[d].cands /\ task'[d].pc \in {"grouped", "lockB"}
<1>1. task[d] \in Tasks
  BY DEF Typed
<1>2. PICK r : Goto(d, r) /\ r.cands = task[d].cands /\ r.pc \in {"grouped", "lockB"}
  <2> DEFINE keys == join_channels(d, joins)
             r == [task[d] EXCEPT !.pc = IF keys = {} THEN "grouped" ELSE "lockB", !.want = keys]
  <2>1. Goto(d, r)
    BY DEF LockJoins
  <2> HIDE DEF keys
  <2>2. r.cands = task[d].cands /\ r.pc \in {"grouped", "lockB"}
    BY <1>1 DEF Tasks
  <2> HIDE DEF r
  <2>3. QED BY <2>1, <2>2
<1>3. QED
  BY <1>2, GotoTask

(* get_joins, the look at the cache. *)
LEMMA GetJoinsUse ==
    ASSUME IInv, UInv, NEW d \in Calls, d \in Datums, GetJoins(d)
    PROVE  UInv'
<1>1. Typed /\ task[d] \in Tasks /\ Interference(d)
  BY GetJoinsStep DEF IInv, Typed
<1>2. /\ task[d].pc = "joins" /\ UNCHANGED <<hotVars, history>>
      /\ taken' = taken /\ revived' = revived
  BY DEF GetJoins, At
<1>3. task'[d].cands = task[d].cands /\ task'[d].pc \in {"fillJoins", "grouped", "lockB"}
  <2>1. CASE hotJoins[Channel[d]] = NotCached
    <3>1. PICK r : Goto(d, r) /\ r.cands = task[d].cands /\ r.pc = "fillJoins"
      BY <2>1, <1>1 DEF GetJoins, Tasks
    <3>2. QED BY <3>1, <1>1, GotoTask
  <2>2. CASE hotJoins[Channel[d]] # NotCached
    BY <2>2, <1>1, LockJoinsUse DEF GetJoins
  <2>3. QED BY <2>1, <2>2
<1>4. FillsOK(d)'
  BY <1>3 DEF FillsOK
<1>5. QED
  BY <1>1, <1>2, <1>3, <1>4, QuietUseStep

(* get_joins, the fill: the joins stay as they are, or revived says so. *)
LEMMA FillJoinsUse ==
    ASSUME IInv, UInv, NEW d \in Calls, d \in Datums, FillJoins(d)
    PROVE  UInv'
<1>1. Typed /\ task[d] \in Tasks /\ Channel[d] \in Channels
  BY Constants DEF IInv, Typed
<1>2. /\ Interference(d)
      /\ \A b : get_data(b)' = get_data(b)
      /\ \A g : stored_continuations(g)' = stored_continuations(g)
      /\ stored_joins(Channel[d])' = history.joins[Channel[d]]
      /\ \A b \in Channels \ {Channel[d]} : stored_joins(b)' = stored_joins(b)
  BY FillJoinsStep
<1>3. /\ task[d].pc = "fillJoins" /\ taken' = taken
      /\ revived' = (revived \/ stored_joins(Channel[d]) # history.joins[Channel[d]])
  BY DEF FillJoins, At
<1>4. task'[d].cands = task[d].cands /\ task'[d].pc \in {"grouped", "lockB"}
  BY <1>1, LockJoinsUse DEF FillJoins
<1>5. FillsOK(d)'
  BY <1>4 DEF FillsOK
<1>6. ~revived' => \A c \in Channels : stored_joins(c)' = stored_joins(c)
  BY <1>2, <1>3
<1>7. QED
  BY <1>2, <1>3, <1>4, <1>5, <1>6, QuietUse

(* Phase B. *)
LEMMA AcquireBUse ==
    ASSUME IInv, UInv, NEW t \in Calls, AcquireB(t)
    PROVE  UInv'
<1>1. Typed /\ task[t] \in Tasks /\ Interference(t)
  BY AcquireBStep DEF IInv, Typed
<1>2. /\ task[t].pc = "lockB" /\ UNCHANGED <<hotVars, history>>
      /\ taken' = taken /\ revived' = revived
  BY DEF AcquireB, At
<1>3. PICK r : /\ Goto(t, r) /\ r.cands = task[t].cands /\ r.pc \in {"lockB", "grouped", "fetch"}
               /\ r.pc = "fetch" => t \notin Datums
  <2>1. PICK rest : Goto(t, IF rest # {} THEN [task[t] EXCEPT !.want = rest]
                   ELSE IF t \in Datums THEN [task[t] EXCEPT !.pc = "grouped", !.want = {}]
                   ELSE [task[t] EXCEPT !.pc = "fetch", !.want = {}, !.todo = {Group[t]}])
    BY DEF AcquireB
  <2> DEFINE r == IF rest # {} THEN [task[t] EXCEPT !.want = rest]
                  ELSE IF t \in Datums THEN [task[t] EXCEPT !.pc = "grouped", !.want = {}]
                  ELSE [task[t] EXCEPT !.pc = "fetch", !.want = {}, !.todo = {Group[t]}]
  <2>2. /\ r.cands = task[t].cands /\ r.pc \in {"lockB", "grouped", "fetch"}
        /\ r.pc = "fetch" => t \notin Datums
    BY <1>1, <1>2 DEF Tasks
  <2> HIDE DEF r
  <2>3. QED BY <2>1, <2>2 DEF r
<1>4. task'[t] = r
  BY <1>1, <1>3, GotoTask
<1>5. FillsOK(t)'
  BY <1>3, <1>4 DEF FillsOK
<1>6. QED
  BY <1>1, <1>2, <1>3, <1>4, <1>5, QuietUseStep

(* The second look at the joins: nobody is changing them. *)
LEMMA GroupedChannelsUse ==
    ASSUME IInv, UInv, NEW d \in Calls, d \in Datums, GroupedChannels(d)
    PROVE  UInv'
<1>1. Typed /\ task[d] \in Tasks /\ CallOK(d) /\ Interference(d) /\ Channel[d] \in Channels
  BY GroupedChannelsStep, Constants DEF IInv, Typed
<1>2. /\ task[d].pc = "grouped" /\ UNCHANGED <<hotVars, history>>
      /\ taken' = taken /\ revived' = revived
  BY DEF GroupedChannels, At
<1>3. PICK groups : groups = stored_joins(Channel[d]) \cup installed_joins(Channel[d])
  OBVIOUS
<1>4. PICK r : /\ Goto(d, r) /\ r.cands = task[d].cands /\ r.pc \in {"store", "fetch"}
               /\ r.todo = groups
  <2> DEFINE r == [task[d] EXCEPT !.pc = IF groups = {} THEN "store" ELSE "fetch", !.todo = groups]
  <2>1. Goto(d, r)
    BY <1>3 DEF GroupedChannels
  <2>2. r.cands = task[d].cands /\ r.pc \in {"store", "fetch"} /\ r.todo = groups
    BY <1>1 DEF Tasks
  <2> HIDE DEF r
  <2>3. QED BY <2>1, <2>2
<1>5. task'[d] = r
  BY <1>1, <1>4, GotoTask
<1>6. ASSUME ~revived, NEW g \in groups, NEW c \in g
      PROVE  g \in stored_joins(c) \cup installed_joins(c)
  <2>1. CASE g \in installed_joins(Channel[d])
    BY <2>1, <1>6, InstalledJoins
  <2>2. CASE g \in stored_joins(Channel[d])
    <3>1. g \in stored_joins(c) \/ \E u \in Calls : Changing(u, g)
      BY <2>2, <1>1, <1>6 DEF UInv, JoinsAgree
    <3>2. \A b \in g : lockB[b] = d
      BY <2>2, <1>1, <1>2 DEF CallOK, LocksB, HasB
    <3>3. \A u \in Calls : Changing(u, g) => u = d
      BY <3>2, OneChanges
    <3>4. ~Changing(d, g)
      BY <1>2, Constants DEF Changing
    <3>5. QED BY <3>1, <3>3, <3>4
  <2>3. QED BY <2>1, <2>2, <1>3
<1>7. FillsOK(d)'
  <2>1. \A c : stored_joins(c)' = stored_joins(c)
    BY <1>2, QuietStore
  <2>2. QED BY <2>1, <1>2, <1>4, <1>5, <1>6 DEF FillsOK, installed_joins
<1>8. QED
  BY <1>1, <1>2, <1>4, <1>5, <1>7, QuietUseStep

(* The look at the data of a join: what is not cached is what the history has. *)
LEMMA FetchUse ==
    ASSUME IInv, UInv, NEW t \in Calls, NEW g \in task[t].todo, Fetch(t, g)
    PROVE  UInv'
<1>1. Typed /\ task[t] \in Tasks /\ Interference(t) /\ UseOK(t)
  BY FetchStep DEF IInv, Typed, UInv
<1>2. /\ task[t].pc = "fetch" /\ UNCHANGED <<hotVars, history>>
      /\ taken' = taken /\ revived' = revived
  BY DEF Fetch, At
<1>3. PICK r : /\ Goto(t, r) /\ r.cands = task[t].cands /\ r.pc \in {"match", "fill"}
               /\ r.todo = task[t].todo
               /\ r.seen.missing = {c \in g : hotData[c] = NotCached}
  <2> DEFINE missing == {c \in g : hotData[c] = NotCached}
             missingConts == {j \in {g} : t \in Datums /\ hotConts[j] = NotCached}
             seen == [data |-> [c \in g |-> get_data(c)],
                      conts |-> IF t \in Datums THEN get_continuations(g) ELSE <<t>>,
                      missing |-> missing, missingConts |-> missingConts]
             r == [task[t] EXCEPT
                      !.pc = IF missing = {} /\ missingConts = {} THEN "match" ELSE "fill",
                      !.group = g, !.seen = seen]
  <2>1. Goto(t, r)
    BY DEF Fetch
  <2>2. seen.missing = missing
    OBVIOUS
  <2> HIDE DEF missing, missingConts, seen
  <2>3. /\ r.cands = task[t].cands /\ r.pc \in {"match", "fill"}
        /\ r.todo = task[t].todo /\ r.seen = seen
    BY <1>1 DEF Tasks
  <2> HIDE DEF r
  <2>4. QED BY <2>1, <2>2, <2>3 DEF missing
<1>4. task'[t] = r
  BY <1>1, <1>3, GotoTask
<1>5. FillsOK(t)'
  <2>1. \A c : stored_joins(c)' = stored_joins(c) /\ get_data(c)' = get_data(c)
    BY <1>2, QuietStore
  <2>2. \A c \in r.seen.missing : get_data(c) = history.data[c]
    BY <1>3 DEF get_data
  <2>3. t \in Datums /\ ~revived =>
           \A j \in r.todo : \A c \in j : j \in stored_joins(c) \cup installed_joins(c)
    BY <1>1, <1>2, <1>3 DEF UseOK, FillsOK
  <2>4. history' = history
    BY <1>2
  <2>5. QED BY <2>1, <2>2, <2>3, <2>4, <1>2, <1>3, <1>4 DEF FillsOK, installed_joins
<1>6. QED
  BY <1>1, <1>2, <1>3, <1>4, <1>5, QuietUseStep

(* No match in a join. *)
LEMMA NoMatchUse ==
    ASSUME IInv, UInv, NEW t \in Calls, NoMatch(t)
    PROVE  UInv'
<1>1. Typed /\ task[t] \in Tasks /\ Interference(t) /\ UseOK(t)
  BY NoMatchStep DEF IInv, Typed, UInv
<1>2. /\ task[t].pc = "match" /\ UNCHANGED <<hotVars, history>>
      /\ taken' = taken /\ revived' = revived
  BY DEF NoMatch, At
<1>3. PICK r : /\ Goto(t, r) /\ r.cands = task[t].cands /\ r.pc \in {"store", "fetch"}
               /\ r.todo \subseteq task[t].todo
  <2> DEFINE rest == task[t].todo \ {task[t].group}
             r == [task[t] EXCEPT !.pc = IF rest = {} THEN "store" ELSE "fetch",
                                  !.todo = rest, !.group = {}, !.seen = NotSeen]
  <2>1. Goto(t, r)
    BY DEF NoMatch
  <2> HIDE DEF rest, NotSeen
  <2>2. r.cands = task[t].cands /\ r.pc \in {"store", "fetch"} /\ r.todo = rest
    BY <1>1 DEF Tasks
  <2> HIDE DEF r
  <2>3. QED BY <2>1, <2>2 DEF rest
<1>4. task'[t] = r
  BY <1>1, <1>3, GotoTask
<1>5. FillsOK(t)'
  <2>1. \A c : stored_joins(c)' = stored_joins(c)
    BY <1>2, QuietStore
  <2>2. t \in Datums /\ ~revived =>
           \A j \in r.todo : \A c \in j : j \in stored_joins(c) \cup installed_joins(c)
    BY <1>1, <1>2, <1>3 DEF UseOK, FillsOK
  <2>3. QED BY <2>1, <2>2, <1>2, <1>3, <1>4 DEF FillsOK, installed_joins
<1>6. QED
  BY <1>1, <1>2, <1>3, <1>4, <1>5, QuietUseStep

(* The return. *)
LEMMA ReturnUse ==
    ASSUME IInv, UInv, NEW t \in Calls, Return(t)
    PROVE  UInv'
<1>1. Typed /\ Interference(t) /\ CallOK(t)
  BY ReturnStep DEF IInv
<1>2. /\ task[t].pc = "return" /\ UNCHANGED <<hotVars, history>>
      /\ taken' = taken /\ revived' = revived
  BY DEF Return, At
<1>3. PICK r : Goto(t, r) /\ r.cands = {} /\ r.pc = "done"
  BY DEF Return, Idle
<1>4. task'[t] = r /\ task[t].cands = {}
  BY <1>1, <1>2, <1>3, GotoTask DEF CallOK, Shape
<1>5. FillsOK(t)'
  BY <1>3, <1>4 DEF FillsOK
<1>6. QED
  BY <1>1, <1>2, <1>3, <1>4, <1>5, QuietUseStep

(* A fill of the cache: as long as the joins agree, it changes nothing. *)
LEMMA FillUse ==
    ASSUME IInv, UInv, NEW t \in Calls, Fill(t)
    PROVE  UInv'
<1>1. Typed /\ task[t] \in Tasks /\ UseOK(t)
  BY DEF IInv, Typed, UInv
<1>2. /\ Interference(t)
      /\ \A c \in Channels : get_data(c)' = IF c \in task[t].seen.missing
                                            THEN history.data[c] ELSE get_data(c)
      /\ \A c \in Channels : Range(get_data(c)') \subseteq Range(get_data(c))
      /\ \A j \in Groups : stored_continuations(j)' = stored_continuations(j)
      /\ \A c \in Channels : stored_joins(c)' = stored_joins(c)
  BY FillStep
<1>3. task[t].pc = "fill" /\ taken' = taken /\ revived' = revived
  BY DEF Fill, At
<1>4. PICK r : Goto(t, r) /\ r.cands = task[t].cands /\ r.pc = "match" /\ r.todo = task[t].todo
  BY <1>1 DEF Fill, Tasks
<1>5. task'[t] = r
  BY <1>1, <1>4, GotoTask
<1>6. FillsOK(t)'
  <2>1. t \in Datums /\ ~revived =>
           \A j \in r.todo : \A c \in j : j \in stored_joins(c) \cup installed_joins(c)
    BY <1>1, <1>3, <1>4 DEF UseOK, FillsOK
  <2>2. \A j \in r.todo : \A c \in j : c \in Channels
    BY <1>1, <1>4, Constants DEF Tasks
  <2>3. QED BY <2>1, <2>2, <1>2, <1>3, <1>4, <1>5 DEF FillsOK, installed_joins
<1>7. CASE ~revived
  <2>1. \A c \in Channels : get_data(c)' = get_data(c)
    BY <1>1, <1>2, <1>3, <1>7 DEF UseOK, FillsOK
  <2>2. revived' \in BOOLEAN
    BY <1>3 DEF UInv, Counted
  <2>3. QED
    BY <2>1, <2>2, <1>2, <1>3, <1>4, <1>5, <1>6, QuietUse
<1>8. CASE revived
  <2>1. Counted /\ ContsOnce /\ UsedOK
    BY DEF UInv
  <2>2. ASSUME NEW x \in Linear, InStore(x)' PROVE InStore(x)
    <3>1. CASE x \in Datums
      BY <3>1, <2>2, <1>2, Constants DEF InStore
    <3>2. CASE x \notin Datums
      <4>1. x \in Conts
        BY <3>2 DEF Linear
      <4>2. QED BY <3>2, <4>1, <2>2, <1>2, Constants DEF InStore
    <3>3. QED BY <3>1, <3>2
  <2>3. UseInterference(t)
    BY <1>2, <1>3, <1>8 DEF UseInterference
  <2>4. Counted' /\ ContsOnce'
    BY <2>1, <1>2, <1>3 DEF Counted, ContsOnce
  <2>5. UsedOK'
    <3>1. \A x : x \in Leaving' <=> x \in Leaving
      BY <1>2, <1>4, <1>5, LeavingMembers, NextLeavingMembers DEF Interference
    <3>2. QED BY <3>1, <2>1, <2>2, <1>3 DEF UsedOK
  <2>6. JoinsAgree'
    BY <1>3, <1>8 DEF JoinsAgree
  <2>7. UseOK(t)'
    <3>1. Unused(t)'
      BY <1>1, <1>2, <1>3, <1>4, <1>5, Constants DEF UseOK, Unused
    <3>2. KeptOK(t)' /\ ChangeOK(t)'
      BY <1>3, <1>4, <1>5, <1>8 DEF KeptOK, ChangeOK
    <3>3. QED BY <3>1, <3>2, <1>6 DEF UseOK
  <2>8. QED
    BY <2>3, <2>4, <2>5, <2>6, <2>7, <1>2, UseStep
<1>9. QED BY <1>7, <1>8

-----------------------------------------------------------------------------
(* Steps that store. *)

(* Storing a datum: it was in no match. *)
LEMMA StoreDataUse ==
    ASSUME IInv, UInv, NEW d \in Calls, d \in Datums, store_data(d)
    PROVE  UInv'
<1>1. /\ Typed /\ task[d] \in Tasks /\ UseOK(d) /\ Channel[d] \in Channels
      /\ Counted /\ ContsOnce /\ UsedOK
  BY Constants DEF IInv, Typed, UInv
<1>2. /\ Interference(d)
      /\ Range(get_data(Channel[d])') = Range(get_data(Channel[d])) \cup {d}
      /\ \A b \in Channels : b # Channel[d] => get_data(b)' = get_data(b)
      /\ \A b : stored_joins(b)' = stored_joins(b)
      /\ \A j : stored_continuations(j)' = stored_continuations(j)
  BY StoreDataStep
<1>3. task[d].pc = "store" /\ taken' = taken /\ revived' = revived
  BY DEF store_data, At
<1>4. PICK r : Goto(d, r) /\ r.cands = task[d].cands /\ r.pc = "return"
  BY <1>1 DEF store_data, Tasks
<1>5. task'[d] = r
  BY <1>1, <1>4, GotoTask
<1>6. ASSUME NEW x \in Linear PROVE InStore(x)' <=> InStore(x) \/ x = d
  <2>1. CASE x \in Datums
    BY <2>1, <1>2, Constants DEF InStore
  <2>2. CASE x \notin Datums
    BY <2>2, <1>2 DEF InStore
  <2>3. QED BY <2>1, <2>2
<1>7. UseInterference(d)
  BY <1>2, <1>3, <1>6 DEF UseInterference, Kept
<1>8. Counted' /\ ContsOnce'
  BY <1>1, <1>2, <1>3 DEF Counted, ContsOnce
<1>9. UsedOK'
  <2>1. \A x : x \in Leaving' <=> x \in Leaving
    BY <1>2, <1>4, <1>5, LeavingMembers, NextLeavingMembers DEF Interference
  <2>2. d \in Linear => taken[d] = 0
    BY <1>1, <1>3 DEF UseOK, Unused
  <2>3. QED BY <2>1, <2>2, <1>1, <1>3, <1>6 DEF UsedOK
<1>10. JoinsAgree'
  <2>1. \A g : ~Changing(d, g)
    BY <1>3 DEF Changing
  <2>2. QED BY <2>1, <1>2, <1>3, KeepsAgree
<1>11. UseOK(d)'
  <2>1. Unused(d)' /\ FillsOK(d)' /\ ChangeOK(d)'
    BY <1>4, <1>5 DEF Unused, FillsOK, ChangeOK
  <2>2. KeptOK(d)'
    BY <1>4, <1>5, <1>6 DEF KeptOK, Kept
  <2>3. QED BY <2>1, <2>2 DEF UseOK
<1>12. QED
  BY <1>2, <1>7, <1>8, <1>9, <1>10, <1>11, UseStep

(* Storing a continuation: it was not stored, and in no match. *)
LEMMA PutContinuationUse ==
    ASSUME IInv, UInv, NEW k \in Calls, k \in Conts, put_continuation(k)
    PROVE  UInv'
<1>1. /\ Typed /\ task[k] \in Tasks /\ UseOK(k) /\ Counted /\ ContsOnce /\ UsedOK
      /\ k \notin Datums
  BY Constants DEF IInv, Typed, UInv
<1>2. PICK g \in Groups : g = Group[k]
  BY Constants
<1>3. /\ Interference(k)
      /\ \A b : get_data(b)' = get_data(b) /\ stored_joins(b)' = stored_joins(b)
      /\ stored_continuations(g)' = <<k>> \o stored_continuations(g)
      /\ \A j \in Groups : j # g => stored_continuations(j)' = stored_continuations(j)
  BY <1>2, PutContinuationStep
<1>4. task[k].pc = "store" /\ taken' = taken /\ revived' = revived
  BY DEF put_continuation, At
<1>5. PICK r : Goto(k, r) /\ r.cands = task[k].cands /\ r.pc = "putJoin" /\ r.want = g
  <2> DEFINE r == [task[k] EXCEPT !.pc = "putJoin", !.want = g]
  <2>1. Goto(k, r)
    BY <1>2 DEF put_continuation
  <2>2. r.cands = task[k].cands /\ r.pc = "putJoin" /\ r.want = g
    BY <1>1 DEF Tasks
  <2> HIDE DEF r
  <2>3. QED BY <2>1, <2>2
<1>6. task'[k] = r
  BY <1>1, <1>5, GotoTask
<1>7. /\ Range(stored_continuations(g)') = Range(stored_continuations(g)) \cup {k}
      /\ IsInjective(stored_continuations(g)')
  <2>1. k \notin Range(stored_continuations(g)) /\ IsInjective(stored_continuations(g))
    BY <1>1, <1>2, <1>4 DEF UseOK, Unused, ContsOnce
  <2>2. stored_continuations(g) \in Seq(Conts)
    BY <1>1, StoreTypes
  <2>3. QED BY <2>1, <2>2, <1>3, ConsLists
<1>8. ASSUME NEW x \in Linear PROVE InStore(x)' <=> InStore(x) \/ x = k
  <2>1. CASE x \in Datums
    BY <2>1, <1>1, <1>3 DEF InStore
  <2>2. CASE x \notin Datums
    <3>1. x \in Conts /\ Group[x] \in Groups
      BY <2>2, Constants DEF Linear
    <3>2. CASE Group[x] = g
      BY <2>2, <3>2, <1>7 DEF InStore
    <3>3. CASE Group[x] # g
      BY <2>2, <3>1, <3>3, <1>2, <1>3 DEF InStore
    <3>4. QED BY <3>2, <3>3
  <2>3. QED BY <2>1, <2>2
<1>9. UseInterference(k)
  <2>1. \A j \in Groups :
           Range(stored_continuations(j)') \subseteq Range(stored_continuations(j)) \cup {k}
    BY <1>3, <1>7
  <2>2. QED BY <2>1, <1>3, <1>4, <1>8 DEF UseInterference, Kept
<1>10. Counted' /\ ContsOnce'
  BY <1>1, <1>3, <1>4, <1>7 DEF Counted, ContsOnce
<1>11. UsedOK'
  <2>1. \A x : x \in Leaving' <=> x \in Leaving
    BY <1>3, <1>5, <1>6, LeavingMembers, NextLeavingMembers DEF Interference
  <2>2. k \in Linear => taken[k] = 0
    BY <1>1, <1>4 DEF UseOK, Unused
  <2>3. QED BY <2>1, <2>2, <1>1, <1>4, <1>8 DEF UsedOK
<1>12. JoinsAgree'
  <2>1. \A j : ~Changing(k, j)
    BY <1>1, <1>4 DEF Changing
  <2>2. QED BY <2>1, <1>3, <1>4, KeepsAgree
<1>13. UseOK(k)'
  <2>1. Unused(k)' /\ FillsOK(k)'
    BY <1>5, <1>6 DEF Unused, FillsOK
  <2>2. KeptOK(k)'
    BY <1>5, <1>6, <1>8 DEF KeptOK, Kept
  <2>3. ChangeOK(k)'
    BY <1>1, <1>2, <1>5, <1>6 DEF ChangeOK
  <2>4. QED BY <2>1, <2>2, <2>3 DEF UseOK
<1>14. QED
  BY <1>3, <1>9, <1>10, <1>11, <1>12, <1>13, UseStep

(* A join is put on a channel: after the last one all channels have it. *)
LEMMA PutJoinUse ==
    ASSUME IInv, UInv, NEW k \in Calls, k \in Conts, NEW c \in Group[k], PutJoin(k, c)
    PROVE  UInv'
<1>1. /\ Typed /\ task[k] \in Tasks /\ UseOK(k) /\ Counted /\ ContsOnce /\ UsedOK
      /\ JoinsAgree /\ k \notin Datums
  BY Constants DEF IInv, Typed, UInv
<1>2. PICK g \in Groups : g = Group[k]
  BY Constants
<1>3. /\ Interference(k)
      /\ \A b : get_data(b)' = get_data(b)
      /\ \A j : stored_continuations(j)' = stored_continuations(j)
      /\ stored_joins(c)' = stored_joins(c) \cup {g}
      /\ \A b \in Channels : b # c => stored_joins(b)' = stored_joins(b)
  BY <1>2, PutJoinStep
<1>4. task[k].pc = "putJoin" /\ taken' = taken /\ revived' = revived
  BY DEF PutJoin, At
<1>5. PICK rest : rest = task[k].want \ {c}
  OBVIOUS
<1>6. PICK r : /\ Goto(k, r) /\ r.cands = task[k].cands /\ r.want = rest
               /\ r.pc = IF rest = {} THEN "return" ELSE "putJoin"
  <2> DEFINE r == [task[k] EXCEPT !.pc = IF rest = {} THEN "return" ELSE "putJoin", !.want = rest]
  <2>1. Goto(k, r)
    BY <1>5 DEF PutJoin
  <2>2. /\ r.cands = task[k].cands /\ r.want = rest
        /\ r.pc = IF rest = {} THEN "return" ELSE "putJoin"
    BY <1>1 DEF Tasks
  <2> HIDE DEF r
  <2>3. QED BY <2>1, <2>2
<1>7. task'[k] = r
  BY <1>1, <1>6, GotoTask
<1>8. \A x \in Linear : Kept(x)' <=> Kept(x)
  <2>1. \A x \in Linear : InStore(x)' <=> InStore(x)
    BY <1>3, SameStore
  <2>2. QED BY <2>1, <1>4 DEF Kept
<1>9. UseInterference(k)
  BY <1>2, <1>3, <1>4, <1>8 DEF UseInterference
<1>10. Counted' /\ ContsOnce'
  BY <1>1, <1>3, <1>4 DEF Counted, ContsOnce
<1>11. UsedOK'
  <2>1. \A x : x \in Leaving' <=> x \in Leaving
    BY <1>3, <1>6, <1>7, LeavingMembers, NextLeavingMembers DEF Interference
  <2>2. \A x \in Linear : InStore(x)' <=> InStore(x)
    BY <1>3, SameStore
  <2>3. QED BY <2>1, <2>2, <1>1, <1>4 DEF UsedOK
<1>12. \A b \in g \ rest : g \in stored_joins(b)'
  <2>1. \A b \in g \ task[k].want : g \in stored_joins(b)
    BY <1>1, <1>2, <1>4 DEF UseOK, ChangeOK
  <2>2. g \subseteq Channels
    BY Constants
  <2>3. QED BY <2>1, <2>2, <1>3, <1>5
<1>13. JoinsAgree'
  <2>1. SUFFICES ASSUME ~revived PROVE JoinsAgree'
    BY <1>4 DEF JoinsAgree
  <2>2. ASSUME NEW b \in Channels, NEW j, j \in stored_joins(b)'
        PROVE  b \in j /\ \A a \in j : j \in stored_joins(a)' \/ \E u \in Calls : Changing(u, j)'
    <3>1. CASE j = g
      <4>1. b \in g
        <5>1. CASE b = c
          BY <5>1, <1>2
        <5>2. CASE b # c
          BY <5>2, <3>1, <2>1, <2>2, <1>1, <1>3 DEF JoinsAgree
        <5>3. QED BY <5>1, <5>2
      <4>2. CASE rest = {}
        BY <3>1, <4>1, <4>2, <1>12
      <4>3. CASE rest # {}
        <5>1. Changing(k, g)'
          BY <4>3, <1>2, <1>6, <1>7 DEF Changing
        <5>2. QED BY <3>1, <4>1, <5>1
      <4>4. QED BY <4>2, <4>3
    <3>2. CASE j # g
      <4>1. j \in stored_joins(b)
        BY <3>2, <2>2, <1>3
      <4>2. b \in j /\ \A a \in j : j \in stored_joins(a) \/ \E u \in Calls : Changing(u, j)
        BY <4>1, <2>1, <1>1 DEF JoinsAgree
      <4>3. ASSUME NEW u \in Calls, Changing(u, j) PROVE Changing(u, j)'
        <5>1. u # k
          BY <4>3, <3>2, <1>1, <1>2 DEF Changing
        <5>2. QED BY <4>3, <5>1, <1>3 DEF Changing, Interference
      <4>4. j \subseteq Channels
        BY <4>1, <1>1, StoreTypes, Constants
      <4>5. \A a \in j : j \in stored_joins(a) => j \in stored_joins(a)'
        BY <4>4, <1>3
      <4>6. QED BY <4>2, <4>3, <4>5
    <3>3. QED BY <3>1, <3>2
  <2>3. QED BY <2>2 DEF JoinsAgree
<1>14. UseOK(k)'
  <2>1. Unused(k)' /\ FillsOK(k)'
    BY <1>6, <1>7 DEF Unused, FillsOK
  <2>2. KeptOK(k)'
    BY <1>1, <1>4, <1>6, <1>7, <1>8 DEF UseOK, KeptOK
  <2>3. ChangeOK(k)'
    BY <1>1, <1>2, <1>6, <1>7, <1>12 DEF ChangeOK
  <2>4. QED BY <2>1, <2>2, <2>3 DEF UseOK
<1>15. QED
  BY <1>3, <1>9, <1>10, <1>11, <1>13, <1>14, UseStep

-----------------------------------------------------------------------------
(* Steps that take. *)

(* A join leaves a channel: after the last one no channel has it, unless a     *)
(* continuation still waits on it.                                             *)
LEMMA RemoveJoinUse ==
    ASSUME IInv, UInv, NEW d \in Calls, d \in Datums, RemoveJoin(d)
    PROVE  UInv'
<1>1. /\ Typed /\ task[d] \in Tasks /\ CallOK(d) /\ UseOK(d) /\ Counted /\ ContsOnce /\ UsedOK
      /\ JoinsAgree
  BY DEF IInv, Typed, UInv
<1>2. task[d].pc = "removeJoin" /\ taken' = taken /\ revived' = revived
  BY DEF RemoveJoin, At
<1>3. PICK g \in Groups : g = task[d].group
  BY <1>1, <1>2 DEF CallOK, Shape
<1>4. PICK gone : gone = IF get_continuations(g) = <<>> THEN {g} ELSE {}
  OBVIOUS
<1>5. PICK c \in g :
         /\ Interference(d)
         /\ \A b : get_data(b)' = get_data(b)
         /\ \A j : stored_continuations(j)' = stored_continuations(j)
         /\ task[d].want = {c}
         /\ stored_joins(c)' = stored_joins(c) \ gone
         /\ \A b \in Channels : b # c => stored_joins(b)' = stored_joins(b)
  BY <1>3, <1>4, RemoveJoinStep
<1>6. PICK r : /\ Goto(d, r) /\ r.cands = task[d].cands /\ r.want = {} /\ r.group = g
               /\ r.pc = IF task[d].cands = {} THEN "return" ELSE "remove"
  <2> DEFINE r == [task[d] EXCEPT !.pc = IF task[d].cands = {} THEN "return" ELSE "remove",
                                  !.want = {}]
  <2>1. Goto(d, r)
    BY DEF RemoveJoin
  <2>2. /\ r.cands = task[d].cands /\ r.want = {} /\ r.group = g
        /\ r.pc = IF task[d].cands = {} THEN "return" ELSE "remove"
    BY <1>1, <1>3 DEF Tasks
  <2> HIDE DEF r
  <2>3. QED BY <2>1, <2>2
<1>7. task'[d] = r
  BY <1>1, <1>6, GotoTask
<1>8. \A x \in Linear : InStore(x)' <=> InStore(x)
  BY <1>5, SameStore
<1>9. UseInterference(d)
  <2>1. gone = {g} \/ gone = {}
    BY <1>4
  <2>2. stored_joins(c)' = stored_joins(c) \/ stored_joins(c)' = stored_joins(c) \ {g}
    BY <2>1, <1>5
  <2>3. QED BY <2>2, <1>2, <1>3, <1>5, <1>8 DEF UseInterference, Kept
<1>10. Counted' /\ ContsOnce'
  BY <1>1, <1>2, <1>5 DEF Counted, ContsOnce
<1>11. UsedOK'
  <2>1. \A x : x \in Leaving' <=> x \in Leaving
    BY <1>5, <1>6, <1>7, LeavingMembers, NextLeavingMembers DEF Interference
  <2>2. QED BY <2>1, <1>1, <1>2, <1>8 DEF UsedOK
<1>12. get_continuations(g)' = get_continuations(g) /\ c \in Channels /\ g \subseteq Channels
  BY <1>5, Constants DEF get_continuations, installed
<1>13. \A x \in task[d].cands : x.channel # c
  BY <1>1, <1>2, <1>5 DEF CallOK, CandsOK
<1>14. PICK pending : pending = {x.channel : x \in task[d].cands}
  OBVIOUS
<1>15. ~revived =>
          IF get_continuations(g) = <<>>
          THEN \A b \in g \ pending : g \notin stored_joins(b)'
          ELSE \A a, b \in g : g \in stored_joins(a)' => g \in stored_joins(b)'
  <2>1. ASSUME ~revived, get_continuations(g) = <<>>, NEW b \in g \ pending
        PROVE  g \notin stored_joins(b)'
    <3>1. CASE b = c
      BY <3>1, <2>1, <1>4, <1>5
    <3>2. CASE b # c
      <4>1. Pending(d) = pending \cup {c}
        BY <1>2, <1>5, <1>14 DEF Pending
      <4>2. g \notin stored_joins(b)
        BY <3>2, <4>1, <2>1, <1>1, <1>2, <1>3 DEF UseOK, ChangeOK
      <4>3. QED BY <3>2, <4>2, <1>5, <1>12
    <3>3. QED BY <3>1, <3>2
  <2>2. ASSUME ~revived, get_continuations(g) # <<>>, NEW a \in g, NEW b \in g,
               g \in stored_joins(a)'
        PROVE  g \in stored_joins(b)'
    <3>1. \A e \in g : stored_joins(e)' = stored_joins(e)
      BY <2>2, <1>4, <1>5, <1>12
    <3>2. QED BY <3>1, <2>2, <1>1, <1>2, <1>3 DEF UseOK, ChangeOK
  <2>3. QED BY <2>1, <2>2
<1>16. JoinsAgree'
  <2>1. SUFFICES ASSUME ~revived PROVE JoinsAgree'
    BY <1>2 DEF JoinsAgree
  <2>2. ASSUME NEW b \in Channels, NEW j, j \in stored_joins(b)'
        PROVE  b \in j /\ \A a \in j : j \in stored_joins(a)' \/ \E u \in Calls : Changing(u, j)'
    <3>1. j \in stored_joins(b)
      BY <2>2, <1>5, <1>12
    <3>2. b \in j /\ \A a \in j : j \in stored_joins(a) \/ \E u \in Calls : Changing(u, j)
      BY <3>1, <2>1, <1>1 DEF JoinsAgree
    <3>3. CASE j = g
      <4>1. CASE task[d].cands = {}
        <5>1. pending = {}
          BY <4>1, <1>14
        <5>2. QED BY <5>1, <3>2, <3>3, <2>1, <2>2, <1>15
      <4>2. CASE task[d].cands # {}
        <5>1. Changing(d, g)'
          BY <4>2, <1>6, <1>7 DEF Changing
        <5>2. QED BY <5>1, <3>2, <3>3
      <4>3. QED BY <4>1, <4>2
    <3>4. CASE j # g
      <4>1. ASSUME NEW u \in Calls, Changing(u, j) PROVE Changing(u, j)'
        <5>1. u # d
          BY <4>1, <3>4, <1>1, <1>2, <1>3, Constants DEF Changing
        <5>2. QED BY <4>1, <5>1, <1>5 DEF Changing, Interference
      <4>2. j \subseteq Channels
        BY <3>1, <1>1, StoreTypes, Constants
      <4>3. \A a \in j : j \in stored_joins(a) => j \in stored_joins(a)'
        BY <3>4, <4>2, <1>4, <1>5
      <4>4. QED BY <3>2, <4>1, <4>3
    <3>5. QED BY <3>3, <3>4
  <2>3. QED BY <2>2 DEF JoinsAgree
<1>17. UseOK(d)'
  <2>1. Unused(d)' /\ FillsOK(d)'
    BY <1>6, <1>7 DEF Unused, FillsOK
  <2>2. KeptOK(d)'
    BY <1>1, <1>2, <1>6, <1>7 DEF UseOK, KeptOK, Kept
  <2>3. ChangeOK(d)'
    <3>1. r.pc = "remove" => Pending(d)' = pending
      BY <1>6, <1>7, <1>14 DEF Pending
    <3>2. d \notin Conts
      BY Constants
    <3>3. QED BY <3>1, <3>2, <1>2, <1>6, <1>7, <1>12, <1>15 DEF ChangeOK
  <2>4. QED BY <2>1, <2>2, <2>3 DEF UseOK
<1>18. QED
  BY <1>5, <1>9, <1>10, <1>11, <1>16, <1>17, UseStep

(* A datum that is leaving is stored, under the channel of the candidate, and  *)
(* the call that matched it holds phase B there.                               *)
LEMMA LeavingHeld ==
    ASSUME IInv, NEW u \in Calls, NEW y \in task[u].cands, y.index > 0
    PROVE  /\ y.datum \in Datums /\ y.channel = Channel[y.datum] /\ InStore(y.datum)
           /\ lockB[Channel[y.datum]] = u
<1>1. Typed /\ CallOK(u) /\ DataOK /\ y \in Candidates
  BY DEF IInv, Typed, Tasks
<1>2. task[u].pc \in {"remove", "removeJoin"}
  BY <1>1 DEF CallOK, Shape
<1>3. PICK c \in Channels : c = y.channel
  BY <1>1 DEF Candidates
<1>4. y.datum \in Datums
  BY <1>1 DEF Candidates
<1>5. /\ y.index \in DOMAIN get_data(c) /\ get_data(c)[y.index] = y.datum
      /\ c \in task[u].group /\ lockB[c] = u
  BY <1>1, <1>2, <1>3 DEF CallOK, CandsOK, LocksGroup
<1>6. y.datum \in Range(get_data(c))
  BY <1>5 DEF Range
<1>7. Channel[y.datum] = c
  BY <1>1, <1>6 DEF DataOK
<1>8. QED
  BY <1>3, <1>4, <1>5, <1>6, <1>7 DEF InStore

(* A matched datum leaves the store, and only that. *)
LEMMA RemoveDatumUse ==
    ASSUME IInv, UInv, NEW t \in Calls, NEW x \in task[t].cands, RemoveDatum(t, x)
    PROVE  UInv'
<1>1. /\ Typed /\ task[t] \in Tasks /\ CallOK(t) /\ UseOK(t) /\ Counted /\ ContsOnce /\ UsedOK
      /\ x \in Candidates
  BY DEF IInv, Typed, Tasks, UInv
<1>2. /\ task[t].pc = "remove" /\ taken' = taken /\ revived' = revived /\ history' = history
      /\ hotData' = IF x.index > 0 /\ x.datum \notin Persistent
                    THEN [hotData EXCEPT ![x.channel] = remove_at(get_data(x.channel), x.index)]
                    ELSE hotData
      /\ hotConts' = hotConts /\ hotJoins' = hotJoins
  BY DEF RemoveDatum, At
<1>3. Interference(t)
  BY RemoveDatumStep
<1>4. /\ x.index > 0 /\ x.datum \notin Persistent =>
            \A c \in Channels : Range(get_data(c)') = Range(get_data(c)) \ {x.datum}
      /\ ~(x.index > 0 /\ x.datum \notin Persistent) => \A c : get_data(c)' = get_data(c)
  BY <1>2, RemoveDatumStore
<1>5. /\ \A c : stored_joins(c)' = stored_joins(c)
      /\ \A j : stored_continuations(j)' = stored_continuations(j)
  BY <1>2 DEF stored_joins, stored_continuations
<1>6. PICK rest : rest = task[t].cands \ {x}
  OBVIOUS
<1>7. PICK r : /\ Goto(t, r) /\ r.cands = rest /\ r.group = task[t].group
               /\ IF t \in Datums THEN r.pc = "removeJoin" /\ r.want = {x.channel}
                  ELSE r.pc = IF rest = {} THEN "return" ELSE "remove"
  <2>1. CASE t \in Datums
    <3> DEFINE r == [task[t] EXCEPT !.pc = "removeJoin", !.want = {x.channel}, !.cands = rest]
    <3>1. Goto(t, r)
      BY <2>1, <1>6 DEF RemoveDatum
    <3>2. /\ r.cands = rest /\ r.group = task[t].group
          /\ r.pc = "removeJoin" /\ r.want = {x.channel}
      BY <1>1 DEF Tasks
    <3> HIDE DEF r
    <3>3. QED BY <2>1, <3>1, <3>2
  <2>2. CASE t \notin Datums
    <3> DEFINE r == [task[t] EXCEPT !.pc = IF rest = {} THEN "return" ELSE "remove", !.cands = rest]
    <3>1. Goto(t, r)
      BY <2>2, <1>6 DEF RemoveDatum
    <3>2. /\ r.cands = rest /\ r.group = task[t].group
          /\ r.pc = IF rest = {} THEN "return" ELSE "remove"
      BY <1>1 DEF Tasks
    <3> HIDE DEF r
    <3>3. QED BY <2>2, <3>1, <3>2
  <2>3. QED BY <2>1, <2>2
<1>8. task'[t] = r
  BY <1>1, <1>7, GotoTask
<1>9. ASSUME NEW z \in Linear
      PROVE  InStore(z)' <=> InStore(z) /\ ~(x.index > 0 /\ z = x.datum)
  <2>1. CASE z \in Datums
    <3>1. z \notin Persistent /\ Channel[z] \in Channels
      BY <2>1, Constants DEF Linear
    <3>2. CASE x.index > 0 /\ x.datum \notin Persistent
      BY <2>1, <3>1, <3>2, <1>4 DEF InStore
    <3>3. CASE ~(x.index > 0 /\ x.datum \notin Persistent)
      BY <2>1, <3>1, <3>3, <1>4 DEF InStore
    <3>4. QED BY <3>2, <3>3
  <2>2. CASE z \notin Datums
    <3>1. z # x.datum
      BY <2>2, <1>1 DEF Candidates
    <3>2. QED BY <2>2, <3>1, <1>5 DEF InStore
  <2>3. QED BY <2>1, <2>2
<1>10. x.index > 0 => x.datum \in Leaving
  BY LeavingMembers
<1>11. ASSUME NEW z PROVE /\ z \in Leaving' => z \in Leaving
                          /\ z \in Leaving /\ z # x.datum => z \in Leaving'
  <2>1. z \in Leaving' => z \in Leaving
    BY <1>3, <1>6, <1>7, <1>8, LeavingMembers, NextLeavingMembers DEF Interference
  <2>2. z \in Leaving /\ z # x.datum => z \in Leaving'
    BY <1>3, <1>6, <1>7, <1>8, LeavingMembers, NextLeavingMembers DEF Interference
  <2>3. QED BY <2>1, <2>2
<1>12. UseInterference(t)
  <2>1. ASSUME NEW z \in Linear, Kept(z) PROVE Kept(z)'
    <3>1. CASE x.index > 0 /\ z = x.datum
      BY <3>1, <1>1, <1>2, <1>10 DEF UsedOK, Kept
    <3>2. CASE ~(x.index > 0 /\ z = x.datum)
      BY <3>2, <2>1, <1>2, <1>9 DEF Kept
    <3>3. QED BY <3>1, <3>2
  <2>2. QED BY <2>1, <1>2, <1>5 DEF UseInterference
<1>13. Counted' /\ ContsOnce'
  BY <1>1, <1>2, <1>5 DEF Counted, ContsOnce
<1>14. UsedOK'
  <2>1. ASSUME NEW z \in Linear, taken[z] = 1, InStore(z)' PROVE z \in Leaving'
    <3>1. z \in Leaving /\ InStore(z) /\ ~(x.index > 0 /\ z = x.datum)
      BY <2>1, <1>1, <1>9 DEF UsedOK
    <3>2. PICK u \in Calls : \E y \in task[u].cands : y.index > 0 /\ y.datum = z
      BY <3>1, LeavingMembers
    <3>3. PICK y \in task[u].cands : y.index > 0 /\ y.datum = z
      BY <3>2
    <3>4. y \in task'[u].cands
      BY <3>1, <3>3, <1>3, <1>6, <1>7, <1>8 DEF Interference
    <3>5. QED BY <3>3, <3>4, NextLeavingMembers
  <2>2. QED BY <2>1, <1>1, <1>2, <1>11 DEF UsedOK
<1>15. JoinsAgree'
  <2>1. \A g : Changing(t, g) => Changing(t, g)'
    BY <1>2, <1>7, <1>8 DEF Changing
  <2>2. QED BY <2>1, <1>2, <1>3, <1>5, KeepsAgree
<1>16. UseOK(t)'
  <2>1. Unused(t)' /\ FillsOK(t)'
    BY <1>7, <1>8 DEF Unused, FillsOK
  <2>2. KeptOK(t)'
    BY <1>1, <1>2, <1>7, <1>8 DEF UseOK, KeptOK, Kept
  <2>3. ChangeOK(t)'
    <3>1. t \in Datums => Pending(t)' = Pending(t)
      BY <1>2, <1>6, <1>7, <1>8 DEF Pending
    <3>2. PICK g : g = task[t].group
      OBVIOUS
    <3>3. get_continuations(g)' = get_continuations(g)
      BY <1>5 DEF get_continuations, installed
    <3>4. ~revived /\ t \in Datums =>
             IF get_continuations(g) = <<>>
             THEN \A c \in g \ Pending(t) : g \notin stored_joins(c)
             ELSE \A b, c \in g : g \in stored_joins(b) => g \in stored_joins(c)
      BY <3>2, <1>1, <1>2 DEF UseOK, ChangeOK
    <3>5. t \in Conts => r.pc # "putJoin"
      BY <1>7
    <3>6. QED BY <3>1, <3>2, <3>3, <3>4, <3>5, <1>2, <1>5, <1>7, <1>8 DEF ChangeOK
  <2>4. QED BY <2>1, <2>2, <2>3 DEF UseOK
<1>17. QED
  BY <1>3, <1>12, <1>13, <1>14, <1>15, <1>16, UseStep

(* What a match of t takes: of a produce, a continuation that waits on the     *)
(* join; of a consume, its own.  Every candidate is a datum in the store that  *)
(* nobody else has matched, or the produce's own.                              *)
LEMMA MatchTakes ==
    ASSUME IInv, NEW t \in Calls, task[t].pc = "match",
           NEW i \in DOMAIN task[t].seen.conts, NEW k, k = task[t].seen.conts[i],
           NEW cands \in extract_data_candidates(t, k)
    PROVE  /\ t \in Datums => k \in Waiting /\ Group[k] = task[t].group
           /\ t \in Conts => k = t
           /\ \A y \in cands :
                 /\ y \in Candidates
                 /\ y.index = 0 => t \in Datums /\ y.datum = t
                 /\ y.index > 0 => InStore(y.datum) /\ y.datum \notin Leaving
           /\ {y.channel : y \in cands} = task[t].group
           /\ t \in Datums => \E y \in cands : y.datum = t
<1>1. Typed /\ CallOK(t) /\ DataOK /\ ContsOK /\ NoMatchMissed
  BY DEF IInv
<1>2. PICK g \in Groups : g = task[t].group
  BY <1>1 DEF CallOK, Shape
<1>3. /\ g \subseteq Channels /\ \A c \in g : lockB[c] = t
      /\ \A c \in g : task[t].seen.data[c] = get_data(c)
      /\ task[t].seen.conts = IF t \in Datums THEN get_continuations(g) ELSE <<t>>
      /\ \A c \in g : get_data(c) \in Seq(Datums)
  <2>1. g \subseteq Channels /\ \A c \in g : lockB[c] = t
    BY <1>1, <1>2, Constants DEF CallOK, LocksGroup
  <2>2. task[t].seen.conts # <<>>
    OBVIOUS
  <2>3. QED BY <1>1, <1>2, <2>1, <2>2, StoreTypes DEF CallOK, SeenOK
<1>4. ASSUME t \in Datums PROVE k \in Waiting /\ Group[k] = g
  <2>1. /\ get_continuations(g) \in Seq(Conts) /\ i \in DOMAIN get_continuations(g)
        /\ get_continuations(g)[i] = k
    BY <1>4, <1>1, <1>3, ContinuationsListed
  <2>2. k \in Range(get_continuations(g))
    BY <2>1 DEF Range
  <2>3. QED BY <2>2, <1>1, ContinuationsListed
<1>5. ASSUME t \in Conts PROVE k = t
  <2>1. task[t].seen.conts = <<t>>
    BY <1>3, <1>5, Constants
  <2>2. i = 1
    BY <2>1
  <2>3. QED BY <2>1, <2>2
<1>6. PICK f : /\ cands = {f[c] : c \in g}
               /\ \A c \in g : f[c] \in data_candidates(t, k, c)
  BY <1>2, ExtractShape
<1>7. \A c \in g : /\ f[c] \in Candidates /\ f[c].channel = c /\ f[c].datum \in Accepts[k]
                   /\ f[c].index > 0 => /\ f[c].index \in DOMAIN get_data(c)
                                        /\ get_data(c)[f[c].index] = f[c].datum
                   /\ f[c].index = 0 => t \in Datums /\ f[c].datum = t
  BY <1>3, <1>6, CandidateShape
<1>8. ASSUME NEW c \in g, NEW x \in Range(get_data(c)) PROVE x \notin Leaving
  <2>1. Channel[x] = c /\ c \in Channels
    BY <1>1, <1>3, <1>8 DEF DataOK
  <2>2. ASSUME x \in Leaving PROVE FALSE
    <3>1. PICK u \in Calls : \E y \in task[u].cands : y.index > 0 /\ y.datum = x
      BY <2>2, LeavingMembers
    <3>2. PICK y \in task[u].cands : y.index > 0 /\ y.datum = x
      BY <3>1
    <3>3. lockB[c] = u
      BY <2>1, <3>2, LeavingHeld
    <3>4. u = t
      BY <3>3, <1>3
    <3>5. QED BY <3>2, <3>4, <1>1 DEF CallOK, Shape
  <2>3. QED BY <2>2
<1>9. ASSUME NEW c \in g, f[c].index > 0
      PROVE  f[c].datum \in Range(get_data(c)) /\ InStore(f[c].datum)
  <2>1. f[c].datum \in Range(get_data(c))
    BY <1>7, <1>9 DEF Range
  <2>2. Channel[f[c].datum] = c /\ f[c].datum \in Datums
    BY <2>1, <1>1, <1>3, <1>7 DEF DataOK, Candidates
  <2>3. QED BY <2>1, <2>2 DEF InStore
<1>10. {y.channel : y \in cands} = g
  BY <1>6, <1>7
<1>11. ASSUME t \in Datums PROVE \E y \in cands : y.datum = t
  <2>1. PICK c \in g : \A x \in Range(get_data(c)) \cap Accepts[k] : x \in Leaving \ Persistent
    BY <1>1, <1>4, <1>11 DEF NoMatchMissed
  <2>2. ~(f[c].index > 0)
    BY <2>1, <1>7, <1>8, <1>9
  <2>3. f[c].index = 0
    BY <2>2, <1>7 DEF Candidates
  <2>4. QED BY <2>3, <1>6, <1>7
<1>12. ASSUME NEW y \in cands
       PROVE  /\ y \in Candidates
              /\ y.index = 0 => t \in Datums /\ y.datum = t
              /\ y.index > 0 => InStore(y.datum) /\ y.datum \notin Leaving
  <2>1. PICK c \in g : y = f[c]
    BY <1>6
  <2>2. QED BY <2>1, <1>7, <1>8, <1>9
<1>13. QED
  BY <1>2, <1>4, <1>5, <1>10, <1>11, <1>12

(* A match uses what has not been used, the call's own datum or continuation   *)
(* among it.                                                                   *)
LEMMA MatchFoundUse ==
    ASSUME IInv, UInv, NEW t \in Calls, MatchFound(t)
    PROVE  UInv'
<1>1. /\ Typed /\ task[t] \in Tasks /\ CallOK(t) /\ UseOK(t) /\ Counted /\ ContsOnce /\ UsedOK
      /\ JoinsAgree /\ ContsOK
  BY DEF IInv, Typed, UInv
<1>2. /\ task[t].pc = "match" /\ revived' = revived
      /\ UNCHANGED <<hotData, hotJoins, history>>
  BY DEF MatchFound, At
<1>3. PICK i \in DOMAIN task[t].seen.conts :
         \E cands \in extract_data_candidates(t, task[t].seen.conts[i]) :
            /\ Take(task[t].seen.conts[i], cands)
            /\ IF t \in Datums /\ task[t].seen.conts[i] \notin Persistent
               THEN remove_continuation(task[t].group, i)
               ELSE UNCHANGED hotConts
            /\ Goto(t, [task[t] EXCEPT !.pc = "remove", !.cands = cands,
                                       !.seen = NotSeen, !.todo = {}])
  BY DEF MatchFound
<1>4. PICK k : k = task[t].seen.conts[i]
  OBVIOUS
<1>5. PICK cands \in extract_data_candidates(t, k) :
            /\ Take(k, cands)
            /\ IF t \in Datums /\ k \notin Persistent
               THEN remove_continuation(task[t].group, i)
               ELSE UNCHANGED hotConts
            /\ Goto(t, [task[t] EXCEPT !.pc = "remove", !.cands = cands,
                                       !.seen = NotSeen, !.todo = {}])
  BY <1>3, <1>4
<1>6. PICK g \in Groups : g = task[t].group
  BY <1>1, <1>2 DEF CallOK, Shape
<1>7. /\ t \in Datums => k \in Waiting /\ Group[k] = g
      /\ t \in Conts => k = t
      /\ \A y \in cands :
            /\ y \in Candidates
            /\ y.index = 0 => t \in Datums /\ y.datum = t
            /\ y.index > 0 => InStore(y.datum) /\ y.datum \notin Leaving
      /\ {y.channel : y \in cands} = g
      /\ t \in Datums => \E y \in cands : y.datum = t
  BY <1>2, <1>4, <1>5, <1>6, MatchTakes
<1>8. Interference(t)
  BY MatchFoundStep
<1>9. PICK r : Goto(t, r) /\ r.cands = cands /\ r.pc = "remove" /\ r.group = g
  <2> DEFINE r == [task[t] EXCEPT !.pc = "remove", !.cands = cands, !.seen = NotSeen, !.todo = {}]
  <2>1. Goto(t, r)
    BY <1>5
  <2> HIDE DEF NotSeen
  <2>2. r.cands = cands /\ r.pc = "remove" /\ r.group = g
    BY <1>1, <1>6 DEF Tasks
  <2> HIDE DEF r
  <2>3. QED BY <2>1, <2>2
<1>10. task'[t] = r /\ task[t].cands = {}
  BY <1>1, <1>2, <1>9, GotoTask DEF CallOK, Shape
<1>11. /\ \A c : get_data(c)' = get_data(c) /\ stored_joins(c)' = stored_joins(c)
       /\ \A j \in Groups : j # g => stored_continuations(j)' = stored_continuations(j)
       /\ \A j \in Groups :
             Range(stored_continuations(j)') \subseteq Range(stored_continuations(j))
       /\ \A j \in Groups : IsInjective(stored_continuations(j)) =>
             /\ IsInjective(stored_continuations(j)')
             /\ t \in Datums /\ k \notin Persistent /\ j = g =>
                   Range(stored_continuations(j)') = Range(stored_continuations(j)) \ {k}
       /\ ~(t \in Datums /\ k \notin Persistent) =>
             \A j : stored_continuations(j)' = stored_continuations(j)
  BY <1>2, <1>4, <1>5, <1>6, MatchStore
<1>12. k \in Conts
  BY <1>1, <1>7, WaitingMembers, Constants
<1>13. PICK used : used = ({k} \cup {x.datum : x \in cands}) \cap Linear
  OBVIOUS
<1>14. taken' = [x \in Linear |-> IF x \in used THEN taken[x] + 1 ELSE taken[x]]
  BY <1>5, <1>13 DEF Take
<1>15. ~InStore(t)
  <2>1. CASE t \in Datums
    BY <2>1, <1>1, <1>2 DEF InStore, CallOK, Fresh
  <2>2. CASE t \notin Datums
    BY <2>2, <1>1, <1>2, Constants DEF InStore, UseOK, Unused
  <2>3. QED BY <2>1, <2>2
<1>16. ASSUME NEW x \in Linear
       PROVE  InStore(x)' <=> InStore(x) /\ x # k
  <2>1. CASE x \in Datums
    <3>1. x # k
      BY <2>1, <1>12, CallsAssumption
    <3>2. QED BY <2>1, <3>1, <1>11 DEF InStore
  <2>2. CASE x \notin Datums
    <3>1. x \in Conts /\ Group[x] \in Groups /\ x \notin Persistent
      BY <2>2, Constants DEF Linear
    <3>2. CASE t \in Datums /\ k \notin Persistent
      <4>1. Range(stored_continuations(g)') = Range(stored_continuations(g)) \ {k}
        BY <3>2, <1>1, <1>6, <1>11 DEF ContsOnce
      <4>2. CASE Group[x] = g
        BY <2>2, <4>1, <4>2 DEF InStore
      <4>3. CASE Group[x] # g
        BY <2>2, <3>1, <3>2, <4>3, <1>7, <1>11 DEF InStore
      <4>4. QED BY <4>2, <4>3
    <3>3. CASE ~(t \in Datums /\ k \notin Persistent)
      <4>1. InStore(x)' <=> InStore(x)
        BY <2>2, <3>3, <1>11 DEF InStore
      <4>2. x = k => ~InStore(x)
        BY <3>1, <3>3, <1>7, <1>15, Constants
      <4>3. QED BY <4>1, <4>2
    <3>4. QED BY <3>2, <3>3
  <2>3. QED BY <2>1, <2>2
<1>17. ASSUME NEW x \in used PROVE taken[x] = 0 /\ (x = t \/ InStore(x))
  <2>1. x \in Linear
    BY <1>13
  <2>2. t \in Linear => taken[t] = 0
    BY <1>1, <1>2 DEF UseOK, Unused
  <2>3. x = t \/ (InStore(x) /\ x \notin Leaving)
    <3>1. CASE x = k /\ t \in Datums
      <4>1. k \notin Installed
        BY <3>1, <2>1, CallsAssumption DEF Linear
      <4>2. k \in Range(stored_continuations(Group[k]))
        BY <3>1, <4>1, <1>1, <1>7, WaitingMembers
      <4>3. k \notin Datums
        BY <1>12, CallsAssumption
      <4>4. k \notin Leaving
        <5>1. \A u \in Calls : \A y \in task[u].cands : y.index > 0 => y.datum \in Datums
          BY LeavingHeld
        <5>2. QED BY <5>1, <4>3, LeavingMembers
      <4>5. QED BY <3>1, <4>2, <4>3, <4>4 DEF InStore
    <3>2. CASE x = k /\ t \in Conts
      BY <3>2, <1>7
    <3>3. CASE x # k
      <4>1. PICK y \in cands : x = y.datum
        BY <3>3, <1>13
      <4>2. y.index \in Nat
        BY <1>7 DEF Candidates
      <4>3. QED BY <4>1, <4>2, <1>7
    <3>4. QED BY <3>1, <3>2, <3>3, Constants
  <2>4. QED BY <2>1, <2>2, <2>3, <1>1 DEF UsedOK
<1>18. \A x \in Linear : /\ x \in used => taken'[x] = 1
                         /\ x \notin used => taken'[x] = taken[x]
  BY <1>14, <1>17
<1>19. t \in Linear => t \in used
  <2>1. t \in Linear /\ t \in Datums => t \in used
    BY <1>7, <1>13
  <2>2. t \in Linear /\ t \in Conts => t \in used
    BY <1>7, <1>13
  <2>3. QED BY <2>1, <2>2, Constants
<1>20. UseInterference(t)
  <2>1. ASSUME NEW x \in Linear, Kept(x) PROVE Kept(x)'
    <3>1. CASE x \in used
      BY <3>1, <1>18 DEF Kept
    <3>2. CASE x \notin used
      <4>1. x # k
        BY <3>2, <1>13
      <4>2. QED BY <2>1, <3>2, <4>1, <1>16, <1>18 DEF Kept
    <3>3. QED BY <3>1, <3>2
  <2>2. \A x \in Linear : taken'[x] = taken[x] \/ ((x = t \/ InStore(x)) /\ taken'[x] = 1)
    BY <1>17, <1>18
  <2>3. QED BY <2>1, <2>2, <1>2, <1>11 DEF UseInterference
<1>21. Counted' /\ ContsOnce'
  <2>1. taken' \in [Linear -> Int]
    BY <1>1, <1>14 DEF Counted
  <2>2. QED BY <2>1, <1>1, <1>2, <1>11 DEF Counted, ContsOnce
<1>22. UsedOK'
  <2>1. ASSUME NEW x PROVE x \in Leaving' <=> x \in Leaving \/ \E y \in cands : y.index > 0 /\ y.datum = x
    BY <1>8, <1>9, <1>10, LeavingMembers, NextLeavingMembers DEF Interference
  <2>2. ASSUME NEW x \in Linear
        PROVE  /\ taken'[x] \in {0, 1}
               /\ x \in Leaving' => taken'[x] = 1
               /\ taken'[x] = 1 /\ InStore(x)' => x \in Leaving'
    <3>1. taken[x] \in {0, 1} /\ (x \in Leaving => taken[x] = 1)
             /\ (taken[x] = 1 /\ InStore(x) => x \in Leaving)
      BY <1>1 DEF UsedOK
    <3>2. taken'[x] \in {0, 1} /\ (taken[x] = 1 => taken'[x] = 1)
      BY <3>1, <1>18
    <3>3. x \in Leaving' => taken'[x] = 1
      <4>1. (\E y \in cands : y.index > 0 /\ y.datum = x) => x \in used
        BY <1>13
      <4>2. QED BY <4>1, <3>1, <3>2, <2>1, <1>18
    <3>4. ASSUME taken'[x] = 1, InStore(x)' PROVE x \in Leaving'
      <4>1. InStore(x) /\ x # k /\ x # t
        BY <3>4, <1>15, <1>16
      <4>2. CASE x \in used
        <5>1. PICK y \in cands : x = y.datum
          BY <4>1, <4>2, <1>13
        <5>2. y.index > 0
          BY <5>1, <4>1, <1>7 DEF Candidates
        <5>3. QED BY <5>1, <5>2, <2>1
      <4>3. CASE x \notin used
        BY <4>1, <4>3, <3>1, <3>4, <2>1, <1>18
      <4>4. QED BY <4>2, <4>3
    <3>5. QED BY <3>2, <3>3, <3>4
  <2>3. QED BY <2>2 DEF UsedOK
<1>23. \A j : ~Changing(t, j)
  BY <1>2 DEF Changing
<1>24. JoinsAgree'
  BY <1>2, <1>8, <1>11, <1>23, KeepsAgree
<1>25. UseOK(t)'
  <2>1. Unused(t)' /\ FillsOK(t)'
    BY <1>9, <1>10 DEF Unused, FillsOK
  <2>2. KeptOK(t)'
    BY <1>9, <1>10, <1>18, <1>19 DEF KeptOK
  <2>3. ChangeOK(t)'
    <3>1. Pending(t)' = g
      BY <1>7, <1>9, <1>10 DEF Pending
    <3>2. ASSUME ~revived, NEW b \in g, NEW c \in g, g \in stored_joins(b)
          PROVE  g \in stored_joins(c)
      <4>1. g \in stored_joins(c) \/ \E u \in Calls : Changing(u, g)
        BY <3>2, <1>1, Constants DEF JoinsAgree
      <4>2. \A a \in g : lockB[a] = t
        BY <1>1, <1>2, <1>6 DEF CallOK, LocksGroup
      <4>3. \A u \in Calls : Changing(u, g) => u = t
        BY <4>2, OneChanges
      <4>4. QED BY <4>1, <4>3, <1>23
    <3>3. QED BY <3>1, <3>2, <1>2, <1>9, <1>10, <1>11 DEF ChangeOK
  <2>4. QED BY <2>1, <2>2, <2>3 DEF UseOK
<1>26. QED
  BY <1>8, <1>20, <1>21, <1>22, <1>24, <1>25, UseStep

-----------------------------------------------------------------------------
(* The invariant. *)

(* A checkpoint moves the store into the history. *)
LEMMA CheckpointUse ==
    ASSUME IInv, UInv, create_checkpoint
    PROVE  UInv'
<1>1. /\ \A c \in Channels : get_data(c)' = get_data(c)
      /\ \A c \in Channels : stored_joins(c)' = stored_joins(c)
      /\ \A g \in Groups : stored_continuations(g)' = stored_continuations(g)
  BY CheckpointStore DEF IInv
<1>2. /\ \A u \in Calls : task[u].pc \in {"idle", "done"}
      /\ task' = task /\ taken' = taken /\ revived' = revived
  BY DEF create_checkpoint, Quiescent
<1>3. \A x \in Linear : InStore(x)' <=> InStore(x)
  BY <1>1, SameStore
<1>4. Counted' /\ ContsOnce' /\ KeptHistory'
  BY <1>1, <1>2, <1>3 DEF UInv, Counted, ContsOnce, KeptHistory, Kept
<1>5. UsedOK'
  <2>1. Leaving' = Leaving
    BY <1>2 DEF Leaving
  <2>2. QED BY <2>1, <1>2, <1>3 DEF UInv, UsedOK
<1>6. JoinsAgree'
  <2>1. Typed /\ JoinsAgree
    BY DEF IInv, UInv
  <2>2. SUFFICES ASSUME ~revived, NEW b \in Channels, NEW g \in stored_joins(b), NEW c \in g
                 PROVE  b \in g /\ g \in stored_joins(c)'
    <3>1. (\A b \in Channels : \A g \in stored_joins(b) : b \in g) \/ revived
      BY <2>1 DEF JoinsAgree
    <3>2. QED BY <3>1, <1>1, <1>2 DEF JoinsAgree
  <2>3. \A u \in Calls : ~Changing(u, g)
    BY <1>2 DEF Changing
  <2>4. b \in g /\ g \in stored_joins(c)
    BY <2>1, <2>2, <2>3 DEF JoinsAgree
  <2>5. c \in Channels
    BY <2>1, <2>2, StoreTypes, Constants
  <2>6. QED BY <2>4, <2>5, <1>1
<1>7. ASSUME NEW u \in Calls PROVE UseOK(u)'
  <2>1. UseOK(u) /\ task[u].pc \in {"idle", "done"}
    BY <1>2 DEF UInv
  <2>2. Unused(u)'
    BY <2>1, <1>1, <1>2, Constants DEF UseOK, Unused
  <2>3. FillsOK(u)' /\ ChangeOK(u)'
    BY <2>1, <1>2 DEF FillsOK, ChangeOK
  <2>4. KeptOK(u)'
    BY <2>1, <1>2, <1>3 DEF UseOK, KeptOK, Kept
  <2>5. QED BY <2>2, <2>3, <2>4 DEF UseOK
<1>8. QED
  BY <1>4, <1>5, <1>6, <1>7 DEF UInv

(* Nothing is used in the initial state, and the history is in the store. *)
LEMMA InitUse ==
    ASSUME Init
    PROVE  UInv
<1>1. /\ task = [t \in Calls |-> Idle] /\ taken = [x \in Linear |-> 0] /\ revived = FALSE
  BY DEF Init
<1>2. \A u \in Calls : task[u].pc = "idle" /\ task[u].cands = {}
  BY <1>1 DEF Idle
<1>3. Counted /\ ContsOnce
  <2>1. Counted
    <3>1. taken \in [Linear -> Int]
      BY <1>1
    <3>2. revived \in BOOLEAN
      BY <1>1, Zenon
    <3>3. QED BY <3>1, <3>2 DEF Counted
  <2>2. ContsOnce
    BY InitialStore DEF ContsOnce
  <2>3. QED BY <2>1, <2>2
<1>4. UsedOK
  <2>1. \A x : x \notin Leaving
    BY <1>2, LeavingMembers
  <2>2. QED BY <1>1, <2>1 DEF UsedOK
<1>5. ASSUME NEW x \in Linear \cap InHistory PROVE InStore(x)
  <2>1. CASE x \in Datums
    BY <2>1, InitialStore, Constants DEF InStore
  <2>2. CASE x \notin Datums
    <3>1. x \in Conts /\ Group[x] \in Groups
      BY <2>2, Constants DEF Linear
    <3>2. QED BY <2>2, <3>1, InitialStore DEF InStore
  <2>3. QED BY <2>1, <2>2
<1>6. KeptHistory
  BY <1>5 DEF KeptHistory, Kept
<1>7. JoinsAgree
  <2>1. ASSUME NEW b \in Channels, NEW g \in stored_joins(b), NEW c \in g
        PROVE  b \in g /\ g \in stored_joins(c)
    <3>1. PICK k \in Conts \cap InHistory : Group[k] = g /\ b \in g
      BY <2>1, InitialStore
    <3>2. c \in Channels
      BY <3>1, Constants
    <3>3. QED BY <3>1, <3>2, InitialStore
  <2>2. \A b \in Channels : \A g \in stored_joins(b) : b \in g
    BY InitialStore
  <2>3. QED BY <2>1, <2>2 DEF JoinsAgree
<1>8. ASSUME NEW u \in Calls PROVE UseOK(u)
  <2>1. FillsOK(u) /\ KeptOK(u) /\ ChangeOK(u)
    BY <1>2 DEF FillsOK, KeptOK, ChangeOK
  <2>2. u \notin InHistory
    BY DEF Calls
  <2>3. Unused(u)
    BY <2>2, <1>1, InitialStore, Constants DEF Unused
  <2>4. QED BY <2>1, <2>3 DEF UseOK
<1>9. QED
  BY <1>3, <1>4, <1>6, <1>7, <1>8 DEF UInv

(* Every step keeps the invariant. *)
LEMMA NextUse ==
    ASSUME IInv, UInv, [Next]_vars
    PROVE  UInv'
<1>1. CASE UNCHANGED vars
  <2>1. /\ task' = task /\ taken' = taken /\ revived' = revived /\ history' = history
        /\ UNCHANGED <<hotVars, history>>
    BY <1>1 DEF vars, hotVars
  <2>2. /\ \A c : get_data(c)' = get_data(c) /\ stored_joins(c)' = stored_joins(c)
        /\ \A g : stored_continuations(g)' = stored_continuations(g)
        /\ \A g : get_continuations(g)' = get_continuations(g)
    BY <2>1, QuietStore
  <2>3. \A x \in Linear : InStore(x)' <=> InStore(x)
    BY <2>2, SameStore
  <2>4. Counted' /\ ContsOnce' /\ KeptHistory'
    BY <2>1, <2>2, <2>3 DEF UInv, Counted, ContsOnce, KeptHistory, Kept
  <2>5. UsedOK'
    BY <2>1, <2>3 DEF UInv, UsedOK, Leaving
  <2>6. JoinsAgree'
    BY <2>1, <2>2 DEF UInv, JoinsAgree, Changing
  <2>7. ASSUME NEW u \in Calls PROVE UseOK(u)'
    <3>1. UseOK(u)
      BY DEF UInv
    <3>2. Unused(u)' /\ KeptOK(u)'
      BY <3>1, <2>1, <2>2, <2>3 DEF UseOK, Unused, KeptOK, Kept
    <3>3. FillsOK(u)'
      BY <3>1, <2>1, <2>2 DEF UseOK, FillsOK, installed_joins
    <3>4. Pending(u)' = Pending(u)
      BY <2>1 DEF Pending
    <3>5. PICK g : g = task[u].group
      OBVIOUS
    <3>6. get_continuations(g)' = get_continuations(g)
      BY <2>2
    <3>7. ChangeOK(u)'
      BY <3>1, <3>4, <3>5, <3>6, <2>1, <2>2 DEF UseOK, ChangeOK
    <3>8. QED BY <3>2, <3>3, <3>7 DEF UseOK
  <2>8. QED BY <2>4, <2>5, <2>6, <2>7 DEF UInv
<1>2. CASE create_checkpoint
  BY <1>2, CheckpointUse
<1>3. ASSUME NEW t \in Calls, Locking(t) PROVE UInv'
  BY <1>3, AcquireAUse, AcquireBUse DEF Locking
<1>4. ASSUME NEW t \in Calls, Run(t) PROVE UInv'
  <2>1. CASE t \in Conts /\ Consume(t)
    BY <2>1, PutContinuationUse, PutJoinUse DEF Consume
  <2>2. CASE t \in Datums /\ Produce(t)
    BY <2>2, GetJoinsUse, FillJoinsUse, GroupedChannelsUse, RemoveJoinUse, StoreDataUse
       DEF Produce
  <2>3. CASE \E g \in task[t].todo : Fetch(t, g)
    BY <2>3, FetchUse
  <2>4. CASE Fill(t)
    BY <2>4, FillUse
  <2>5. CASE MatchFound(t)
    BY <2>5, MatchFoundUse
  <2>6. CASE NoMatch(t)
    BY <2>6, NoMatchUse
  <2>7. CASE \E x \in task[t].cands : RemoveDatum(t, x)
    BY <2>7, RemoveDatumUse
  <2>8. CASE Return(t)
    BY <2>8, ReturnUse
  <2>9. QED
    BY <1>4, <2>1, <2>2, <2>3, <2>4, <2>5, <2>6, <2>7, <2>8 DEF Run
<1>5. QED
  BY <1>1, <1>2, <1>3, <1>4 DEF Next

(* The number of places of an element in a list without repetition. *)
LEMMA PlacesCounted ==
    ASSUME NEW S, NEW s \in Seq(S), IsInjective(s), NEW x
    PROVE  Cardinality({i \in DOMAIN s : s[i] = x}) = IF x \in Range(s) THEN 1 ELSE 0
<1>1. CASE x \in Range(s)
  <2>1. PICK j \in DOMAIN s : s[j] = x
    BY <1>1 DEF Range
  <2>2. {i \in DOMAIN s : s[i] = x} = {j}
    BY <2>1 DEF IsInjective
  <2>3. QED BY <1>1, <2>2, FS_Singleton
<1>2. CASE x \notin Range(s)
  <2>1. {i \in DOMAIN s : s[i] = x} = {}
    BY <1>2 DEF Range
  <2>2. QED BY <1>2, <2>1, FS_EmptySet
<1>3. QED BY <1>1, <1>2

(* The two invariants imply that each is used once. *)
LEMMA UsedOnce ==
    ASSUME IInv, UInv
    PROVE  EachUsedOnce
<1>1. Typed /\ DataOK /\ ContsOnce /\ UsedOK
  BY DEF IInv, UInv
<1>2. ASSUME NEW x \in Linear
      PROVE  /\ Stored(x) = (IF InStore(x) THEN 1 ELSE 0) - (IF x \in Leaving THEN 1 ELSE 0)
             /\ x \in Leaving => InStore(x)
  <2>1. PICK s : s = IF x \in Datums THEN get_data(Channel[x]) ELSE stored_continuations(Group[x])
    OBVIOUS
  <2>2. Cardinality({i \in DOMAIN s : s[i] = x}) = IF x \in Range(s) THEN 1 ELSE 0
    <3>1. CASE x \in Datums
      <4>1. s \in Seq(Datums) /\ IsInjective(s)
        BY <2>1, <3>1, <1>1, StoreTypes, Constants DEF DataOK
      <4>2. QED BY <4>1, PlacesCounted
    <3>2. CASE x \notin Datums
      <4>1. x \in Conts /\ Group[x] \in Groups
        BY <3>2, Constants DEF Linear
      <4>2. s \in Seq(Conts) /\ IsInjective(s)
        BY <2>1, <3>2, <4>1, <1>1, StoreTypes DEF ContsOnce
      <4>3. QED BY <4>2, PlacesCounted
    <3>3. QED BY <3>1, <3>2
  <2>3. InStore(x) <=> x \in Range(s)
    BY <2>1 DEF InStore
  <2>4. Stored(x) = Cardinality({i \in DOMAIN s : s[i] = x}) - (IF x \in Leaving THEN 1 ELSE 0)
    BY <2>1 DEF Stored
  <2>5. x \in Leaving => InStore(x)
    BY LeavingMembers, LeavingHeld
  <2>6. QED BY <2>2, <2>3, <2>4, <2>5
<1>3. ASSUME NEW x \in Linear \ Installed
      PROVE  /\ Stored(x) >= 0
             /\ taken[x] + Stored(x) <= 1
             /\ Kept(x) => taken[x] + Stored(x) = 1
  <2>1. /\ taken[x] \in {0, 1} /\ (x \in Leaving => taken[x] = 1)
        /\ (taken[x] = 1 /\ InStore(x) => x \in Leaving)
    BY <1>1, <1>3 DEF UsedOK
  <2>2. /\ Stored(x) = (IF InStore(x) THEN 1 ELSE 0) - (IF x \in Leaving THEN 1 ELSE 0)
        /\ x \in Leaving => InStore(x)
    BY <1>2, <1>3
  <2>3. CASE x \in Leaving
    BY <2>1, <2>2, <2>3
  <2>4. CASE x \notin Leaving
    BY <2>1, <2>2, <2>4 DEF Kept
  <2>5. QED BY <2>3, <2>4
<1>4. ASSUME NEW x \in Linear \ Installed, x \in InHistory \/ At(x, "done"), ~revived
      PROVE  Kept(x)
  <2>1. CASE x \in InHistory
    BY <1>4, <2>1 DEF UInv, KeptHistory
  <2>2. CASE x \notin InHistory
    <3>1. x \in Calls /\ task[x].pc = "done"
      BY <1>4, <2>2 DEF Calls, Linear, At
    <3>2. QED BY <1>4, <3>1 DEF UInv, UseOK, KeptOK
  <2>3. QED BY <2>1, <2>2
<1>5. QED
  BY <1>3, <1>4 DEF EachUsedOnce

(* Every datum and every continuation that does not persist is in one match at *)
(* most, never in a match and in the store, and none is lost unless a fill of  *)
(* get_joins has brought a removed join back, whatever calls interleave.       *)
THEOREM EachIsUsedOnce == Spec => []EachUsedOnce
<1>1. Init => IInv /\ UInv
  BY InitIInv, InitUse
<1>2. IInv /\ UInv /\ [Next]_vars => IInv' /\ UInv'
  BY NextIInv, NextUse
<1>3. IInv /\ UInv => EachUsedOnce
  BY UsedOnce
<1>4. QED
  BY <1>1, <1>2, <1>3, PTL DEF Spec
=============================================================================
