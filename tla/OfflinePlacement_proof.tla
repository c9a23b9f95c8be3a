------------------------- MODULE OfflinePlacement_proof -------------------------
(***************************************************************************)
(* The safety of the layout pool, for any number of environments, pool     *)
(* size and number of attempts, whether rollouts or a recording use it,    *)
(* and of what a recording collects, for any target and batch budget.      *)
(***************************************************************************)
EXTENDS OfflinePlacement, FiniteSetTheorems, SequenceTheorems, WellFoundedInduction, TLAPS

Layouts == [seed : Nat, rank : Nat, valid : BOOLEAN]

Queues == [layouts : Seq(Layouts), cursor : Nat]

(* The fixed placements are left out: no later step reads them. *)
TypeOK ==
    /\ allowFallbacks \in BOOLEAN
    /\ pools \in [Envs -> Queues]
    /\ solves \in Nat
    /\ hadFallbacks \in BOOLEAN
    /\ phase \in {"filling", "filled", "ready", "failed", "exhausted"}
    /\ target \in Nat \ {0}
    /\ batch \in Nat
    /\ demand \in Demands \cup {NoDemand}
    /\ drawn \in [Envs -> SUBSET Layouts]

CursorInQueue(pool) == pool.cursor <= Len(pool.layouts)

(* Every layout comes from a solve that was made. *)
FromSolves(e) ==
    /\ \A i \in 1 .. Len(pools[e].layouts) : pools[e].layouts[i].seed < solves
    /\ \A layout \in drawn[e] : layout.seed < solves

(* A queue holds no layout twice, the consumed ones included. *)
NoneStoredTwice(pool) ==
    \A i, j \in 1 .. Len(pool.layouts) : i # j => pool.layouts[i] # pool.layouts[j]

(* What was drawn is behind the cursor, or gone. *)
DrawnBehind(e) ==
    \A i \in pools[e].cursor + 1 .. Len(pools[e].layouts) : pools[e].layouts[i] \notin drawn[e]

QueueSound(e) ==
    /\ CursorInQueue(pools[e])
    /\ FromSolves(e)
    /\ NoneStoredTwice(pools[e])
    /\ DrawnBehind(e)

(* A finished fill reached its target, which is enough for the demand. *)
FillMeetsDemand ==
    /\ phase = "filled" => \A e \in Envs : Available(pools[e]) >= target
    /\ target >= demand.each
    /\ phase # "exhausted"

PoolInv ==
    /\ TypeOK
    /\ \A e \in Envs : QueueSound(e)
    /\ FillMeetsDemand

-----------------------------------------------------------------------------
(* Arithmetic of the fill target. *)
Less == {r \in Nat \X Nat : r[1] < r[2]}

LEMMA MinExists ==
    ASSUME NEW S \in SUBSET Nat, S # {}
    PROVE  Min(S) \in S /\ \A y \in S : Min(S) <= y
<1>1. Less = OpToRel(<, Nat)
    BY DEF Less, OpToRel
<1>2. IsWellFoundedOn(Less, Nat)
    BY <1>1, NatLessThanWellFounded
<1>3. PICK x \in S : \A y \in S : ~ (<<y, x>> \in Less)
    BY <1>2, WFMin
<1>4. ASSUME NEW y \in S PROVE x <= y
    <2>1. x \in Nat /\ y \in Nat
        OBVIOUS
    <2>2. y < x => <<y, x>> \in Less
        BY <2>1 DEF Less
    <2> QED BY <1>3, <2>1, <2>2
<1> QED BY <1>4 DEF Min

LEMMA Rounding ==
    ASSUME NEW n \in Int
    PROVE  /\ (n + NumEnvs - 1) \div NumEnvs \in Int
           /\ n <= ((n + NumEnvs - 1) \div NumEnvs) * NumEnvs
BY PoolAssumption, SMT

LEMMA PerEnvType ==
    ASSUME NEW n \in Int
    PROVE  PerEnv(n) \in Nat \ {0}
BY Rounding DEF PerEnv, AtLeastOne

(* So many for every environment are so many for each. *)
LEMMA PerEnvCovers ==
    ASSUME NEW n \in Nat, NEW each \in Nat, n >= each * NumEnvs
    PROVE  PerEnv(n) >= each
<1> DEFINE q == (n + NumEnvs - 1) \div NumEnvs
<1>1. q \in Int /\ n <= q * NumEnvs
    BY Rounding
<1> HIDE DEF q
<1>2. each * NumEnvs <= q * NumEnvs
    BY <1>1, PoolAssumption
<1>3. each <= q
    BY <1>1, <1>2, PoolAssumption
<1> QED BY <1>1, <1>3 DEF PerEnv, AtLeastOne, q

LEMMA MaxSolveBatchesType == MaxSolveBatches \in Nat \ {0}
BY PoolAssumption DEF MaxSolveBatches, AtLeastOne

LEMMA EnvsFacts == IsFiniteSet(Envs) /\ Cardinality(Envs) = NumEnvs /\ Envs # {}
<1>1. 0 \in Int /\ NumEnvs - 1 \in Int /\ 0 \in Envs
    BY PoolAssumption DEF Envs
<1>2. IsFiniteSet(Envs)
    BY <1>1, FS_Interval DEF Envs
<1>3. Cardinality(Envs) = NumEnvs
    <2> DEFINE last == NumEnvs - 1
    <2>1. last \in Int /\ ~ (0 > last) /\ last - 0 + 1 = NumEnvs
        BY PoolAssumption
    <2>2. Cardinality(0 .. last) = IF 0 > last THEN 0 ELSE last - 0 + 1
        <3> HIDE DEF last
        <3> QED BY <1>1, <2>1, FS_Interval
    <2> QED BY <2>1, <2>2 DEF Envs
<1> QED BY <1>1, <1>2, <1>3

(* The demands: what they ask of a queue is at least one layout, and a     *)
(* fill of the pool's size or their count, if larger, covers it.           *)
LEMMA DemandFacts ==
    ASSUME NEW d \in Demands
    PROVE  /\ d.envs \in SUBSET Envs
           /\ d.each \in Nat \ {0}
           /\ d.count \in Nat
           /\ PerEnv(FillSize(d.count)) >= d.each
           /\ d # NoDemand
<1>1. CASE \E ids \in (SUBSET Envs) \ {{}} : d = ResetOf(ids)
    <2>1. PICK ids \in (SUBSET Envs) \ {{}} : d = ResetOf(ids)
        BY <1>1
    <2>2. Cardinality(ids) \in Nat
        BY EnvsFacts, FS_Subset, FS_CardinalityType
    <2>3. d.envs = ids /\ d.each = 1 /\ d.count = Cardinality(ids)
        BY <2>1 DEF ResetOf
    <2>4. FillSize(d.count) \in Nat
        BY <2>2, <2>3, PoolAssumption DEF FillSize
    <2>5. PerEnv(FillSize(d.count)) >= 1
        BY <2>4, PerEnvType
    <2> QED BY <2>2, <2>3, <2>5 DEF NoDemand
<1>2. CASE \E n \in 1 .. MaxRounds : d = RoundsOf(n)
    <2>1. PICK n \in 1 .. MaxRounds : d = RoundsOf(n)
        BY <1>2
    <2>2. n \in Nat \ {0} /\ n * NumEnvs \in Nat
        BY PoolAssumption
    <2>3. d.envs = Envs /\ d.each = n /\ d.count = n * NumEnvs
        BY <2>1 DEF RoundsOf
    <2>4. FillSize(d.count) \in Nat /\ FillSize(d.count) >= n * NumEnvs
        BY <2>2, <2>3, PoolAssumption DEF FillSize
    <2>5. PerEnv(FillSize(d.count)) >= n
        BY <2>2, <2>4, PerEnvCovers
    <2> QED BY <2>2, <2>3, <2>5, EnvsFacts DEF NoDemand
<1> QED BY <1>1, <1>2 DEF Demands

-----------------------------------------------------------------------------
(* Queues *)
LEMMA QueueFacts ==
    ASSUME TypeOK, NEW e \in Envs, CursorInQueue(pools[e])
    PROVE  /\ pools[e].layouts \in Seq(Layouts)
           /\ pools[e].cursor \in Nat
           /\ Len(pools[e].layouts) \in Nat
           /\ DOMAIN pools[e].layouts = 1 .. Len(pools[e].layouts)
           /\ Available(pools[e]) \in Nat
<1>1. pools[e] \in Queues
    BY DEF TypeOK
<1>2. pools[e].layouts \in Seq(Layouts) /\ pools[e].cursor \in Nat
    BY <1>1 DEF Queues
<1>3. Len(pools[e].layouts) \in Nat /\ DOMAIN pools[e].layouts = 1 .. Len(pools[e].layouts)
    BY <1>2, LenProperties
<1> QED BY <1>2, <1>3 DEF CursorInQueue, Available

LEMMA UnreadFacts ==
    ASSUME TypeOK, NEW e \in Envs, CursorInQueue(pools[e])
    PROVE  /\ Unread(pools[e]) \in Seq(Layouts)
           /\ Len(Unread(pools[e])) = Available(pools[e])
           /\ DOMAIN Unread(pools[e]) = 1 .. Available(pools[e])
           /\ \A i \in 1 .. Available(pools[e]) :
                  /\ pools[e].cursor + i \in 1 .. Len(pools[e].layouts)
                  /\ Unread(pools[e])[i] = pools[e].layouts[pools[e].cursor + i]
<1> DEFINE s == pools[e].layouts
           m == pools[e].cursor + 1
           n == Len(pools[e].layouts)
<1>1. s \in Seq(Layouts) /\ m \in Nat \ {0} /\ n \in Nat /\ m <= n + 1 /\ n = Len(s)
    BY QueueFacts DEF CursorInQueue
<1>2. \A i \in m .. n : s[i] \in Layouts
    BY <1>1, ElementOfSeq
<1>3. /\ SubSeq(s, m, n) \in Seq(Layouts)
      /\ Len(SubSeq(s, m, n)) = IF m <= n THEN n - m + 1 ELSE 0
      /\ \A i \in 1 .. n - m + 1 : SubSeq(s, m, n)[i] = s[m + i - 1]
    <2> HIDE DEF s, m, n
    <2> QED BY <1>1, <1>2, SubSeqProperties
<1>4. DOMAIN SubSeq(s, m, n) = 1 .. Len(SubSeq(s, m, n))
    BY <1>3, LenProperties
<1>5. Unread(pools[e]) = SubSeq(s, m, n) /\ Available(pools[e]) = n - m + 1
    BY QueueFacts DEF Unread, Available
<1>6. Len(Unread(pools[e])) = Available(pools[e])
    BY <1>1, <1>3, <1>5
<1>7. ASSUME NEW i \in 1 .. Available(pools[e])
      PROVE  /\ pools[e].cursor + i \in 1 .. Len(pools[e].layouts)
             /\ Unread(pools[e])[i] = pools[e].layouts[pools[e].cursor + i]
    <2>1. i \in 1 .. n - m + 1 /\ m + i - 1 = pools[e].cursor + i
        BY <1>5, <1>7, QueueFacts
    <2>2. SubSeq(s, m, n)[i] = s[m + i - 1]
        BY <1>3, <2>1
    <2>3. pools[e].cursor + i \in 1 .. n
        <3>1. pools[e].cursor \in Nat /\ n \in Nat /\ Available(pools[e]) = n - pools[e].cursor
            BY QueueFacts DEF Available
        <3> HIDE DEF n
        <3> QED BY <3>1
    <2>4. SubSeq(s, m, n)[i] = s[pools[e].cursor + i]
        BY <2>1, <2>2
    <2> HIDE DEF m, n
    <2> QED BY <1>5, <2>3, <2>4 DEF s, n
<1> QED BY <1>3, <1>4, <1>5, <1>6, <1>7

(* A batch solves for at least one layout of each environment. *)
LEMMA BatchSizeType ==
    ASSUME TypeOK, \A e \in Envs : CursorInQueue(pools[e])
    PROVE  BatchSize \in Nat \ {0}
<1> DEFINE all == {Available(pools[e]) : e \in Envs}
<1>1. all \in SUBSET Nat
    BY QueueFacts
<1>2. all # {}
    BY EnvsFacts
<1>3. Min(all) \in Nat
    <2> HIDE DEF all
    <2> QED BY <1>1, <1>2, MinExists
<1>4. MaxMissing \in Int
    <2> HIDE DEF all
    <2>1. target - Min(all) \in Int
        BY <1>3 DEF TypeOK
    <2> QED BY <2>1 DEF MaxMissing, all
<1>5. MaxMissing * NumEnvs \in Int
    BY <1>4, PoolAssumption
<1> QED BY <1>5, PerEnvType DEF BatchSize

(* What a batch adds to a queue: the first ranks of its own solve. *)
LEMMA StoredFacts ==
    ASSUME TypeOK, \A e \in Envs : CursorInQueue(pools[e]),
           NEW e \in Envs, NEW numValid \in 0 .. BatchSize
    PROVE  /\ Stored(pools[e], numValid) \in Seq(Layouts)
           /\ \A i \in 1 .. Len(Stored(pools[e], numValid)) :
                  /\ Stored(pools[e], numValid)[i].seed = solves
                  /\ Stored(pools[e], numValid)[i].rank = i
<1> DEFINE n == NumStored(pools[e], numValid)
           s == Stored(pools[e], numValid)
<1>1. numValid \in Nat /\ BatchSize \in Nat
    BY BatchSizeType
<1>2. target - Available(pools[e]) \in Int
    BY QueueFacts DEF TypeOK
<1>3. n \in Nat
    BY <1>1, <1>2 DEF NumStored, AtMost
<1>4. \A i \in 1 .. n : /\ LayoutAt(i, numValid) \in Layouts
                        /\ LayoutAt(i, numValid).seed = solves
                        /\ LayoutAt(i, numValid).rank = i
    BY <1>1, <1>3 DEF LayoutAt, Layouts, Seed, TypeOK
<1>5. s = [i \in 1 .. n |-> LayoutAt(i, numValid)]
    BY DEF Stored
<1> HIDE DEF n, s
<1>6. s \in Seq(Layouts) /\ Len(s) = n
    BY <1>3, <1>4, <1>5
<1>7. \A i \in 1 .. Len(s) : s[i].seed = solves /\ s[i].rank = i
    BY <1>4, <1>5, <1>6
<1> QED BY <1>6, <1>7 DEF s

(* Layouts of a new solve keep a queue sound. *)
LEMMA ExtendKeeps ==
    ASSUME TypeOK, NEW e \in Envs, QueueSound(e), NEW added \in Seq(Layouts),
           \A i \in 1 .. Len(added) : added[i].seed = solves /\ added[i].rank = i,
           pools'[e] = Extend(pools[e], added), drawn' = drawn, solves' = solves + 1
    PROVE  /\ pools'[e] \in Queues
           /\ QueueSound(e)'
           /\ Available(pools'[e]) = Available(pools[e]) + Len(added)
<1> DEFINE old == pools[e].layouts
           new == pools'[e].layouts
           cursor == pools[e].cursor
<1>1. /\ old \in Seq(Layouts) /\ cursor \in Nat /\ Len(old) \in Nat /\ cursor <= Len(old)
      /\ solves \in Nat /\ Len(added) \in Nat
    BY QueueFacts, LenProperties DEF QueueSound, CursorInQueue, TypeOK
<1>2. pools'[e] = [layouts |-> old \o added, cursor |-> cursor]
    <2>1. pools[e] \in Queues
        BY DEF TypeOK
    <2> QED BY <2>1 DEF Extend, Queues
<1>3. new = old \o added /\ pools'[e].cursor = cursor
    BY <1>2
<1>4. /\ new \in Seq(Layouts) /\ Len(new) = Len(old) + Len(added)
      /\ \A i \in 1 .. Len(old) : new[i] = old[i]
      /\ \A i \in Len(old) + 1 .. Len(new) : new[i] = added[i - Len(old)]
    <2> HIDE DEF old, new
    <2>1. \A i \in 1 .. Len(old) + Len(added) :
              (old \o added)[i] = IF i <= Len(old) THEN old[i] ELSE added[i - Len(old)]
        BY <1>1, ConcatProperties
    <2>2. old \o added \in Seq(Layouts) /\ Len(old \o added) = Len(old) + Len(added)
        BY <1>1, ConcatProperties
    <2> QED BY <1>1, <1>3, <2>1, <2>2
<1>5. \A i \in 1 .. Len(old) : old[i].seed < solves /\ old[i].seed \in Nat
    <2>1. \A i \in 1 .. Len(old) : old[i] \in Layouts
        BY <1>1, ElementOfSeq
    <2> QED BY <2>1 DEF QueueSound, FromSolves, Layouts
<1>6. \A i \in Len(old) + 1 .. Len(new) : new[i].seed = solves /\ new[i].rank = i - Len(old)
    <2> HIDE DEF old, new
    <2> SUFFICES ASSUME NEW i \in Len(old) + 1 .. Len(new)
                 PROVE  new[i].seed = solves /\ new[i].rank = i - Len(old)
        OBVIOUS
    <2>1. i - Len(old) \in 1 .. Len(added) /\ new[i] = added[i - Len(old)]
        BY <1>1, <1>4
    <2> QED BY <2>1
<1>7. FromSolves(e)'
    <2>1. ASSUME NEW i \in 1 .. Len(new) PROVE new[i].seed < solves + 1
        <3> HIDE DEF old, new
        <3>1. CASE i <= Len(old)
            <4>1. i \in 1 .. Len(old)
                BY <3>1, <1>1
            <4>2. new[i].seed \in Nat /\ new[i].seed < solves
                BY <4>1, <1>4, <1>5
            <4> QED BY <4>2, <1>1
        <3>2. CASE i > Len(old)
            <4>1. new[i].seed = solves
                BY <3>2, <1>1, <1>4, <1>6
            <4> QED BY <4>1, <1>1
        <3> QED BY <1>1, <1>4, <3>1, <3>2
    <2>2. \A layout \in drawn[e] : layout.seed < solves + 1
        <3>1. \A layout \in drawn[e] : layout.seed \in Nat
            <4>1. drawn[e] \in SUBSET Layouts
                BY DEF TypeOK
            <4> QED BY <4>1 DEF Layouts
        <3>2. \A layout \in drawn[e] : layout.seed < solves
            BY DEF QueueSound, FromSolves
        <3> QED BY <1>1, <3>1, <3>2
    <2> QED BY <2>1, <2>2 DEF FromSolves
<1>8. NoneStoredTwice(pools[e])'
    <2> SUFFICES ASSUME NEW i \in 1 .. Len(new), NEW j \in 1 .. Len(new), i < j
                 PROVE  new[i] # new[j]
        <3>1. \A i, j \in 1 .. Len(new) : i # j => i < j \/ j < i
            BY <1>1, <1>4
        <3> QED BY <3>1 DEF NoneStoredTwice
    <2>1. CASE j <= Len(old)
        <3>1. i \in 1 .. Len(old) /\ j \in 1 .. Len(old) /\ i # j
            BY <1>1, <2>1
        <3>2. old[i] # old[j]
            BY <3>1 DEF QueueSound, NoneStoredTwice
        <3> HIDE DEF old, new
        <3> QED BY <1>4, <3>1, <3>2
    <2>2. CASE i <= Len(old) /\ j > Len(old)
        <3> HIDE DEF old, new
        <3>1. new[i].seed < solves /\ new[j].seed = solves
            BY <1>1, <1>4, <1>5, <1>6, <2>2
        <3> QED BY <1>1, <3>1
    <2>3. CASE i > Len(old)
        <3> HIDE DEF old, new
        <3>1. new[i].rank = i - Len(old) /\ new[j].rank = j - Len(old)
            BY <1>1, <1>4, <1>6, <2>3
        <3> QED BY <1>1, <1>4, <3>1
    <2> QED BY <1>1, <1>4, <2>1, <2>2, <2>3
<1>9. DrawnBehind(e)'
    <2> SUFFICES ASSUME NEW i \in cursor + 1 .. Len(new)
                 PROVE  new[i] \notin drawn[e]
        BY <1>3 DEF DrawnBehind
    <2>1. CASE i <= Len(old)
        <3>1. old[i] \notin drawn[e]
            BY <1>1, <2>1 DEF QueueSound, DrawnBehind
        <3> HIDE DEF old, new
        <3> QED BY <1>1, <1>4, <2>1, <3>1
    <2>2. CASE i > Len(old)
        <3>1. new[i].seed = solves
            <4> HIDE DEF old, new
            <4> QED BY <1>1, <1>4, <1>6, <2>2
        <3>2. \A layout \in drawn[e] : layout.seed < solves
            BY DEF QueueSound, FromSolves
        <3> QED BY <1>1, <3>1, <3>2
    <2> HIDE DEF old, new
    <2> QED BY <1>1, <1>4, <2>1, <2>2
<1>10. CursorInQueue(pools[e])'
    BY <1>1, <1>3, <1>4 DEF CursorInQueue
<1>11. pools'[e] \in Queues
    BY <1>1, <1>2, <1>3, <1>4 DEF Queues
<1>12. Available(pools'[e]) = Available(pools[e]) + Len(added)
    BY <1>1, <1>3, <1>4 DEF Available
<1> QED BY <1>7, <1>8, <1>9, <1>10, <1>11, <1>12 DEF QueueSound

(* Consumed layouts are dropped, the others keep their order. *)
LEMMA DiscardKeeps ==
    ASSUME TypeOK, NEW e \in Envs, QueueSound(e),
           pools'[e] = DiscardConsumed(pools[e]), drawn' = drawn, solves' = solves
    PROVE  pools'[e] \in Queues /\ QueueSound(e)'
<1> DEFINE old == pools[e].layouts
           new == pools'[e].layouts
           cursor == pools[e].cursor
           left == Available(pools[e])
<1>1. /\ old \in Seq(Layouts) /\ cursor \in Nat /\ Len(old) \in Nat /\ cursor <= Len(old)
      /\ left \in Nat /\ left = Len(old) - cursor
    BY QueueFacts DEF QueueSound, CursorInQueue, Available
<1>2. new = Unread(pools[e]) /\ pools'[e].cursor = 0 /\ pools'[e] = [layouts |-> new, cursor |-> 0]
    BY DEF DiscardConsumed
<1>3. /\ new \in Seq(Layouts) /\ Len(new) = left
      /\ \A i \in 1 .. left : cursor + i \in 1 .. Len(old) /\ new[i] = old[cursor + i]
    BY <1>2, UnreadFacts DEF QueueSound
<1>4. FromSolves(e)'
    <2>1. \A i \in 1 .. Len(new) : new[i].seed < solves
        BY <1>3 DEF QueueSound, FromSolves
    <2> QED BY <2>1 DEF QueueSound, FromSolves
<1>5. NoneStoredTwice(pools[e])'
    <2> SUFFICES ASSUME NEW i \in 1 .. left, NEW j \in 1 .. left, i # j
                 PROVE  new[i] # new[j]
        BY <1>3 DEF NoneStoredTwice
    <2>1. cursor + i # cursor + j
        BY <1>1
    <2>2. old[cursor + i] # old[cursor + j]
        BY <1>3, <2>1 DEF QueueSound, NoneStoredTwice
    <2> QED BY <1>3, <2>2
<1>6. DrawnBehind(e)'
    <2> SUFFICES ASSUME NEW i \in 1 .. left PROVE new[i] \notin drawn[e]
        BY <1>2, <1>3 DEF DrawnBehind
    <2>1. cursor + i \in cursor + 1 .. Len(old)
        BY <1>1, <1>3
    <2>2. old[cursor + i] \notin drawn[e]
        BY <2>1 DEF QueueSound, DrawnBehind
    <2> QED BY <1>3, <2>2
<1>7. CursorInQueue(pools[e])'
    BY <1>1, <1>2, <1>3 DEF CursorInQueue
<1>8. pools'[e] \in Queues
    BY <1>2, <1>3 DEF Queues
<1> QED BY <1>4, <1>5, <1>6, <1>7, <1>8 DEF QueueSound

(* The layouts drawn are those the cursor passes. *)
LEMMA TakeKeeps ==
    ASSUME TypeOK, NEW d \in Demands, Suffices(d), Take(d), solves' = solves,
           NEW e \in Envs, QueueSound(e)
    PROVE  pools'[e] \in Queues /\ drawn'[e] \in SUBSET Layouts /\ QueueSound(e)'
<1> DEFINE queue == pools[e].layouts
           cursor == pools[e].cursor
<1>1. pools[e] \in Queues /\ drawn[e] \in SUBSET Layouts
    BY DEF TypeOK
<1>2. CASE e \notin d.envs
    <2>1. pools'[e] = pools[e] /\ drawn'[e] = drawn[e]
        BY <1>2 DEF Take
    <2> QED BY <1>1, <2>1 DEF QueueSound, CursorInQueue, FromSolves, NoneStoredTwice, DrawnBehind
<1>3. CASE e \in d.envs
    <2> DEFINE taken == {Unread(pools[e])[i] : i \in 1 .. d.each}
    <2>1. d.each \in Nat /\ d.each <= Available(pools[e])
        <3>1. Available(pools[e]) \in Nat /\ Available(pools[e]) >= d.each
            BY <1>3, QueueFacts DEF Suffices, QueueSound
        <3> QED BY <3>1, DemandFacts
    <2>2. /\ queue \in Seq(Layouts) /\ cursor \in Nat /\ Len(queue) \in Nat
          /\ cursor + d.each <= Len(queue)
        <3>1. queue \in Seq(Layouts) /\ cursor \in Nat /\ Len(queue) \in Nat
            BY QueueFacts DEF QueueSound
        <3> QED BY <2>1, <3>1 DEF Available
    <2>3. drawn'[e] = drawn[e] \cup taken
        BY <1>3 DEF Take
    <2>4. pools'[e] = [layouts |-> queue, cursor |-> cursor + d.each]
        <3>1. pools'[e] = Advance(pools[e], d.each)
            BY <1>3 DEF Take
        <3> QED BY <1>1, <3>1 DEF Advance, Queues
    <2>5. pools'[e].layouts = queue /\ pools'[e].cursor = cursor + d.each
        BY <2>4
    <2>6. \A layout \in taken : \E i \in 1 .. d.each :
              cursor + i \in 1 .. Len(queue) /\ layout = queue[cursor + i]
        <3> SUFFICES ASSUME NEW i \in 1 .. d.each
                     PROVE  /\ cursor + i \in 1 .. Len(queue)
                            /\ Unread(pools[e])[i] = queue[cursor + i]
            OBVIOUS
        <3>1. i \in 1 .. Available(pools[e])
            <4>1. Available(pools[e]) \in Nat
                BY QueueFacts DEF QueueSound
            <4> QED BY <2>1, <4>1
        <3> QED BY <3>1, UnreadFacts DEF QueueSound
    <2> HIDE DEF taken
    <2>7. taken \in SUBSET Layouts
        BY <2>2, <2>6, ElementOfSeq
    <2>8. FromSolves(e)'
        <3>1. \A layout \in taken : layout.seed < solves
            BY <2>6 DEF QueueSound, FromSolves
        <3> QED BY <2>3, <2>5, <3>1 DEF QueueSound, FromSolves
    <2>9. DrawnBehind(e)'
        <3> SUFFICES ASSUME NEW i \in cursor + d.each + 1 .. Len(queue)
                     PROVE  queue[i] \notin drawn[e] \cup taken
            BY <2>3, <2>5 DEF DrawnBehind
        <3>1. i \in cursor + 1 .. Len(queue) /\ i \in 1 .. Len(queue)
            BY <2>1, <2>2
        <3>2. queue[i] \notin drawn[e]
            BY <3>1 DEF QueueSound, DrawnBehind
        <3>3. ASSUME NEW j \in 1 .. d.each, cursor + j \in 1 .. Len(queue)
              PROVE  queue[i] # queue[cursor + j]
            <4>1. i # cursor + j
                BY <2>1, <2>2, <3>3
            <4> QED BY <3>1, <3>3, <4>1 DEF QueueSound, NoneStoredTwice
        <3> QED BY <2>6, <3>2, <3>3
    <2>10. NoneStoredTwice(pools[e])' /\ CursorInQueue(pools[e])'
        BY <2>2, <2>5 DEF QueueSound, NoneStoredTwice, CursorInQueue
    <2>11. pools'[e] \in Queues
        BY <2>1, <2>2, <2>4 DEF Queues
    <2> QED BY <1>1, <2>3, <2>7, <2>8, <2>9, <2>10, <2>11 DEF QueueSound
<1> QED BY <1>2, <1>3

LEMMA UntouchedKeeps ==
    ASSUME TypeOK, NEW e \in Envs, QueueSound(e), pools'[e] = pools[e], drawn'[e] = drawn[e],
           solves' = solves \/ solves' = solves + 1
    PROVE  QueueSound(e)'
<1>1. /\ solves \in Nat
      /\ \A i \in 1 .. Len(pools[e].layouts) : pools[e].layouts[i].seed \in Nat
    <2>1. pools[e].layouts \in Seq(Layouts)
        BY QueueFacts DEF QueueSound
    <2>2. \A i \in 1 .. Len(pools[e].layouts) : pools[e].layouts[i] \in Layouts
        BY <2>1, ElementOfSeq
    <2> QED BY <2>2 DEF Layouts, TypeOK
<1>2. \A layout \in drawn[e] : layout.seed \in Nat
    <2>1. drawn[e] \in SUBSET Layouts
        BY DEF TypeOK
    <2> QED BY <2>1 DEF Layouts
<1>3. FromSolves(e)'
    <2>1. \A n \in Nat : n < solves => n < solves'
        BY <1>1
    <2> QED BY <1>1, <1>2, <2>1 DEF QueueSound, FromSolves
<1> QED BY <1>3 DEF QueueSound, CursorInQueue, NoneStoredTwice, DrawnBehind

-----------------------------------------------------------------------------
(* The invariant *)
LEMMA InitKeeps == Init => PoolInv
<1> SUFFICES ASSUME Init PROVE PoolInv
    OBVIOUS
<1>1. target \in Nat \ {0} /\ target >= 0
    BY PerEnvType, PoolAssumption DEF Init
<1>2. \A e \in Envs : /\ pools[e] = [layouts |-> <<>>, cursor |-> 0]
                      /\ pools[e] \in Queues
                      /\ pools[e].layouts = <<>> /\ pools[e].cursor = 0 /\ drawn[e] = {}
    BY DEF Init, Queues
<1>3. TypeOK
    BY <1>1, <1>2 DEF Init, TypeOK
<1>4. \A e \in Envs : QueueSound(e)
    BY <1>2 DEF QueueSound, CursorInQueue, FromSolves, NoneStoredTwice, DrawnBehind
<1>5. FillMeetsDemand
    BY <1>1 DEF Init, FillMeetsDemand, NoDemand
<1> QED BY <1>3, <1>4, <1>5 DEF PoolInv

LEMMA DemandEach ==
    ASSUME TypeOK
    PROVE  demand.each \in Nat
BY DemandFacts DEF TypeOK, NoDemand

LEMMA BatchKeeps == PoolInv /\ SolveBatch => PoolInv'
<1> SUFFICES ASSUME PoolInv, SolveBatch PROVE PoolInv'
    OBVIOUS
<1>1. TypeOK /\ \A e \in Envs : QueueSound(e) /\ CursorInQueue(pools[e])
    BY DEF PoolInv, QueueSound
<1>2. PICK numValid \in [Envs -> 0 .. BatchSize] :
          /\ pools' = [e \in Envs |-> Extend(pools[e], Stored(pools[e], numValid[e]))]
          /\ hadFallbacks' = HadFallbacks([e \in Envs |-> Stored(pools[e], numValid[e])])
          /\ phase' = IF \A e \in Envs : Available(pools[e])
                             + Len([d \in Envs |-> Stored(pools[d], numValid[d])][e]) >= target
                      THEN "filled"
                      ELSE IF batch + 1 < MaxSolveBatches THEN "filling" ELSE "failed"
    BY DEF SolveBatch
<1>3. ASSUME NEW e \in Envs
      PROVE  /\ pools'[e] \in Queues
             /\ QueueSound(e)'
             /\ Available(pools'[e]) = Available(pools[e]) + Len(Stored(pools[e], numValid[e]))
    <2> DEFINE added == Stored(pools[e], numValid[e])
    <2>1. /\ added \in Seq(Layouts)
          /\ \A i \in 1 .. Len(added) : added[i].seed = solves /\ added[i].rank = i
        BY <1>1, StoredFacts
    <2>2. pools'[e] = Extend(pools[e], added)
        BY <1>2
    <2>3. drawn' = drawn /\ solves' = solves + 1
        BY DEF SolveBatch
    <2> HIDE DEF added
    <2>4. /\ pools'[e] \in Queues
          /\ QueueSound(e)'
          /\ Available(pools'[e]) = Available(pools[e]) + Len(added)
        BY <1>1, <2>1, <2>2, <2>3, ExtendKeeps
    <2> QED BY <2>4 DEF added
<1>4. TypeOK'
    <2>1. pools' \in [Envs -> Queues]
        BY <1>2, <1>3
    <2>2. hadFallbacks' \in BOOLEAN
        BY <1>1, <1>2 DEF HadFallbacks, TypeOK
    <2> QED BY <1>1, <1>2, <2>1, <2>2 DEF SolveBatch, TypeOK
<1>5. FillMeetsDemand'
    <2>1. target' = target /\ demand' = demand /\ phase' # "exhausted"
        BY <1>2 DEF SolveBatch
    <2>2. phase' = "filled" => \A e \in Envs :
              Available(pools[e]) + Len(Stored(pools[e], numValid[e])) >= target
        BY <1>2
    <2> QED BY <1>3, <2>1, <2>2 DEF PoolInv, FillMeetsDemand
<1> QED BY <1>3, <1>4, <1>5 DEF PoolInv

LEMMA UndisturbedKeeps ==
    ASSUME PoolInv, SolveRaises \/ PrepareLive
    PROVE  PoolInv'
<1>1. /\ UNCHANGED <<pools, drawn, target, demand, allowFallbacks, hadFallbacks, batch>>
      /\ solves' = solves \/ solves' = solves + 1
      /\ phase' \in {"failed", "ready"}
    BY DEF SolveRaises, PrepareLive
<1>2. \A e \in Envs : QueueSound(e)'
    BY <1>1, UntouchedKeeps DEF PoolInv
<1> QED BY <1>1, <1>2 DEF PoolInv, TypeOK, FillMeetsDemand

(* Drawing keeps the queues, whichever demand it meets. *)
LEMMA DrawKeeps ==
    ASSUME PoolInv, NEW d \in Demands, Suffices(d), Take(d), solves' = solves
    PROVE  /\ pools' \in [Envs -> Queues]
           /\ drawn' \in [Envs -> SUBSET Layouts]
           /\ \A e \in Envs : QueueSound(e)'
<1>1. \A e \in Envs : pools'[e] \in Queues /\ drawn'[e] \in SUBSET Layouts /\ QueueSound(e)'
    BY TakeKeeps DEF PoolInv
<1> QED BY <1>1 DEF Take

LEMMA SampleKeeps ==
    ASSUME PoolInv, NEW d \in Demands, Sample(d)
    PROVE  PoolInv'
<1>1. /\ pools' \in [Envs -> Queues]
      /\ drawn' \in [Envs -> SUBSET Layouts]
      /\ \A e \in Envs : QueueSound(e)'
    BY DrawKeeps DEF Sample
<1> QED BY <1>1 DEF PoolInv, TypeOK, FillMeetsDemand, Sample

LEMMA RefillKeeps ==
    ASSUME PoolInv, NEW d \in Demands, Refill(d)
    PROVE  PoolInv'
<1>1. ASSUME NEW e \in Envs
      PROVE  pools'[e] \in Queues /\ QueueSound(e)'
    BY DiscardKeeps DEF Refill, PoolInv
<1>2. target' \in Nat \ {0} /\ target' >= d.each
    <2>1. FillSize(d.count) \in Int
        BY DemandFacts, PoolAssumption DEF FillSize
    <2> QED BY <2>1, PerEnvType, DemandFacts DEF Refill
<1>3. pools' \in [Envs -> Queues]
    BY <1>1 DEF Refill
<1> QED BY <1>1, <1>2, <1>3 DEF PoolInv, TypeOK, FillMeetsDemand, Refill

(* A finished fill meets the demand it was made for. *)
LEMMA RefilledKeeps == PoolInv /\ SampleRefilled => PoolInv'
<1> SUFFICES ASSUME PoolInv, SampleRefilled PROVE PoolInv'
    OBVIOUS
<1>1. demand \in Demands
    BY DEF PoolInv, TypeOK, SampleRefilled
<1>2. Suffices(demand)
    <2> SUFFICES ASSUME NEW e \in demand.envs
                 PROVE  Available(pools[e]) >= demand.each
        BY DEF Suffices
    <2>1. e \in Envs /\ demand.each \in Nat
        BY <1>1, DemandFacts
    <2>2. Available(pools[e]) \in Nat /\ Available(pools[e]) >= target /\ target >= demand.each
        BY <2>1, QueueFacts DEF PoolInv, QueueSound, FillMeetsDemand, SampleRefilled
    <2> QED BY <2>1, <2>2 DEF PoolInv, TypeOK
<1>3. Take(demand) /\ phase' = "ready" /\ demand' = NoDemand
      /\ UNCHANGED <<allowFallbacks, solves, hadFallbacks, target, batch>>
    BY <1>2 DEF SampleRefilled
<1>4. /\ pools' \in [Envs -> Queues]
      /\ drawn' \in [Envs -> SUBSET Layouts]
      /\ \A e \in Envs : QueueSound(e)'
    BY <1>1, <1>2, <1>3, DrawKeeps
<1>5. target >= NoDemand.each
    BY DEF PoolInv, TypeOK, NoDemand
<1> QED BY <1>3, <1>4, <1>5 DEF PoolInv, TypeOK, FillMeetsDemand

LEMMA StepKeeps == PoolInv /\ [Next]_vars => PoolInv'
<1> SUFFICES ASSUME PoolInv, [Next]_vars PROVE PoolInv'
    OBVIOUS
<1>1. CASE SolveBatch
    BY <1>1, BatchKeeps
<1>2. CASE SolveRaises \/ PrepareLive
    BY <1>2, UndisturbedKeeps
<1>3. CASE \E d \in Demands : Sample(d)
    BY <1>3, SampleKeeps
<1>4. CASE \E d \in Demands : Refill(d)
    BY <1>4, RefillKeeps
<1>5. CASE SampleRefilled
    BY <1>5, RefilledKeeps
<1>6. CASE UNCHANGED vars
    <2>1. \A e \in Envs : QueueSound(e)'
        BY <1>6, UntouchedKeeps DEF PoolInv, vars
    <2> QED BY <1>6, <2>1 DEF PoolInv, TypeOK, FillMeetsDemand, vars
<1> QED BY <1>1, <1>2, <1>3, <1>4, <1>5, <1>6 DEF Next

LEMMA PoolInvariant == Spec => []PoolInv
BY InitKeeps, StepKeeps, PTL DEF Spec

-----------------------------------------------------------------------------
(* Rollouts and recordings use the pool by its own operations only. *)
LEMMA StepUsesThePool == [OfflineNext]_<<vars, recordingVars>> => [Next]_vars
<1> SUFFICES ASSUME OfflineNext \/ UNCHANGED <<vars, recordingVars>>
             PROVE  Next \/ UNCHANGED vars
    OBVIOUS
<1>1. ResetOf(Envs) \in Demands
    BY EnvsFacts DEF Demands
<1>2. CASE PoolStep
    BY <1>2 DEF PoolStep, Next
<1>3. CASE Rollout
    BY <1>3 DEF Rollout, Next
<1>4. CASE ResetForBatch
    BY <1>1, <1>4 DEF ResetForBatch, Next
<1>5. CASE ResetAfterRefill
    BY <1>5 DEF ResetAfterRefill, Next
<1>6. CASE SettleBatch \/ Write
    BY <1>6 DEF SettleBatch, Write
<1> QED BY <1>2, <1>3, <1>4, <1>5, <1>6 DEF OfflineNext

LEMMA OfflineUsesThePool == OfflineSpec => Spec
<1>1. OfflineInit => Init
    BY DEF OfflineInit
<1> QED BY <1>1, StepUsesThePool, PTL DEF OfflineSpec, Spec

-----------------------------------------------------------------------------
(* The environments of a batch in order: a set of environments has an      *)
(* ascending sequence, since each has so many below it.                    *)
Below(S, e) == {d \in S : d <= e}

IsAscending(S, seq) ==
    /\ seq \in SetToSeqs(S)
    /\ \A i, j \in DOMAIN seq : i < j => seq[i] < seq[j]

LEMMA RanksAscend ==
    ASSUME NEW S \in SUBSET Envs, NEW d \in S, NEW e \in S, d < e
    PROVE  Cardinality(Below(S, d)) < Cardinality(Below(S, e))
<1>1. IsFiniteSet(Below(S, e))
    BY EnvsFacts, FS_Subset DEF Below
<1>2. Below(S, d) \in SUBSET Below(S, e) /\ e \in Below(S, e) /\ e \notin Below(S, d)
    <2>1. \A x \in S : x \in Int
        BY PoolAssumption DEF Envs
    <2> QED BY <2>1 DEF Below
<1>3. /\ Cardinality(Below(S, d)) <= Cardinality(Below(S, e))
      /\ Cardinality(Below(S, e)) # Cardinality(Below(S, d))
    BY <1>1, <1>2, FS_Subset
<1>4. Cardinality(Below(S, d)) \in Nat /\ Cardinality(Below(S, e)) \in Nat
    BY <1>1, <1>2, FS_Subset, FS_CardinalityType
<1> QED BY <1>3, <1>4

LEMMA AscendingExists ==
    ASSUME NEW S \in SUBSET Envs
    PROVE  \E seq : IsAscending(S, seq)
<1> DEFINE n == Cardinality(S)
           rank == [e \in S |-> Cardinality(Below(S, e))]
           seq == [i \in 1 .. n |-> CHOOSE e \in S : rank[e] = i]
<1>1. IsFiniteSet(S) /\ n \in Nat
    BY EnvsFacts, FS_Subset, FS_CardinalityType
<1>2. ASSUME NEW e \in S PROVE rank[e] \in 1 .. n
    <2>1. Below(S, e) \in SUBSET S /\ e \in Below(S, e)
        BY DEF Below, Envs
    <2>2. IsFiniteSet(Below(S, e)) /\ Cardinality(Below(S, e)) <= n
        BY <1>1, <2>1, FS_Subset
    <2>3. Cardinality(Below(S, e)) \in Nat /\ Cardinality(Below(S, e)) # 0
        BY <2>1, <2>2, FS_CardinalityType, FS_EmptySet
    <2> HIDE DEF n
    <2> QED BY <1>1, <2>2, <2>3
<1>3. ASSUME NEW d \in S, NEW e \in S, d < e PROVE rank[d] < rank[e]
    BY <1>3, RanksAscend
<1>4. rank \in Injection(S, 1 .. n)
    <2>1. rank \in [S -> 1 .. n]
        BY <1>2
    <2>2. ASSUME NEW d \in S, NEW e \in S, rank[d] = rank[e] PROVE d = e
        <3>1. d \in Int /\ e \in Int /\ rank[d] \in Int /\ rank[e] \in Int
            BY <1>2 DEF Envs
        <3>2. ~ (d < e) /\ ~ (e < d)
            <4> HIDE DEF rank
            <4> QED BY <1>3, <2>2, <3>1
        <3> QED BY <3>1, <3>2
    <2> HIDE DEF rank, n
    <2> QED BY <2>1, <2>2 DEF Injection, IsInjective
<1>5. rank \in Surjection(S, 1 .. n)
    <2>1. IsFiniteSet(1 .. n) /\ Cardinality(1 .. n) = n
        <3>1. Cardinality(1 .. n) = IF 1 > n THEN 0 ELSE n - 1 + 1
            <4> HIDE DEF n
            <4> QED BY <1>1, FS_Interval
        <3>2. IsFiniteSet(1 .. n)
            <4> HIDE DEF n
            <4> QED BY <1>1, FS_Interval
        <3> HIDE DEF n
        <3> QED BY <1>1, <3>1, <3>2
    <2>2. Cardinality(S) = Cardinality(1 .. n)
        BY <2>1
    <2> HIDE DEF rank, n
    <2> QED BY <1>4, <2>1, <2>2, FS_Injection
<1>6. ASSUME NEW i \in 1 .. n PROVE seq[i] \in S /\ rank[seq[i]] = i
    <2>1. \E e \in S : rank[e] = i
        BY <1>5 DEF Surjection
    <2> HIDE DEF rank
    <2> QED BY <2>1
<1>7. ASSUME NEW i \in 1 .. n, NEW j \in 1 .. n, i < j PROVE seq[i] < seq[j]
    <2>1. seq[i] \in S /\ seq[j] \in S /\ rank[seq[i]] = i /\ rank[seq[j]] = j
        BY <1>6
    <2>2. seq[i] \in Int /\ seq[j] \in Int /\ i \in Int /\ j \in Int
        <3> HIDE DEF rank, seq, n
        <3>1. \A e \in S : e \in Int
            BY PoolAssumption DEF Envs
        <3> QED BY <1>1, <2>1, <3>1
    <2>3. ~ (seq[j] < seq[i])
        <3> HIDE DEF rank, seq, n
        <3> QED BY <1>3, <1>7, <2>1, <2>2
    <2>4. seq[i] # seq[j]
        <3> HIDE DEF rank, seq, n
        <3> QED BY <1>7, <2>1, <2>2
    <2> HIDE DEF rank, seq, n
    <2> QED BY <2>2, <2>3, <2>4
<1>8. seq \in SetToSeqs(S)
    <2>1. seq \in [1 .. n -> S]
        BY <1>6
    <2>2. ASSUME NEW i \in 1 .. n, NEW j \in 1 .. n, i # j PROVE seq[i] # seq[j]
        <3>1. rank[seq[i]] = i /\ rank[seq[j]] = j
            BY <1>6
        <3> HIDE DEF rank, seq
        <3> QED BY <2>2, <3>1
    <2> HIDE DEF seq
    <2> QED BY <2>1, <2>2 DEF SetToSeqs
<1>9. DOMAIN seq = 1 .. n
    OBVIOUS
<1> HIDE DEF seq, n
<1> QED BY <1>7, <1>8, <1>9 DEF IsAscending

LEMMA AcceptedFacts ==
    ASSUME NEW S \in SUBSET Envs
    PROVE  /\ Cardinality(S) \in Nat
           /\ DOMAIN Accepted(S) = 1 .. Cardinality(S)
           /\ \A i \in 1 .. Cardinality(S) : Accepted(S)[i] \in S
           /\ \A i, j \in 1 .. Cardinality(S) : i # j => Accepted(S)[i] # Accepted(S)[j]
<1>1. PICK seq : IsAscending(S, seq)
    BY AscendingExists
<1>2. \E s \in SetToSeqs(S) : \A i, j \in DOMAIN s : i < j => s[i] < s[j]
    BY <1>1 DEF IsAscending
<1>3. Accepted(S) \in SetToSeqs(S)
    BY <1>2 DEF Accepted
<1>4. Cardinality(S) \in Nat
    BY EnvsFacts, FS_Subset, FS_CardinalityType
<1> DEFINE acc == Accepted(S)
<1> HIDE DEF acc
<1>5. acc \in SetToSeqs(S)
    BY <1>3 DEF acc
<1>6. /\ acc \in [1 .. Cardinality(S) -> S]
      /\ \A i, j \in 1 .. Cardinality(S) : i # j => acc[i] # acc[j]
    BY <1>5 DEF SetToSeqs
<1> QED BY <1>4, <1>6 DEF acc
-----------------------------------------------------------------------------
(* The recording.  What it collected, in step with the batches.            *)
Outcomes == [env : Envs, layout : Layouts, batch : Nat]

RecordingTypeOK ==
    /\ stage \in {"idle", "resetting", "settling", "collected", "done"}
    /\ batchIndex \in 0 .. MaxBatches
    /\ outcomes \in Seq(Outcomes)
    /\ poses = outcomes

(* The loop goes on while layouts are missing and batches are left. *)
LoopUnderWay ==
    /\ Len(outcomes) <= MinLayouts
    /\ stage \in {"resetting", "settling"} =>
           Len(outcomes) < MinLayouts /\ batchIndex < MaxBatches
    /\ stage \in {"collected", "done"} =>
           Len(outcomes) = MinLayouts \/ batchIndex = MaxBatches

(* An outcome is of a valid layout that its environment was given. *)
OutcomeSound(outcome) ==
    /\ outcome.layout.valid
    /\ outcome.layout \in drawn[outcome.env]
    /\ outcome.batch < batchIndex

InTurn(first, second) ==
    /\ first.batch <= second.batch
    /\ first.env = second.env => first.layout # second.layout

OutcomesSound ==
    /\ \A i \in 1 .. Len(outcomes) : OutcomeSound(outcomes[i])
    /\ \A i, j \in 1 .. Len(outcomes) : i < j => InTurn(outcomes[i], outcomes[j])

(* The environment has no outcome with the layout. *)
NotRecorded(e, layout) ==
    \A i \in 1 .. Len(outcomes) : outcomes[i].env = e => outcomes[i].layout # layout

(* What a batch settles was given by its own reset. *)
ResultsAreNew ==
    stage = "settling" =>
        /\ phase = "ready" =>
               \A e \in Envs : LastResult(e) \in drawn[e] /\ NotRecorded(e, LastResult(e))
        /\ phase # "ready" => demand = ResetOf(Envs)

Rows == [i \in 1 .. Len(outcomes) |-> [pose |-> outcomes[i], outcome |-> outcomes[i]]]

OutputIsOfOutcomes ==
    output # None => stage = "done" /\ outcomes # <<>> /\ output = Rows

RecordingInv ==
    /\ RecordingTypeOK
    /\ LoopUnderWay
    /\ OutcomesSound
    /\ ResultsAreNew
    /\ OutputIsOfOutcomes

(* A rejection is of a batch that was evaluated. *)
RejectionsOfBatches ==
    /\ IsFiniteSet(rejections)
    /\ \A r \in rejections : \E e \in Envs : \E b \in Nat : r = <<e, b>> /\ b < batchIndex

AttemptsInv == RejectionsOfBatches /\ AttemptsAddUp
-----------------------------------------------------------------------------
(* What was drawn stays drawn. *)
LEMMA DrawnGrows ==
    ASSUME PoolInv, [Next]_vars, NEW e \in Envs
    PROVE  drawn[e] \subseteq drawn'[e]
<1>1. ASSUME NEW d, Take(d) PROVE drawn[e] \subseteq drawn'[e]
    BY <1>1 DEF Take
<1>2. CASE SolveBatch \/ SolveRaises \/ PrepareLive \/ UNCHANGED vars
    BY <1>2 DEF SolveBatch, SolveRaises, PrepareLive, vars
<1>3. CASE \E d \in Demands : Sample(d)
    BY <1>1, <1>3 DEF Sample
<1>4. CASE \E d \in Demands : Refill(d)
    BY <1>4 DEF Refill
<1>5. CASE SampleRefilled
    <2>1. Take(demand) \/ drawn' = drawn
        BY <1>5 DEF SampleRefilled
    <2> QED BY <1>1, <2>1
<1> QED BY <1>2, <1>3, <1>4, <1>5 DEF Next

(* A reset of all the environments gives each one it was not given before. *)
LEMMA ResetGivesNew ==
    ASSUME PoolInv, Suffices(ResetOf(Envs)), Take(ResetOf(Envs)), NEW e \in Envs
    PROVE  LastResult(e)' \in drawn'[e] /\ LastResult(e)' \notin drawn[e]
<1> DEFINE queue == pools[e].layouts
           cursor == pools[e].cursor
           next == Unread(pools[e])[1]
<1>1. ResetOf(Envs).envs = Envs /\ ResetOf(Envs).each = 1
    BY DEF ResetOf
<1>2. TypeOK /\ QueueSound(e) /\ CursorInQueue(pools[e])
    BY DEF PoolInv, QueueSound
<1>3. Available(pools[e]) \in Nat /\ Available(pools[e]) >= 1
    BY <1>1, <1>2, QueueFacts DEF Suffices
<1>4. cursor \in Nat /\ Len(queue) \in Nat /\ cursor + 1 \in 1 .. Len(queue) /\ next = queue[cursor + 1]
    <2>1. 1 \in 1 .. Available(pools[e])
        BY <1>3
    <2> QED BY <1>2, <2>1, UnreadFacts, QueueFacts
<1>5. pools'[e] = Advance(pools[e], 1)
    BY <1>1 DEF Take
<1>6. pools'[e].layouts = queue /\ pools'[e].cursor = cursor + 1
    <2>1. pools[e] \in Queues
        BY <1>2 DEF TypeOK
    <2> QED BY <1>5, <2>1 DEF Advance, Queues
<1>7. LastResult(e)' = next
    BY <1>4, <1>6 DEF LastResult
<1>8. drawn'[e] = drawn[e] \cup {Unread(pools[e])[i] : i \in 1 .. 1}
    BY <1>1 DEF Take
<1>9. next \notin drawn[e]
    <2>1. cursor + 1 \in cursor + 1 .. Len(queue)
        BY <1>4
    <2>2. queue[cursor + 1] \notin drawn[e]
        BY <1>2, <2>1 DEF QueueSound, DrawnBehind
    <2> QED BY <1>4, <2>2
<1> QED BY <1>7, <1>8, <1>9

(* No outcome has a layout that its environment was not given. *)
LEMMA NotGivenNotRecorded ==
    ASSUME OutcomesSound, NEW e \in Envs, NEW layout, layout \notin drawn[e]
    PROVE  NotRecorded(e, layout)
BY DEF OutcomesSound, OutcomeSound, NotRecorded

LEMMA OutcomesStay ==
    ASSUME PoolInv, [Next]_vars, RecordingTypeOK, OutcomesSound,
           UNCHANGED <<batchIndex, outcomes>>
    PROVE  OutcomesSound'
<1>1. ASSUME NEW i \in 1 .. Len(outcomes) PROVE OutcomeSound(outcomes[i])'
    <2>1. outcomes[i] \in Outcomes
        BY ElementOfSeq DEF RecordingTypeOK
    <2>2. outcomes[i].env \in Envs
        BY <2>1 DEF Outcomes
    <2>3. drawn[outcomes[i].env] \subseteq drawn'[outcomes[i].env]
        BY <2>2, DrawnGrows
    <2> QED BY <2>3 DEF OutcomesSound, OutcomeSound
<1> QED BY <1>1 DEF OutcomesSound, InTurn

LEMMA ResetsAreDemands == ResetOf(Envs) \in Demands
BY EnvsFacts DEF Demands

(* After the draw of a reset, its results are new. *)
LEMMA DrawnResultsAreNew ==
    ASSUME PoolInv, OutcomesSound, UNCHANGED outcomes,
           Suffices(ResetOf(Envs)), Take(ResetOf(Envs)), phase' = "ready"
    PROVE  ResultsAreNew'
<1>1. ASSUME NEW e \in Envs
      PROVE  /\ LastResult(e)' \in drawn'[e]
             /\ \A i \in 1 .. Len(outcomes) :
                    outcomes[i].env = e => outcomes[i].layout # LastResult(e)'
    <2>1. LastResult(e)' \in drawn'[e] /\ LastResult(e)' \notin drawn[e]
        BY ResetGivesNew
    <2>2. PICK given : given = LastResult(e)'
        OBVIOUS
    <2>3. NotRecorded(e, given)
        BY <2>1, <2>2, NotGivenNotRecorded
    <2> QED BY <2>1, <2>2, <2>3 DEF NotRecorded
<1> QED BY <1>1 DEF ResultsAreNew, NotRecorded

-----------------------------------------------------------------------------
(* What a batch brings: outcomes of different environments, no more than   *)
(* are missing.                                                            *)
Sources(stable) == [i \in DOMAIN Accepted(stable) |-> Source(Accepted(stable)[i])]

Brought(stable) == Firsts(Sources(stable), Remaining)

LEMMA BroughtFacts ==
    ASSUME PoolInv, RecordingInv, stage = "settling", phase = "ready",
           NEW S \in SUBSET Eligible
    PROVE  /\ Brought(S) \in Seq(Outcomes)
           /\ Cardinality(S) \in Nat
           /\ Len(Brought(S)) \in Nat
           /\ Len(Brought(S)) = AtMost(MinLayouts - Len(outcomes), Cardinality(S))
           /\ \A i \in 1 .. Len(Brought(S)) : \E e \in S : Brought(S)[i] = Source(e)
           /\ \A i, j \in 1 .. Len(Brought(S)) :
                  i # j => Brought(S)[i].env # Brought(S)[j].env
<1> DEFINE n == Cardinality(S)
           m == AtMost(MinLayouts - Len(outcomes), n)
           sources == Sources(S)
           acc == Accepted(S)
<1>1. S \in SUBSET Envs
    BY DEF Eligible
<1>2. /\ n \in Nat
      /\ DOMAIN acc = 1 .. n
      /\ \A i \in 1 .. n : acc[i] \in S
      /\ \A i, j \in 1 .. n : i # j => acc[i] # acc[j]
    BY <1>1, AcceptedFacts
<1> HIDE DEF n, acc
<1>3. ASSUME NEW e \in S PROVE Source(e) \in Outcomes /\ Source(e).env = e
    <2>1. e \in Envs /\ LastResult(e) \in drawn[e]
        BY <1>1 DEF RecordingInv, ResultsAreNew
    <2>2. LastResult(e) \in Layouts
        BY <2>1 DEF PoolInv, TypeOK
    <2>3. batchIndex \in Nat
        BY RecordingAssumption DEF RecordingInv, RecordingTypeOK
    <2> QED BY <2>1, <2>2, <2>3 DEF Source, Outcomes
<1>4. sources = [i \in 1 .. n |-> Source(acc[i])]
    BY <1>2 DEF Sources, acc
<1> HIDE DEF sources
<1>5. sources \in Seq(Outcomes) /\ Len(sources) = n
    <2>1. \A i \in 1 .. n : Source(acc[i]) \in Outcomes
        BY <1>2, <1>3
    <2> QED BY <1>2, <1>4, <2>1
<1>6. Len(outcomes) \in Nat /\ Len(outcomes) < MinLayouts /\ MinLayouts \in Nat
    BY RecordingAssumption, LenProperties DEF RecordingInv, LoopUnderWay, RecordingTypeOK
<1>7. m \in Nat /\ m <= n
    BY <1>2, <1>6 DEF AtMost
<1>8. Brought(S) = SubSeq(sources, 1, m)
    BY <1>5 DEF Brought, Firsts, Remaining, n, sources
<1> HIDE DEF m
<1>9. \A i \in 1 .. m : sources[i] \in Outcomes
    BY <1>2, <1>5, <1>7, ElementOfSeq
<1>10. /\ SubSeq(sources, 1, m) \in Seq(Outcomes)
       /\ Len(SubSeq(sources, 1, m)) = IF 1 <= m THEN m - 1 + 1 ELSE 0
       /\ \A i \in 1 .. m - 1 + 1 : SubSeq(sources, 1, m)[i] = sources[1 + i - 1]
    BY <1>2, <1>5, <1>7, <1>9, SubSeqProperties
<1>11. Len(Brought(S)) = m
    BY <1>7, <1>8, <1>10
<1>12. ASSUME NEW i \in 1 .. m
       PROVE  Brought(S)[i] = Source(acc[i]) /\ acc[i] \in S /\ i \in 1 .. n
    <2>1. i \in 1 .. n /\ i \in 1 .. m - 1 + 1 /\ 1 + i - 1 = i
        BY <1>2, <1>7
    <2>2. SubSeq(sources, 1, m)[i] = sources[i]
        BY <1>10, <2>1
    <2> QED BY <1>2, <1>4, <1>8, <2>1, <2>2
<1>13. ASSUME NEW i \in 1 .. m, NEW j \in 1 .. m, i # j
       PROVE  Brought(S)[i].env # Brought(S)[j].env
    BY <1>2, <1>3, <1>12, <1>13
<1>14. \A i \in 1 .. m : \E e \in S : Brought(S)[i] = Source(e)
    BY <1>12
<1>15. m = AtMost(MinLayouts - Len(outcomes), Cardinality(S))
    BY DEF m, n
<1> QED BY <1>2, <1>7, <1>8, <1>10, <1>11, <1>13, <1>14, <1>15 DEF n

LEMMA SettleBrings ==
    SettleBatch => \E S \in SUBSET Eligible :
                       /\ poses' = poses \o Brought(S)
                       /\ outcomes' = outcomes \o Brought(S)
                       /\ rejections' = rejections \cup Rejected(S)
BY DEF SettleBatch, Collect, Brought, Sources

(* A batch keeps what was collected sound. *)
LEMMA SettleKeeps == PoolInv /\ RecordingInv /\ SettleBatch => RecordingInv'
<1> SUFFICES ASSUME PoolInv, RecordingInv, SettleBatch PROVE RecordingInv'
    OBVIOUS
<1>1. PICK S \in SUBSET Eligible : poses' = poses \o Brought(S) /\ outcomes' = outcomes \o Brought(S)
    BY SettleBrings
<1>2. /\ stage = "settling" /\ phase = "ready"
      /\ batchIndex' = batchIndex + 1 /\ UNCHANGED <<vars, output>>
      /\ stage' = IF Len(outcomes') >= MinLayouts \/ batchIndex' = MaxBatches
                  THEN "collected" ELSE "resetting"
    BY DEF SettleBatch, Collect
<1>3. PICK old : old = outcomes
    OBVIOUS
<1>4. PICK new : new = Brought(S)
    OBVIOUS
<1>5. PICK b : b = batchIndex
    OBVIOUS
<1>6. /\ old \in Seq(Outcomes) /\ Len(old) \in Nat /\ Len(old) < MinLayouts
      /\ b \in Nat /\ b < MaxBatches /\ poses = old
    BY <1>2, <1>3, <1>5, RecordingAssumption, LenProperties
       DEF RecordingInv, LoopUnderWay, RecordingTypeOK
<1>7. /\ new \in Seq(Outcomes) /\ Cardinality(S) \in Nat /\ Len(new) \in Nat
      /\ Len(new) = AtMost(MinLayouts - Len(old), Cardinality(S))
      /\ \A i \in 1 .. Len(new) : \E e \in S : new[i] = Source(e)
      /\ \A i, j \in 1 .. Len(new) : i # j => new[i].env # new[j].env
    BY <1>2, <1>3, <1>4, BroughtFacts
<1>8. Len(old) + Len(new) <= MinLayouts
    BY <1>6, <1>7, RecordingAssumption DEF AtMost
<1>9. PICK all : all = outcomes'
    OBVIOUS
<1>10. /\ all = old \o new /\ poses' = all
       /\ all \in Seq(Outcomes) /\ Len(all) = Len(old) + Len(new)
       /\ \A i \in 1 .. Len(old) : all[i] = old[i]
       /\ \A i \in Len(old) + 1 .. Len(all) : i - Len(old) \in 1 .. Len(new) /\ all[i] = new[i - Len(old)]
    <2>1. all = old \o new /\ poses' = all
        BY <1>1, <1>3, <1>4, <1>6, <1>9
    <2>2. old \o new \in Seq(Outcomes) /\ Len(old \o new) = Len(old) + Len(new)
        BY <1>6, <1>7, ConcatProperties
    <2>3. \A i \in 1 .. Len(old) + Len(new) :
              (old \o new)[i] = IF i <= Len(old) THEN old[i] ELSE new[i - Len(old)]
        BY <1>6, <1>7, ConcatProperties
    <2> QED BY <1>6, <1>7, <2>1, <2>2, <2>3
<1>11. RecordingTypeOK'
    <2>1. batchIndex' \in 0 .. MaxBatches
        BY <1>2, <1>5, <1>6, RecordingAssumption
    <2> QED BY <1>2, <1>9, <1>10, <2>1 DEF RecordingTypeOK
<1>12. LoopUnderWay'
    <2>1. Len(all) \in Nat /\ Len(all) <= MinLayouts /\ MinLayouts \in Nat /\ MaxBatches \in Nat
        BY <1>6, <1>7, <1>8, <1>10, RecordingAssumption
    <2>2. b + 1 <= MaxBatches /\ batchIndex' = b + 1
        BY <1>2, <1>5, <1>6, <2>1
    <2>3. stage' = IF Len(all) >= MinLayouts \/ b + 1 = MaxBatches THEN "collected" ELSE "resetting"
        BY <1>2, <1>9, <2>2
    <2>4. stage' \in {"resetting", "settling"} => Len(all) < MinLayouts /\ b + 1 < MaxBatches
        BY <1>6, <2>1, <2>2, <2>3
    <2>5. stage' \in {"collected", "done"} => Len(all) = MinLayouts \/ b + 1 = MaxBatches
        BY <1>6, <2>1, <2>2, <2>3
    <2> QED BY <1>9, <2>1, <2>2, <2>4, <2>5 DEF LoopUnderWay
<1>13. ASSUME NEW i \in 1 .. Len(new)
       PROVE  /\ new[i].layout.valid /\ new[i].layout \in drawn[new[i].env] /\ new[i].batch = b
              /\ NotRecorded(new[i].env, new[i].layout)
    <2>1. PICK e \in S : new[i] = Source(e)
        BY <1>7
    <2>2. e \in Envs /\ LastResult(e).valid
        BY DEF Eligible
    <2>3. LastResult(e) \in drawn[e] /\ NotRecorded(e, LastResult(e))
        BY <1>2, <2>2 DEF RecordingInv, ResultsAreNew
    <2>4. new[i].env = e /\ new[i].layout = LastResult(e) /\ new[i].batch = batchIndex
        BY <2>1 DEF Source
    <2> QED BY <1>5, <2>2, <2>3, <2>4
<1>14. drawn' = drawn /\ batchIndex' = b + 1
    BY <1>2, <1>5 DEF vars
<1>15. ASSUME NEW i \in 1 .. Len(old)
       PROVE  /\ old[i].layout.valid /\ old[i].layout \in drawn[old[i].env]
              /\ old[i].batch < b /\ old[i].batch \in Nat
    <2>1. old[i] \in Outcomes
        BY <1>6, ElementOfSeq
    <2>2. OutcomeSound(old[i])
        BY <1>3 DEF RecordingInv, OutcomesSound
    <2> QED BY <1>5, <2>1, <2>2 DEF OutcomeSound, Outcomes
<1>16. ASSUME NEW i \in 1 .. Len(all) PROVE OutcomeSound(all[i])'
    <2>1. CASE i <= Len(old)
        <3>1. i \in 1 .. Len(old) /\ all[i] = old[i]
            BY <1>6, <1>7, <1>10, <2>1
        <3>2. old[i].batch < b + 1
            BY <1>6, <1>15, <3>1
        <3> QED BY <1>14, <1>15, <3>1, <3>2 DEF OutcomeSound
    <2>2. CASE i > Len(old)
        <3>1. i - Len(old) \in 1 .. Len(new) /\ all[i] = new[i - Len(old)]
            BY <1>6, <1>7, <1>10, <2>2
        <3>2. all[i].layout.valid /\ all[i].layout \in drawn[all[i].env] /\ all[i].batch = b
            BY <1>13, <3>1
        <3>3. all[i].batch < b + 1
            BY <1>6, <3>2
        <3> QED BY <1>14, <3>2, <3>3 DEF OutcomeSound
    <2> QED BY <1>6, <1>7, <1>10, <2>1, <2>2
<1>17. ASSUME NEW i \in 1 .. Len(all), NEW j \in 1 .. Len(all), i < j
       PROVE  InTurn(all[i], all[j])
    <2>1. CASE j <= Len(old)
        <3>1. i \in 1 .. Len(old) /\ j \in 1 .. Len(old) /\ all[i] = old[i] /\ all[j] = old[j]
            BY <1>6, <1>7, <1>10, <1>17, <2>1
        <3>2. InTurn(old[i], old[j])
            BY <1>3, <1>17, <3>1 DEF RecordingInv, OutcomesSound
        <3> QED BY <3>1, <3>2
    <2>2. CASE i <= Len(old) /\ j > Len(old)
        <3>1. i \in 1 .. Len(old) /\ all[i] = old[i]
            BY <1>6, <1>7, <1>10, <2>2
        <3>2. j - Len(old) \in 1 .. Len(new) /\ all[j] = new[j - Len(old)]
            BY <1>6, <1>7, <1>10, <2>2
        <3>3. all[j].batch = b /\ NotRecorded(all[j].env, all[j].layout)
            BY <1>13, <3>2
        <3>4. all[i].batch <= all[j].batch
            BY <1>6, <1>15, <3>1, <3>3
        <3>5. all[i].env = all[j].env => all[i].layout # all[j].layout
            BY <1>3, <3>1, <3>3 DEF NotRecorded
        <3> QED BY <3>4, <3>5 DEF InTurn
    <2>3. CASE i > Len(old)
        <3>1. i - Len(old) \in 1 .. Len(new) /\ all[i] = new[i - Len(old)]
            BY <1>6, <1>7, <1>10, <2>3
        <3>2. j - Len(old) \in 1 .. Len(new) /\ all[j] = new[j - Len(old)] /\ i - Len(old) # j - Len(old)
            BY <1>6, <1>7, <1>10, <1>17, <2>3
        <3>3. all[i].env # all[j].env
            BY <1>7, <3>1, <3>2
        <3>4. all[i].batch = b /\ all[j].batch = b
            BY <1>13, <3>1, <3>2
        <3> QED BY <1>6, <3>3, <3>4 DEF InTurn
    <2> QED BY <1>6, <1>7, <1>10, <2>1, <2>2, <2>3
<1>18. OutcomesSound'
    <2>1. \A i, j \in 1 .. Len(all) : i < j => InTurn(all[i], all[j])
        BY <1>17
    <2>2. \A i \in 1 .. Len(all) : OutcomeSound(all[i])'
        BY <1>16
    <2> QED BY <1>9, <2>1, <2>2 DEF OutcomesSound, InTurn
<1>19. ResultsAreNew'
    BY <1>2 DEF ResultsAreNew
<1>20. OutputIsOfOutcomes'
    BY <1>2 DEF RecordingInv, OutputIsOfOutcomes
<1> QED BY <1>11, <1>12, <1>18, <1>19, <1>20 DEF RecordingInv
LEMMA ResetKeeps == PoolInv /\ RecordingInv /\ ResetForBatch => RecordingInv'
<1> SUFFICES ASSUME PoolInv, RecordingInv, ResetForBatch PROVE RecordingInv'
    OBVIOUS
<1>1. stage = "resetting" /\ stage' = "settling"
      /\ UNCHANGED <<batchIndex, poses, outcomes, output>>
    BY DEF ResetForBatch
<1>2. [Next]_vars
    BY ResetsAreDemands DEF ResetForBatch, Next
<1>3. OutcomesSound'
    BY <1>1, <1>2, OutcomesStay DEF RecordingInv
<1>4. RecordingTypeOK' /\ LoopUnderWay' /\ OutputIsOfOutcomes'
    BY <1>1 DEF RecordingInv, RecordingTypeOK, LoopUnderWay, OutputIsOfOutcomes, Rows
<1>5. ResultsAreNew'
    <2>1. CASE Sample(ResetOf(Envs))
        BY <1>1, <2>1, DrawnResultsAreNew DEF Sample, RecordingInv
    <2>2. CASE Refill(ResetOf(Envs))
        <3>1. phase' = "filling" /\ demand' = ResetOf(Envs)
            BY <2>2 DEF Refill
        <3> QED BY <3>1 DEF ResultsAreNew, ResetOf
    <2> QED BY <2>1, <2>2 DEF ResetForBatch
<1> QED BY <1>3, <1>4, <1>5 DEF RecordingInv

LEMMA RefilledResetKeeps == PoolInv /\ RecordingInv /\ ResetAfterRefill => RecordingInv'
<1> SUFFICES ASSUME PoolInv, RecordingInv, ResetAfterRefill PROVE RecordingInv'
    OBVIOUS
<1>1. stage = "settling" /\ SampleRefilled /\ UNCHANGED recordingVars
    BY DEF ResetAfterRefill
<1>2. UNCHANGED <<stage, batchIndex, poses, outcomes, output>>
    BY <1>1 DEF recordingVars
<1>3. OutcomesSound'
    BY <1>1, <1>2, OutcomesStay DEF RecordingInv, Next
<1>4. RecordingTypeOK' /\ LoopUnderWay' /\ OutputIsOfOutcomes'
    BY <1>2 DEF RecordingInv, RecordingTypeOK, LoopUnderWay, OutputIsOfOutcomes, Rows
<1>5. demand = ResetOf(Envs)
    BY <1>1 DEF SampleRefilled, RecordingInv, ResultsAreNew
<1>6. phase' # "exhausted"
    BY <1>1, RefilledKeeps DEF PoolInv, FillMeetsDemand
<1>7. Suffices(demand) /\ Take(demand) /\ phase' = "ready"
    BY <1>1, <1>6 DEF SampleRefilled
<1>8. ResultsAreNew'
    <2>1. Suffices(ResetOf(Envs)) /\ Take(ResetOf(Envs))
        BY <1>5, <1>7
    <2> QED BY <1>2, <1>7, <2>1, DrawnResultsAreNew DEF RecordingInv
<1> QED BY <1>3, <1>4, <1>8 DEF RecordingInv

LEMMA PoolStepKeeps == PoolInv /\ RecordingInv /\ PoolStep => RecordingInv'
<1> SUFFICES ASSUME PoolInv, RecordingInv, PoolStep PROVE RecordingInv'
    OBVIOUS
<1>1. UNCHANGED <<stage, batchIndex, poses, outcomes, output>>
    BY DEF PoolStep, recordingVars
<1>2. [Next]_vars
    BY DEF PoolStep, Next
<1>3. OutcomesSound'
    BY <1>1, <1>2, OutcomesStay DEF RecordingInv
<1>4. RecordingTypeOK' /\ LoopUnderWay' /\ OutputIsOfOutcomes'
    BY <1>1 DEF RecordingInv, RecordingTypeOK, LoopUnderWay, OutputIsOfOutcomes, Rows
<1>5. ASSUME stage = "settling" PROVE phase' # "ready" /\ demand' = ResetOf(Envs)
    <2>1. phase # "ready" => demand = ResetOf(Envs)
        BY <1>5 DEF RecordingInv, ResultsAreNew
    <2>2. CASE SolveBatch
        <3>1. phase = "filling" /\ phase' \in {"filled", "filling", "failed"} /\ demand' = demand
            BY <2>2 DEF SolveBatch
        <3> QED BY <2>1, <3>1
    <2>3. CASE SolveRaises
        BY <2>1, <2>3 DEF SolveRaises
    <2>4. CASE PrepareLive
        <3>1. demand = NoDemand /\ phase = "filled"
            BY <2>4 DEF PrepareLive
        <3>2. ResetOf(Envs) # NoDemand
            BY ResetsAreDemands, DemandFacts
        <3> QED BY <2>1, <3>1, <3>2
    <2> QED BY <2>2, <2>3, <2>4 DEF PoolStep
<1>6. ResultsAreNew'
    <2>1. demand' = ResetOf(Envs) => demand' = ResetOf(Envs)'
        BY DEF ResetOf
    <2> QED BY <1>1, <1>5, <2>1 DEF ResultsAreNew
<1> QED BY <1>3, <1>4, <1>6 DEF RecordingInv

LEMMA RolloutKeeps == PoolInv /\ RecordingInv /\ Rollout => RecordingInv'
<1> SUFFICES ASSUME PoolInv, RecordingInv, Rollout PROVE RecordingInv'
    OBVIOUS
<1>1. stage = "idle" /\ UNCHANGED <<stage, batchIndex, poses, outcomes, output>>
    BY DEF Rollout, recordingVars
<1>2. [Next]_vars
    BY DEF Rollout, Next
<1>3. OutcomesSound'
    BY <1>1, <1>2, OutcomesStay DEF RecordingInv
<1> QED BY <1>1, <1>3 DEF RecordingInv, RecordingTypeOK, LoopUnderWay, OutputIsOfOutcomes, Rows, ResultsAreNew

LEMMA WriteKeeps == PoolInv /\ RecordingInv /\ Write => RecordingInv'
<1> SUFFICES ASSUME PoolInv, RecordingInv, Write PROVE RecordingInv'
    OBVIOUS
<1>1. stage = "collected" /\ stage' = "done" /\ UNCHANGED <<vars, batchIndex, poses, outcomes>>
    BY DEF Write
<1>2. OutcomesSound'
    BY <1>1, OutcomesStay DEF RecordingInv
<1>3. RecordingTypeOK' /\ LoopUnderWay' /\ ResultsAreNew'
    BY <1>1 DEF RecordingInv, RecordingTypeOK, LoopUnderWay, ResultsAreNew
<1>4. OutputIsOfOutcomes'
    <2>1. poses = outcomes /\ DOMAIN poses = 1 .. Len(outcomes)
        BY LenProperties DEF RecordingInv, RecordingTypeOK
    <2>2. [i \in DOMAIN poses |-> [pose |-> poses[i], outcome |-> outcomes[i]]] = Rows
        BY <2>1 DEF Rows
    <2>3. output' = IF outcomes = <<>> THEN None ELSE Rows
        BY <2>2 DEF Write
    <2>4. Rows' = Rows
        BY <1>1 DEF Rows
    <2> QED BY <1>1, <2>3, <2>4 DEF OutputIsOfOutcomes
<1> QED BY <1>2, <1>3, <1>4 DEF RecordingInv

LEMMA RecordingStepKeeps ==
    PoolInv /\ RecordingInv /\ [OfflineNext]_<<vars, recordingVars>> => RecordingInv'
<1> SUFFICES ASSUME PoolInv, RecordingInv, OfflineNext \/ UNCHANGED <<vars, recordingVars>>
             PROVE  RecordingInv'
    OBVIOUS
<1>1. CASE UNCHANGED <<vars, recordingVars>>
    <2>1. UNCHANGED <<stage, batchIndex, poses, outcomes, output, pools, phase, demand, drawn>>
        BY <1>1 DEF vars, recordingVars
    <2>2. OutcomesSound'
        BY <1>1, <2>1, OutcomesStay DEF RecordingInv
    <2>3. ResultsAreNew'
        BY <2>1 DEF RecordingInv, ResultsAreNew, NotRecorded, LastResult
    <2> QED BY <2>1, <2>2, <2>3 DEF RecordingInv, RecordingTypeOK, LoopUnderWay, OutputIsOfOutcomes, Rows
<1> QED BY <1>1, PoolStepKeeps, RolloutKeeps, ResetKeeps, RefilledResetKeeps, SettleKeeps, WriteKeeps
        DEF OfflineNext

LEMMA RecordingInitKeeps == OfflineInit => RecordingInv
<1> SUFFICES ASSUME OfflineInit PROVE RecordingInv
    OBVIOUS
<1>1. stage \in {"idle", "resetting"} /\ batchIndex = 0 /\ poses = <<>> /\ outcomes = <<>> /\ output = None
    BY DEF OfflineInit
<1>2. Len(outcomes) = 0 /\ outcomes \in Seq(Outcomes)
    BY <1>1
<1> QED BY <1>1, <1>2, RecordingAssumption
        DEF RecordingInv, RecordingTypeOK, LoopUnderWay, OutcomesSound, ResultsAreNew, OutputIsOfOutcomes

LEMMA RecordingInvariant == OfflineSpec => [](PoolInv /\ RecordingInv)
<1>1. OfflineSpec => []PoolInv
    BY PoolInvariant, OfflineUsesThePool
<1> QED BY <1>1, RecordingInitKeeps, RecordingStepKeeps, PTL DEF OfflineSpec
-----------------------------------------------------------------------------
(* The account of the attempts. *)
LEMMA RejectedFacts ==
    ASSUME NEW S \in SUBSET Envs
    PROVE  /\ IsFiniteSet(Rejected(S))
           /\ Cardinality(Rejected(S)) = NumEnvs - Cardinality(S)
           /\ Cardinality(S) \in 0 .. NumEnvs
<1> DEFINE rest == Envs \ S
           pair == [e \in rest |-> <<e, batchIndex>>]
<1>1. /\ IsFiniteSet(S) /\ Cardinality(S) \in Nat /\ Cardinality(S) <= NumEnvs
      /\ IsFiniteSet(rest) /\ Cardinality(rest) = NumEnvs - Cardinality(S)
    <2>1. IsFiniteSet(Envs) /\ Cardinality(Envs) = NumEnvs
        BY EnvsFacts
    <2>2. IsFiniteSet(S) /\ Cardinality(S) \in Nat /\ Cardinality(S) <= NumEnvs
        BY <2>1, FS_Subset, FS_CardinalityType
    <2>3. IsFiniteSet(rest) /\ Cardinality(rest) = Cardinality(Envs) - Cardinality(Envs \cap S)
        BY <2>1, FS_Difference
    <2>4. Envs \cap S = S
        OBVIOUS
    <2> QED BY <2>1, <2>2, <2>3, <2>4
<1>2. Rejected(S) = {<<e, batchIndex>> : e \in rest}
    BY DEF Rejected
<1>3. pair \in Bijection(rest, Rejected(S))
    <2>1. pair \in [rest -> Rejected(S)]
        BY <1>2
    <2>2. IsInjective(pair)
        BY DEF IsInjective
    <2>3. \A r \in Rejected(S) : \E e \in rest : pair[e] = r
        BY <1>2
    <2> HIDE DEF pair
    <2> QED BY <2>1, <2>2, <2>3 DEF Bijection, Injection, Surjection
<1>4. ExistsBijection(rest, Rejected(S))
    BY <1>3 DEF ExistsBijection
<1>5. IsFiniteSet(Rejected(S)) /\ Cardinality(Rejected(S)) = Cardinality(rest)
    <2> HIDE DEF rest
    <2> QED BY <1>1, <1>4, FS_Bijection
<1> QED BY <1>1, <1>5, PoolAssumption

LEMMA SettleAddsUp == PoolInv /\ RecordingInv /\ AttemptsInv /\ SettleBatch => AttemptsInv'
<1> SUFFICES ASSUME PoolInv, RecordingInv, AttemptsInv, SettleBatch PROVE AttemptsInv'
    OBVIOUS
<1>1. PICK S \in SUBSET Eligible : /\ outcomes' = outcomes \o Brought(S)
                                   /\ rejections' = rejections \cup Rejected(S)
    BY SettleBrings
<1>2. /\ stage = "settling" /\ phase = "ready"
      /\ batchIndex' = batchIndex + 1 /\ attempted' = attempted + NumEnvs
    BY DEF SettleBatch, Collect
<1>3. PICK old : old = outcomes
    OBVIOUS
<1>4. PICK new : new = Brought(S)
    OBVIOUS
<1>5. PICK b : b = batchIndex
    OBVIOUS
<1>6. PICK all : all = outcomes'
    OBVIOUS
<1>7. /\ old \in Seq(Outcomes) /\ Len(old) \in Nat /\ Len(old) < MinLayouts /\ MinLayouts \in Nat
      /\ b \in Nat
    BY <1>2, <1>3, <1>5, RecordingAssumption, LenProperties
       DEF RecordingInv, LoopUnderWay, RecordingTypeOK
<1>8. /\ new \in Seq(Outcomes) /\ Cardinality(S) \in Nat /\ Len(new) \in Nat
      /\ Len(new) = AtMost(MinLayouts - Len(old), Cardinality(S))
      /\ \A i \in 1 .. Len(new) : \E e \in S : new[i] = Source(e)
    BY <1>2, <1>3, <1>4, BroughtFacts
<1>9. /\ Len(all) = Len(old) + Len(new)
      /\ DOMAIN all = 1 .. Len(all)
      /\ \A i \in 1 .. Len(old) : all[i] = old[i]
      /\ \A i \in Len(old) + 1 .. Len(all) : i - Len(old) \in 1 .. Len(new) /\ all[i] = new[i - Len(old)]
    <2>1. all = old \o new
        BY <1>1, <1>3, <1>4, <1>6
    <2>2. old \o new \in Seq(Outcomes) /\ Len(old \o new) = Len(old) + Len(new)
        BY <1>7, <1>8, ConcatProperties
    <2>3. \A i \in 1 .. Len(old) + Len(new) :
              (old \o new)[i] = IF i <= Len(old) THEN old[i] ELSE new[i - Len(old)]
        BY <1>7, <1>8, ConcatProperties
    <2>4. DOMAIN all = 1 .. Len(all)
        BY <2>1, <2>2, LenProperties
    <2> QED BY <1>7, <1>8, <2>1, <2>2, <2>3, <2>4
<1>10. S \in SUBSET Envs
    BY DEF Eligible
<1>11. /\ IsFiniteSet(Rejected(S))
       /\ Cardinality(Rejected(S)) = NumEnvs - Cardinality(S)
       /\ Cardinality(S) \in 0 .. NumEnvs
    BY <1>10, RejectedFacts
<1>12. \A r \in Rejected(S) : \E e \in Envs \ S : r = <<e, b>>
    BY <1>5 DEF Rejected
<1>13. /\ IsFiniteSet(rejections)
       /\ \A r \in rejections : \E e \in Envs : \E n \in Nat : r = <<e, n>> /\ n < b
    BY <1>5 DEF AttemptsInv, RejectionsOfBatches
<1>14. rejections \cap Rejected(S) = {}
    <2> SUFFICES ASSUME NEW r, r \in rejections, r \in Rejected(S) PROVE FALSE
        OBVIOUS
    <2>1. PICK n \in Nat : n < b /\ \E e \in Envs : r = <<e, n>>
        BY <1>13
    <2>2. r[2] = n /\ r[2] = b
        BY <1>12, <2>1
    <2> QED BY <1>7, <2>1, <2>2
<1>15. /\ IsFiniteSet(rejections')
       /\ Cardinality(rejections') = Cardinality(rejections) + (NumEnvs - Cardinality(S))
       /\ Cardinality(rejections) \in Nat
    <2>1. Cardinality(rejections \cap Rejected(S)) = 0
        BY <1>14, FS_EmptySet
    <2>2. /\ IsFiniteSet(rejections \cup Rejected(S))
          /\ Cardinality(rejections \cup Rejected(S)) =
                 Cardinality(rejections) + Cardinality(Rejected(S))
                 - Cardinality(rejections \cap Rejected(S))
        BY <1>11, <1>13, FS_Union
    <2>3. Cardinality(rejections) \in Nat
        BY <1>13, FS_CardinalityType
    <2> QED BY <1>1, <1>11, <2>1, <2>2, <2>3, PoolAssumption
<1>16. RejectionsOfBatches'
    <2>1. ASSUME NEW r \in rejections'
          PROVE  \E e \in Envs : \E n \in Nat : r = <<e, n>> /\ n < b + 1
        <3>1. CASE r \in rejections
            <4>1. PICK e \in Envs, n \in Nat : r = <<e, n>> /\ n < b
                BY <1>13, <3>1
            <4>2. n < b + 1
                BY <1>7, <4>1
            <4> QED BY <4>1, <4>2
        <3>2. CASE r \in Rejected(S)
            <4>1. PICK e \in Envs : r = <<e, b>>
                BY <1>12, <3>2
            <4>2. b < b + 1
                BY <1>7
            <4> QED BY <1>7, <4>1, <4>2
        <3> QED BY <1>1, <2>1, <3>1, <3>2
    <2> QED BY <1>2, <1>5, <1>15, <2>1 DEF RejectionsOfBatches
<1>17. attempted' = batchIndex' * NumEnvs
    <2>1. attempted = b * NumEnvs /\ attempted' = attempted + NumEnvs /\ batchIndex' = b + 1
        BY <1>2, <1>5 DEF AttemptsInv, AttemptsAddUp
    <2>2. (b + 1) * NumEnvs = b * NumEnvs + NumEnvs
        BY <1>7, PoolAssumption
    <2> QED BY <2>1, <2>2
<1>18. ASSUME NEW i \in 1 .. Len(old)
       PROVE  <<old[i].env, old[i].batch>> \notin rejections'
    <2>1. old[i].batch < b /\ old[i].batch \in Nat
        <3>1. old[i] \in Outcomes
            BY <1>7, ElementOfSeq
        <3>2. OutcomeSound(old[i])
            BY <1>3 DEF RecordingInv, OutcomesSound
        <3> QED BY <1>5, <3>1, <3>2 DEF OutcomeSound, Outcomes
    <2>2. <<old[i].env, old[i].batch>> \notin rejections
        <3>1. DOMAIN outcomes = 1 .. Len(old)
            BY <1>3, <1>7, LenProperties
        <3> QED BY <1>3, <3>1 DEF AttemptsInv, AttemptsAddUp
    <2>3. <<old[i].env, old[i].batch>> \notin Rejected(S)
        <3>1. old[i].batch # b
            BY <1>7, <2>1
        <3> QED BY <1>12, <3>1
    <2> QED BY <1>1, <2>2, <2>3
<1>19. ASSUME NEW i \in 1 .. Len(new)
       PROVE  <<new[i].env, new[i].batch>> \notin rejections'
    <2>1. PICK e \in S : new[i] = Source(e)
        BY <1>8
    <2>2. new[i].env = e /\ new[i].batch = b
        BY <1>5, <2>1 DEF Source
    <2>3. <<e, b>> \notin Rejected(S)
        BY <1>12
    <2>4. <<e, b>> \notin rejections
        BY <1>7, <1>13
    <2> QED BY <1>1, <2>2, <2>3, <2>4
<1>20. ASSUME NEW i \in 1 .. Len(all)
       PROVE  <<all[i].env, all[i].batch>> \notin rejections'
    <2>1. CASE i <= Len(old)
        <3>1. i \in 1 .. Len(old) /\ all[i] = old[i]
            BY <1>7, <1>8, <1>9, <2>1
        <3> QED BY <1>18, <3>1
    <2>2. CASE i > Len(old)
        <3>1. PICK k \in 1 .. Len(new) : all[i] = new[k]
            BY <1>7, <1>8, <1>9, <2>2
        <3> QED BY <1>19, <3>1
    <2> QED BY <1>7, <1>8, <1>9, <2>1, <2>2
<1>21. PICK card : card = Cardinality(rejections)
    OBVIOUS
<1>22. PICK tried : tried = attempted
    OBVIOUS
<1>23. PICK many : many = Cardinality(S)
    OBVIOUS
<1>24. /\ card \in Nat /\ many \in 0 .. NumEnvs /\ NumEnvs \in Nat
       /\ Len(old) + card = tried
       /\ Cardinality(rejections') = card + (NumEnvs - many)
       /\ attempted' = tried + NumEnvs
       /\ Len(new) = AtMost(MinLayouts - Len(old), many)
    BY <1>2, <1>3, <1>7, <1>8, <1>11, <1>15, <1>21, <1>22, <1>23, PoolAssumption
       DEF AttemptsInv, AttemptsAddUp
<1>25. Len(all) + Cardinality(rejections') <= attempted'
    BY <1>7, <1>8, <1>9, <1>24 DEF AtMost
<1>26. ASSUME Len(all) < MinLayouts PROVE Len(all) + Cardinality(rejections') = attempted'
    <2>1. Len(new) = many
        BY <1>7, <1>8, <1>9, <1>24, <1>26 DEF AtMost
    <2> QED BY <1>7, <1>9, <1>24, <2>1
<1>27. AttemptsAddUp'
    BY <1>6, <1>9, <1>17, <1>20, <1>25, <1>26 DEF AttemptsAddUp
<1> QED BY <1>16, <1>27 DEF AttemptsInv

LEMMA AttemptsStepKeeps ==
    PoolInv /\ RecordingInv /\ AttemptsInv /\ [OfflineNext]_<<vars, recordingVars>> => AttemptsInv'
<1> SUFFICES ASSUME PoolInv, RecordingInv, AttemptsInv,
                    OfflineNext \/ UNCHANGED <<vars, recordingVars>>
             PROVE  AttemptsInv'
    OBVIOUS
<1>1. CASE SettleBatch
    BY <1>1, SettleAddsUp
<1>2. CASE ~ SettleBatch
    <2>1. UNCHANGED <<batchIndex, outcomes, attempted, rejections>>
        BY <1>2 DEF OfflineNext, PoolStep, Rollout, ResetForBatch, ResetAfterRefill, Write, recordingVars
    <2> QED BY <2>1 DEF AttemptsInv, RejectionsOfBatches, AttemptsAddUp
<1> QED BY <1>1, <1>2

LEMMA AttemptsInitKeeps == OfflineInit => AttemptsInv
<1> SUFFICES ASSUME OfflineInit PROVE AttemptsInv
    OBVIOUS
<1>1. batchIndex = 0 /\ outcomes = <<>> /\ attempted = 0 /\ rejections = {}
    BY DEF OfflineInit
<1>2. IsFiniteSet({}) /\ Cardinality({}) = 0 /\ Len(<<>>) = 0 /\ 0 * NumEnvs = 0
    BY FS_EmptySet, PoolAssumption
<1> QED BY <1>1, <1>2 DEF AttemptsInv, RejectionsOfBatches, AttemptsAddUp

-----------------------------------------------------------------------------
(* No environment is given a solved layout twice, across resets, refills,  *)
(* retries of a fill and the batches of a recording.                       *)
THEOREM LayoutsAreDrawnOnce == OfflineSpec => []NoLayoutTwice
<1>1. PoolInv => NoLayoutTwice
    <2> SUFFICES ASSUME PoolInv, NEW e \in Envs
                 PROVE  /\ IsInjective(Unread(pools[e]))
                        /\ drawn[e] \cap ToSet(Unread(pools[e])) = {}
        BY DEF NoLayoutTwice
    <2> DEFINE unread == Unread(pools[e])
               queue == pools[e].layouts
               cursor == pools[e].cursor
               left == Available(pools[e])
    <2>1. /\ DOMAIN unread = 1 .. left
          /\ \A i \in 1 .. left : cursor + i \in 1 .. Len(queue) /\ unread[i] = queue[cursor + i]
          /\ cursor \in Nat /\ left \in Nat /\ Len(queue) \in Nat
        BY UnreadFacts, QueueFacts DEF PoolInv, QueueSound
    <2>2. ASSUME NEW i \in 1 .. left, NEW j \in 1 .. left, unread[i] = unread[j]
          PROVE  i = j
        <3>1. cursor + i = cursor + j
            BY <2>1, <2>2 DEF PoolInv, QueueSound, NoneStoredTwice
        <3> QED BY <2>1, <3>1
    <2>3. ASSUME NEW i \in 1 .. left PROVE unread[i] \notin drawn[e]
        <3>1. cursor + i \in cursor + 1 .. Len(queue)
            BY <2>1
        <3>2. queue[cursor + i] \notin drawn[e]
            BY <3>1 DEF PoolInv, QueueSound, DrawnBehind
        <3> QED BY <2>1, <3>2
    <2> HIDE DEF unread
    <2>4. IsInjective(unread)
        BY <2>1, <2>2 DEF IsInjective
    <2>5. drawn[e] \cap ToSet(unread) = {}
        BY <2>1, <2>3 DEF ToSet
    <2> QED BY <2>4, <2>5 DEF unread
<1> QED BY <1>1, PoolInvariant, OfflineUsesThePool, PTL

(* A refill that does not raise is enough for the draw that asked for it.  *)
THEOREM RefillsSuffice == OfflineSpec => []RefillSuffices
<1>1. PoolInv => RefillSuffices
    BY DEF PoolInv, FillMeetsDemand, RefillSuffices
<1> QED BY <1>1, PoolInvariant, OfflineUsesThePool, PTL

(* The file of a recording holds at most as many layouts as were asked     *)
(* for, fewer only when the batches were used up; each passed the solver's *)
(* checks, none is there twice, and each has the outcome of its own pose.  *)
THEOREM RecordedLayoutsAreSound == OfflineSpec => []RecordingIsSound
<1>1. RecordingInv => RecordingIsSound
    <2> SUFFICES ASSUME RecordingInv, output # None
                 PROVE  /\ Len(output) \in 1 .. MinLayouts
                        /\ Len(output) < MinLayouts => batchIndex = MaxBatches
                        /\ \A i \in DOMAIN output :
                               /\ output[i].pose = output[i].outcome
                               /\ output[i].pose.layout.valid
                               /\ \A j \in DOMAIN output :
                                      i < j => InTurn(output[i].pose, output[j].pose)
        BY DEF RecordingIsSound, InTurn
    <2>1. stage = "done" /\ outcomes # <<>> /\ output = Rows
        BY DEF RecordingInv, OutputIsOfOutcomes
    <2>2. outcomes \in Seq(Outcomes) /\ Len(outcomes) \in Nat /\ Len(outcomes) # 0
        BY <2>1, EmptySeq, LenProperties DEF RecordingInv, RecordingTypeOK
    <2>3. /\ DOMAIN output = 1 .. Len(outcomes) /\ Len(output) = Len(outcomes)
          /\ \A i \in 1 .. Len(outcomes) : output[i].pose = outcomes[i] /\ output[i].outcome = outcomes[i]
        BY <2>1, <2>2 DEF Rows
    <2>4. /\ Len(outcomes) \in 1 .. MinLayouts
          /\ Len(outcomes) < MinLayouts => batchIndex = MaxBatches
        BY <2>1, <2>2, RecordingAssumption DEF RecordingInv, LoopUnderWay
    <2>5. /\ \A i \in 1 .. Len(outcomes) : outcomes[i].layout.valid
          /\ \A i, j \in 1 .. Len(outcomes) : i < j => InTurn(outcomes[i], outcomes[j])
        BY DEF RecordingInv, OutcomesSound, OutcomeSound
    <2> QED BY <2>3, <2>4, <2>5
<1> QED BY <1>1, RecordingInvariant, PTL

(* Every attempt of a recording has one outcome: a layout that was         *)
(* collected, a rejection, or, in the last batch, one more than were       *)
(* asked for.                                                              *)
THEOREM AttemptsAreAccounted == OfflineSpec => []AttemptsAddUp
<1>1. AttemptsInv => AttemptsAddUp
    BY DEF AttemptsInv
<1> QED BY <1>1, RecordingInvariant, AttemptsInitKeeps, AttemptsStepKeeps, PTL DEF OfflineSpec
=============================================================================
