--------------------------- MODULE RoomCacheProofs --------------------------
(***************************************************************************)
(* Proofs about RoomCache, for any events, any number of fetches and       *)
(* retries and any sizes of pages and channels: type correctness, that the *)
(* two maps of the reactions name the same reactions, and that a fetched   *)
(* message has everything that relates to it.                              *)
(***************************************************************************)
EXTENDS RoomCache, WellFoundedInduction, TLAPS

(***************************************************************************)
(* The timeline: an event is sent once, after the event it relates to, and *)
(* the target of a redaction is redacted.                                  *)
(***************************************************************************)
LogInv ==
    /\ \A i, j \in 1 .. Len(log) : log[i] = log[j] => i = j
    /\ \A j \in 1 .. Len(log) :
         Type[log[j]] \in Relations \ {"redaction"} =>
             \E i \in 1 .. Len(log) : i < j /\ log[i] = Target[log[j]]
    /\ \A j \in 1 .. Len(log) : Type[log[j]] = "redaction" => Target[log[j]] \in redacted

(* Only events that have been sent are in the cache and in the tasks.      *)
KnownInv ==
    /\ \A e \in Events : cache.related[e] \subseteq Sent
    /\ cache.encrypted \subseteq Sent
    /\ \A t \in Retriers : retry[t] \subseteq Sent

(* A loaded event was sent, and is still as it was loaded or worse.        *)
LoadedInv(x) ==
    /\ x.id \in Sent
    /\ x.view = "redacted" => x.id \in redacted
    /\ x.view = "utd" => x.id \in Encrypted

(***************************************************************************)
(* A fetch of a page: its chunk is the part of the timeline that ends at   *)
(* pos + Len(chunk), and it stops at the limit.                            *)
(***************************************************************************)
PageInv(x) ==
    x.op = "page" /\ x.pc \in {"load", "process"} =>
        /\ x.pc = "load" => x.chunk = <<>> /\ x.got < Limit
        /\ x.got = Limit => x.chunk = <<>>
        /\ x.got < Limit =>
             /\ x.pos + Len(x.chunk) <= x.start
             /\ \A i \in 1 .. Len(x.chunk) : x.chunk[i].id = log[x.pos + Len(x.chunk) + 1 - i]

FetchInv(x) ==
    /\ x.start <= Len(log)
    /\ \A i \in 1 .. Len(x.chunk) : LoadedInv(x.chunk[i])
    /\ PageInv(x)
    /\ x.op = "single" /\ x.pc = "process" => x.chunk # <<>>
    /\ x.pc = "load" => x.op = "page"

TypeInv ==
    /\ TypeOK
    /\ fetch \in [Fetchers -> Fetch]
    /\ LogInv
    /\ KnownInv
    /\ \A f \in Fetchers : FetchInv(fetch[f])

-----------------------------------------------------------------------------
(* A relation that can be read and nobody has removed is in the cache.     *)
Kept(e) ==
    /\ Type[e] \in Relations \ {"redaction"}
    /\ e \notin Encrypted \cup redacted \cup asked
    => e \in cache.related[Target[e]]

(***************************************************************************)
(* What makes Assembled inductive: a page has cached all relations between *)
(* where it is and where it began, and a single fetch those of its message *)
(* that it has not still to process.                                       *)
(***************************************************************************)
WalkInv(x) ==
    /\ x.op = "page" /\ x.pc \in {"load", "process"} /\ x.got < Limit =>
         \A j \in x.pos + Len(x.chunk) + 1 .. x.start : Kept(log[j])
    /\ x.op = "single" /\ x.pc = "process" =>
         \A j \in 1 .. x.start :
             Target[log[j]] = x.chunk[Len(x.chunk)].id =>
                 Kept(log[j]) \/ \E i \in 1 .. Len(x.chunk) : x.chunk[i].id = log[j]

(* The messages of a channel, whose edits have been sent.                  *)
PipeInv(x) ==
    \A i \in 1 .. Len(x.pipe) :
        /\ x.pipe[i].message.edit \in Sent \cup {None}
        /\ x.pipe[i].message.kind = "message" =>
             Reflects(x.pipe[i].message, x.pipe[i].id, x.start)

AssembleInv ==
    /\ TypeInv
    /\ \A f \in Fetchers : WalkInv(fetch[f]) /\ PipeInv(fetch[f])

-----------------------------------------------------------------------------
(* Positions of the timeline.                                              *)

(* A nonempty set of naturals has a least element.                         *)
LEMMA LeastNatural ==
    ASSUME NEW S \in SUBSET Nat, S # {}
    PROVE  \E x \in S : \A y \in S : x <= y
<1> DEFINE R == OpToRel(<, Nat)
<1>1. IsWellFoundedOn(R, Nat)
    BY NatLessThanWellFounded, Zenon
<1>2. \A x, y \in Nat : x < y => <<x, y>> \in R
    BY Zenon DEF OpToRel
<1> HIDE DEF R
<1>3. PICK x \in S : \A y \in S : <<y, x>> \notin R
    BY <1>1, WFMin
<1>4. ASSUME NEW y \in S PROVE x <= y
    <2>1. x \in Nat /\ y \in Nat
        OBVIOUS
    <2>2. ~ (y < x)
        BY <1>2, <1>3, <2>1
    <2> QED
        BY <2>1, <2>2
<1> QED
    BY <1>4

(* A nonempty set of positions up to p has a last one.                     *)
LEMMA LastPosition ==
    ASSUME NEW p \in Nat, NEW S \in SUBSET (1 .. p), S # {}
    PROVE  \E i \in S : \A j \in S : j <= i
<1> DEFINE T == {x \in 0 .. p : p - x \in S}
<1>1. PICK s \in S : TRUE
    OBVIOUS
<1>2. p - s \in T
    BY <1>1
<1>3. T \in SUBSET Nat
    OBVIOUS
<1>4. PICK x \in T : \A y \in T : x <= y
    BY <1>2, <1>3, LeastNatural
<1>5. ASSUME NEW j \in S PROVE j <= p - x
    <2>1. p - j \in T
        OBVIOUS
    <2>2. x <= p - j
        BY <1>4, <2>1
    <2> QED
        BY <2>2
<1> QED
    BY <1>4, <1>5

(* An event that was sent is at its position, and at no other.             *)
LEMMA PosFacts ==
    ASSUME log \in Seq(Events), LogInv
    PROVE  /\ \A e \in Sent : Pos(e) \in 1 .. Len(log) /\ log[Pos(e)] = e
           /\ \A i \in 1 .. Len(log) : log[i] \in Sent /\ log[i] \in Events /\ Pos(log[i]) = i
<1>0. DOMAIN log = 1 .. Len(log) /\ \A i \in 1 .. Len(log) : log[i] \in Events
    OBVIOUS
<1>1. ASSUME NEW e \in Sent PROVE Pos(e) \in 1 .. Len(log) /\ log[Pos(e)] = e
    <2>1. \E i \in DOMAIN log : log[i] = e
        BY DEF Sent
    <2>2. Pos(e) \in DOMAIN log /\ log[Pos(e)] = e
        BY <2>1, Zenon DEF Pos
    <2> QED
        BY <1>0, <2>2
<1>2. ASSUME NEW i \in 1 .. Len(log) PROVE log[i] \in Sent /\ log[i] \in Events /\ Pos(log[i]) = i
    <2>1. log[i] \in Sent /\ log[i] \in Events
        BY <1>0 DEF Sent
    <2>2. Pos(log[i]) \in 1 .. Len(log) /\ log[Pos(log[i])] = log[i]
        BY <1>1, <2>1
    <2> QED
        BY <2>1, <2>2 DEF LogInv
<1> QED
    BY <1>1, <1>2

(* What was sent is an event.                                              *)
LEMMA SentEvents == ASSUME log \in Seq(Events) PROVE Sent \subseteq Events
BY DEF Sent

(* apply_replacements: of edits that were sent there is a newest.          *)
LEMMA LatestFacts ==
    ASSUME log \in Seq(Events), LogInv, NEW S \in SUBSET Sent
    PROVE  /\ Latest(S) \in S \cup {None}
           /\ \A e \in S : Latest(S) # None /\ Pos(e) <= Pos(Latest(S))
<1>1. CASE S = {}
    BY <1>1 DEF Latest
<1>2. CASE S # {}
    <2> DEFINE P == {i \in 1 .. Len(log) : log[i] \in S}
    <2>0. Len(log) \in Nat
        OBVIOUS
    <2>1. \A e \in S : Pos(e) \in P /\ log[Pos(e)] = e
        BY PosFacts
    <2>2. P \in SUBSET (1 .. Len(log)) /\ P # {}
        BY <1>2, <2>1
    <2>3. PICK i \in P : \A j \in P : j <= i
        BY <2>0, <2>2, LastPosition
    <2>4. log[i] \in S /\ Pos(log[i]) = i
        BY <2>3, PosFacts
    <2>5. \E e \in S : \A d \in S : Pos(d) <= Pos(e)
        BY <2>1, <2>3, <2>4
    <2>6. Latest(S) = CHOOSE e \in S : \A d \in S : Pos(d) <= Pos(e)
        BY <1>2 DEF Latest
    <2>7. Latest(S) \in S /\ \A d \in S : Pos(d) <= Pos(Latest(S))
        BY <2>5, <2>6, Zenon
    <2>8. Latest(S) # None
        BY <2>7, SentEvents, RoomCacheAssumption
    <2> QED
        BY <2>7, <2>8
<1> QED
    BY <1>1, <1>2

(***************************************************************************)
(* One more event of the timeline: positions stay, and the events sent are *)
(* one more.                                                               *)
(***************************************************************************)
LEMMA LogGrows ==
    ASSUME log \in Seq(Events), LogInv, NEW e \in Events \ Sent, log' = Append(log, e)
    PROVE  /\ log' \in Seq(Events)
           /\ Len(log') = Len(log) + 1 /\ Len(log) \in Nat
           /\ \A i \in 1 .. Len(log) : log'[i] = log[i]
           /\ log'[Len(log) + 1] = e
           /\ Sent' = Sent \cup {e}
           /\ \A i, j \in 1 .. Len(log') : log'[i] = log'[j] => i = j
<1>1. /\ log' \in Seq(Events)
      /\ Len(log') = Len(log) + 1 /\ Len(log) \in Nat
      /\ \A i \in 1 .. Len(log) : log'[i] = log[i]
      /\ log'[Len(log) + 1] = e
    OBVIOUS
<1>2. DOMAIN log' = 1 .. Len(log) + 1 /\ DOMAIN log = 1 .. Len(log)
    BY <1>1
<1>3. \A i : i \in 1 .. Len(log) + 1 <=> (i \in 1 .. Len(log) \/ i = Len(log) + 1)
    BY <1>1
<1>4. Sent' = Sent \cup {e}
    BY <1>1, <1>2, <1>3 DEF Sent
<1>5. \A i \in 1 .. Len(log) : log[i] # e
    BY <1>2 DEF Sent
<1>6. \A i, j \in 1 .. Len(log') : log'[i] = log'[j] => i = j
    BY <1>1, <1>3, <1>5 DEF LogInv
<1> QED
    BY <1>1, <1>4, <1>6

(***************************************************************************)
(* The relations of an event.  The recursive function of RelatedTo exists  *)
(* for every length of the timeline (least counterexample), and what it    *)
(* returns are the events of the timeline that relate to the event.        *)
(***************************************************************************)
UpTo(f, n, m) ==
    IF n = 0 THEN <<>>
    ELSE IF Target[log[n]] = m THEN Append(f[n - 1], log[n]) ELSE f[n - 1]

(* For each length of the timeline there is a function that satisfies the  *)
(* recursive definition up to there.                                       *)
LEMMA UpToExists ==
    ASSUME NEW m, NEW n \in Nat
    PROVE  \E f : f = [i \in 0 .. n |-> UpTo(f, i, m)]
<1> DEFINE S == {k \in Nat : ~ \E f : f = [i \in 0 .. k |-> UpTo(f, i, m)]}
<1>1. SUFFICES ASSUME S # {} PROVE FALSE
    OBVIOUS
<1>2. PICK k \in S : \A l \in S : k <= l
    BY <1>1, LeastNatural
<1>3. CASE k = 0
    <2> DEFINE f == [i \in 0 .. 0 |-> <<>>]
    <2>1. f = [i \in 0 .. 0 |-> UpTo(f, i, m)]
        BY DEF UpTo
    <2> QED
        BY <1>3, <2>1
<1>4. CASE k # 0
    <2>0. k \in Nat /\ k - 1 \in Nat
        BY <1>4
    <2>1. k - 1 \notin S
        BY <1>2, <2>0
    <2>2. PICK g : g = [i \in 0 .. k - 1 |-> UpTo(g, i, m)]
        BY <2>0, <2>1
    <2> DEFINE f == [i \in 0 .. k |-> IF i = k THEN UpTo(g, k, m) ELSE g[i]]
    <2>3. ASSUME NEW i \in 0 .. k PROVE f[i] = UpTo(f, i, m)
        <3>1. CASE i = k
            <4>1. f[k - 1] = g[k - 1]
                BY <1>4, <2>0
            <4>2. f[i] = UpTo(g, k, m)
                BY <3>1
            <4> QED
                BY <1>4, <3>1, <4>1, <4>2 DEF UpTo
        <3>2. CASE i # k
            <4>1. i \in 0 .. k - 1
                BY <2>0, <3>2
            <4>2. f[i] = g[i] /\ g[i] = UpTo(g, i, m)
                BY <2>2, <3>2, <4>1
            <4>3. i # 0 => f[i - 1] = g[i - 1]
                BY <2>0, <4>1
            <4> QED
                BY <4>2, <4>3 DEF UpTo
        <3> QED
            BY <3>1, <3>2
    <2>4. f = [i \in 0 .. k |-> UpTo(f, i, m)]
        <3> HIDE DEF f
        <3>1. f = [i \in 0 .. k |-> f[i]]
            BY DEF f
        <3> QED
            BY <2>3, <3>1
    <2> QED
        BY <1>2, <2>4
<1> QED
    BY <1>3, <1>4

(* What the recursion has collected after each event.                      *)
LEMMA RelatedFacts ==
    ASSUME log \in Seq(Events), NEW m
    PROVE  /\ RelatedTo(m) \in Seq(Events)
           /\ \A k \in 1 .. Len(RelatedTo(m)) : RelatedTo(m)[k] \in Sent
           /\ \A j \in 1 .. Len(log) : Target[log[j]] = m =>
                \E k \in 1 .. Len(RelatedTo(m)) : RelatedTo(m)[k] = log[j]
<1> DEFINE F == CHOOSE f : f = [i \in 0 .. Len(log) |-> UpTo(f, i, m)]
<1>0. Len(log) \in Nat
    OBVIOUS
<1>1. \E f : f = [i \in 0 .. Len(log) |-> UpTo(f, i, m)]
    BY <1>0, UpToExists
<1>2. F = [i \in 0 .. Len(log) |-> UpTo(F, i, m)]
    BY <1>1, Zenon
<1>3. RelatedTo(m) = F[Len(log)]
    BY DEF RelatedTo, UpTo
<1> HIDE DEF F
<1> DEFINE Good(n) ==
             /\ F[n] \in Seq(Events)
             /\ \A k \in 1 .. Len(F[n]) : F[n][k] \in Sent
             /\ \A j \in 1 .. n : Target[log[j]] = m => \E k \in 1 .. Len(F[n]) : F[n][k] = log[j]
           Bad == {n \in 0 .. Len(log) : ~Good(n)}
<1>4. ASSUME Bad # {} PROVE FALSE
    <2>1. Bad \in SUBSET Nat
        BY <1>0
    <2>2. PICK n \in Bad : \A k \in Bad : n <= k
        BY <1>4, <2>1, LeastNatural
    <2>3. n \in 0 .. Len(log) /\ ~Good(n)
        OBVIOUS
    <2>4. F[n] = UpTo(F, n, m)
        BY <1>2, <2>3
    <2>5. CASE n = 0
        <3>1. F[n] = <<>>
            BY <2>4, <2>5 DEF UpTo
        <3>2. Good(n)
            BY <2>5, <3>1
        <3> QED
            BY <2>3, <3>2
    <2>6. CASE n # 0
        <3>1. n - 1 \in 0 .. Len(log) /\ ~ (n <= n - 1)
            BY <1>0, <2>3, <2>6
        <3>2. n - 1 \notin Bad
            BY <2>2, <3>1
        <3>3. Good(n - 1)
            BY <3>1, <3>2
        <3>4. n \in 1 .. Len(log) /\ log[n] \in Events /\ log[n] \in Sent
            BY <1>0, <2>3, <2>6 DEF Sent
        <3>5. CASE Target[log[n]] = m
            <4> DEFINE old == F[n - 1]
            <4>1. F[n] = Append(old, log[n])
                BY <2>4, <2>6, <3>5 DEF UpTo
            <4>2. old \in Seq(Events) /\ Len(old) \in Nat
                BY <3>3
            <4>3. /\ F[n] \in Seq(Events) /\ Len(F[n]) = Len(old) + 1
                  /\ \A k \in 1 .. Len(old) : F[n][k] = old[k]
                  /\ F[n][Len(old) + 1] = log[n]
                BY <3>4, <4>1, <4>2
            <4>4. \A k \in 1 .. Len(F[n]) : k \in 1 .. Len(old) \/ k = Len(old) + 1
                BY <4>2, <4>3
            <4>5. \A k \in 1 .. Len(F[n]) : F[n][k] \in Sent
                BY <3>3, <3>4, <4>3, <4>4
            <4>6. ASSUME NEW j \in 1 .. n, Target[log[j]] = m
                  PROVE  \E k \in 1 .. Len(F[n]) : F[n][k] = log[j]
                <5>1. CASE j = n
                    <6>1. Len(old) + 1 \in 1 .. Len(F[n]) /\ F[n][Len(old) + 1] = log[j]
                        BY <4>2, <4>3, <5>1
                    <6> QED
                        BY <6>1
                <5>2. CASE j # n
                    <6>1. j \in 1 .. n - 1
                        BY <3>4, <5>2
                    <6>2. PICK k \in 1 .. Len(old) : old[k] = log[j]
                        BY <3>3, <4>6, <6>1
                    <6>3. k \in 1 .. Len(F[n]) /\ F[n][k] = log[j]
                        BY <4>2, <4>3, <6>2
                    <6> QED
                        BY <6>3
                <5> QED
                    BY <5>1, <5>2
            <4>7. Good(n)
                BY <4>3, <4>5, <4>6
            <4> QED
                BY <2>3, <4>7
        <3>6. CASE Target[log[n]] # m
            <4>1. F[n] = F[n - 1]
                BY <2>4, <2>6, <3>6 DEF UpTo
            <4>2. \A j \in 1 .. n : Target[log[j]] = m => j \in 1 .. n - 1
                BY <3>4, <3>6
            <4>3. Good(n)
                BY <3>3, <4>1, <4>2
            <4> QED
                BY <2>3, <4>3
        <3> QED
            BY <3>5, <3>6
    <2> QED
        BY <2>5, <2>6
<1>5. Len(log) \notin Bad /\ Len(log) \in 0 .. Len(log)
    BY <1>0, <1>4
<1>6. Good(Len(log))
    BY <1>5
<1> QED
    BY <1>3, <1>6

-----------------------------------------------------------------------------
(* The operators of CachedRoom and what the application shows.             *)

(* The two maps of a CachedRoom name the same reactions.                   *)
Mapping(c) ==
    c.mapped = {e \in Events : Type[e] = "reaction" /\ e \in c.related[Target[e]]}

(* d is c with at most event e added to what relates to its target.        *)
Grown(c, d, e) ==
    /\ d \in CachedRoom
    /\ \A x \in Events : c.related[x] \subseteq d.related[x] /\ d.related[x] \subseteq c.related[x] \cup {e}
    /\ d.encrypted \subseteq c.encrypted \cup {e}
    /\ Mapping(c) => Mapping(d)

(* A relation has a target.                                                *)
LEMMA RelationTarget ==
    ASSUME NEW e \in Events, Type[e] \in Relations
    PROVE  Target[e] \in Events
BY RoomCacheAssumption

(* cache_reaction and its like.                                            *)
LEMMA InsertFacts ==
    ASSUME NEW c \in CachedRoom, NEW e \in Events, Type[e] \in Relations
    PROVE  /\ Grown(c, Insert(c, e), e)
           /\ e \in Insert(c, e).related[Target[e]]
<1> DEFINE t == Target[e]
           related == [c.related EXCEPT ![t] = @ \cup {e}]
           mapped == IF Type[e] = "reaction" THEN c.mapped \cup {e} ELSE c.mapped
           d == Insert(c, e)
<1>1. t \in Events
    BY RelationTarget
<1>2. c.related \in [Events -> SUBSET Events] /\ c.mapped \in SUBSET Events
    BY DEF CachedRoom
<1>3. d = [c EXCEPT !.related = related, !.mapped = mapped]
    BY DEF Insert
<1>4. related \in [Events -> SUBSET Events] /\ mapped \in SUBSET Events
    BY <1>1, <1>2
<1>5. d \in CachedRoom /\ d.related = related /\ d.mapped = mapped /\ d.encrypted = c.encrypted
    BY <1>3, <1>4 DEF CachedRoom
<1>6. \A x \in Events : related[x] = IF x = t THEN c.related[x] \cup {e} ELSE c.related[x]
    BY <1>1, <1>2
<1>7. Mapping(c) => Mapping(d)
    <2>1. SUFFICES ASSUME Mapping(c) PROVE Mapping(d)
        OBVIOUS
    <2>2. ASSUME NEW x \in Events
          PROVE  x \in mapped <=> (Type[x] = "reaction" /\ x \in related[Target[x]])
        <3>1. CASE x = e
            BY <1>1, <1>6, <2>1, <3>1 DEF Mapping
        <3>2. CASE x # e
            <4>1. x \in mapped <=> x \in c.mapped
                BY <3>2
            <4>2. Type[x] = "reaction" => Target[x] \in Events
                BY RelationTarget DEF Relations
            <4>3. Type[x] = "reaction" => (x \in related[Target[x]] <=> x \in c.related[Target[x]])
                BY <1>6, <3>2, <4>2
            <4> QED
                BY <2>1, <4>1, <4>3 DEF Mapping
        <3> QED
            BY <3>1, <3>2
    <2> HIDE DEF mapped, related, d
    <2> QED
        BY <1>4, <1>5, <2>2 DEF Mapping
<1> HIDE DEF related, mapped, d, t
<1>8. Grown(c, d, e)
    BY <1>5, <1>6, <1>7 DEF Grown
<1>9. e \in d.related[Target[e]]
    BY <1>1, <1>5, <1>6 DEF t
<1> QED
    BY <1>8, <1>9 DEF d

(* remove_reaction_by_id and remove_reaction_by_emoji.                     *)
LEMMA RemoveFacts ==
    ASSUME NEW c \in CachedRoom, NEW e \in Events, Type[e] = "reaction"
    PROVE  /\ Remove(c, e) \in CachedRoom
           /\ \A x \in Events : /\ Remove(c, e).related[x] \subseteq c.related[x]
                                /\ c.related[x] \subseteq Remove(c, e).related[x] \cup {e}
           /\ Remove(c, e).encrypted = c.encrypted
           /\ Mapping(c) => Mapping(Remove(c, e))
<1> DEFINE t == Target[e]
           related == [c.related EXCEPT ![t] = @ \ {e}]
           mapped == c.mapped \ {e}
           d == Remove(c, e)
<1>1. t \in Events
    BY RelationTarget DEF Relations
<1>2. c.related \in [Events -> SUBSET Events] /\ c.mapped \in SUBSET Events
    BY DEF CachedRoom
<1>3. d = [c EXCEPT !.related = related, !.mapped = mapped]
    BY DEF Remove
<1>4. related \in [Events -> SUBSET Events] /\ mapped \in SUBSET Events
    BY <1>1, <1>2
<1>5. d \in CachedRoom /\ d.related = related /\ d.mapped = mapped /\ d.encrypted = c.encrypted
    BY <1>3, <1>4 DEF CachedRoom
<1>6. \A x \in Events : related[x] = IF x = t THEN c.related[x] \ {e} ELSE c.related[x]
    BY <1>1, <1>2
<1>7. Mapping(c) => Mapping(d)
    <2>1. SUFFICES ASSUME Mapping(c) PROVE Mapping(d)
        OBVIOUS
    <2>2. ASSUME NEW x \in Events
          PROVE  x \in mapped <=> (Type[x] = "reaction" /\ x \in related[Target[x]])
        <3>1. CASE x = e
            BY <1>1, <1>6, <3>1
        <3>2. CASE x # e
            <4>1. x \in mapped <=> x \in c.mapped
                BY <3>2
            <4>2. Type[x] = "reaction" => Target[x] \in Events
                BY RelationTarget DEF Relations
            <4>3. Type[x] = "reaction" => (x \in related[Target[x]] <=> x \in c.related[Target[x]])
                BY <1>6, <3>2, <4>2
            <4> QED
                BY <2>1, <4>1, <4>3 DEF Mapping
        <3> QED
            BY <3>1, <3>2
    <2> HIDE DEF mapped, related, d
    <2> QED
        BY <1>4, <1>5, <2>2 DEF Mapping
<1> HIDE DEF related, mapped, d, t
<1>8. \A x \in Events : d.related[x] \subseteq c.related[x] /\ c.related[x] \subseteq d.related[x] \cup {e}
    BY <1>5, <1>6
<1> QED
    BY <1>5, <1>7, <1>8 DEF d

(* process_timeline_event: it adds at most the event, and a relation that  *)
(* can be read in any case.                                                *)
LEMMA ProcessFacts ==
    ASSUME NEW c \in CachedRoom, NEW e \in Events, NEW view \in {"clear", "utd", "redacted"}
    PROVE  /\ Grown(c, Process(c, e, view), e)
           /\ view = "clear" /\ Type[e] \in Relations => e \in Process(c, e, view).related[Target[e]]
           /\ view = "clear" /\ Type[e] \notin Relations => Process(c, e, view).related = c.related
<1> DEFINE clear == [c EXCEPT !.encrypted = @ \ {e}]
           utd == [c EXCEPT !.encrypted = @ \cup {e}]
<1>1. /\ clear \in CachedRoom /\ clear.related = c.related /\ clear.mapped = c.mapped
      /\ clear.encrypted \subseteq c.encrypted
    BY DEF CachedRoom
<1>2. /\ utd \in CachedRoom /\ utd.related = c.related /\ utd.mapped = c.mapped
      /\ utd.encrypted \subseteq c.encrypted \cup {e}
    BY DEF CachedRoom
<1>3. Process(c, e, view) = CASE view = "utd" -> utd
                              [] view = "redacted" -> c
                              [] view = "clear" ->
                                   IF Type[e] \in Relations THEN Insert(clear, e) ELSE clear
    BY DEF Process
<1> HIDE DEF clear, utd
<1>4. CASE view = "utd"
    BY <1>2, <1>3, <1>4 DEF Grown, Mapping
<1>5. CASE view = "redacted"
    BY <1>3, <1>5 DEF Grown, Mapping
<1>6. CASE view = "clear" /\ Type[e] \notin Relations
    <2>1. Process(c, e, view) = clear
        BY <1>3, <1>6
    <2> QED
        BY <1>1, <1>6, <2>1 DEF Grown, Mapping
<1>7. CASE view = "clear" /\ Type[e] \in Relations
    <2>1. Process(c, e, view) = Insert(clear, e)
        BY <1>3, <1>7
    <2>2. Grown(clear, Insert(clear, e), e) /\ e \in Insert(clear, e).related[Target[e]]
        BY <1>1, <1>7, InsertFacts
    <2>3. Grown(c, Insert(clear, e), e)
        BY <1>1, <2>2 DEF Grown, Mapping
    <2> QED
        BY <1>7, <2>1, <2>2, <2>3
<1> QED
    BY <1>4, <1>5, <1>6, <1>7

(* The message that is shown for an event is well typed.                   *)
LEMMA ResultTypes ==
    ASSUME log \in Seq(Events), LogInv, NEW c \in CachedRoom, NEW e \in Events,
           c.related[e] \subseteq Sent,
           NEW view \in {"clear", "utd", "redacted"}
    PROVE  Result(c, e, view) \in Message
<1>1. Absent \in Message
    BY DEF Absent, Message
<1>2. \A k \in {"encrypted", "removed"} : [Absent EXCEPT !.kind = k] \in Message
    BY DEF Absent, Message
<1>3. Build(c, e) \in Message
    <2> DEFINE S == OfType(c.related[e], IF Type[e] = "poll" THEN {"poll_edit"} ELSE {"edit"})
    <2>1. S \in SUBSET Sent
        BY DEF OfType
    <2>2. Latest(S) \in Events \cup {None}
        BY <2>1, LatestFacts, SentEvents
    <2>3. \A types : OfType(c.related[e], types) \subseteq Events
        BY SentEvents DEF OfType
    <2>4. Build(c, e) = [kind |-> "message", edit |-> Latest(S),
                         reactions |-> OfType(c.related[e], {"reaction"}),
                         votes |-> IF Type[e] = "poll"
                                     THEN OfType(c.related[e], {"response", "end"}) ELSE {}]
        BY DEF Build
    <2> HIDE DEF S
    <2> QED
        BY <2>2, <2>3, <2>4 DEF Message
<1> QED
    BY <1>1, <1>2, <1>3 DEF Result

(* What the application does with what it is sent keeps what it shows well *)
(* typed.                                                                  *)
LEMMA AppTypes ==
    ASSUME app \in [Events -> Message], NEW e \in Events
    PROVE  /\ \A message \in Message : Received(e, message) \in [Events -> Message]
           /\ \A edit \in Events \cup {None}, votes \in SUBSET Events :
                Changed(e, edit, votes) \in [Events -> Message]
           /\ Removed(e) \in [Events -> Message]
           /\ [app EXCEPT ![e] = Absent] \in [Events -> Message]
           /\ Target[e] \in Events =>
                /\ ReactionRemoved(e) \in [Events -> Message]
                /\ \A a \in [Events -> Message] : ReactionCreated(a, e) \in [Events -> Message]
<1>1. \A message \in Message : Received(e, message) \in [Events -> Message]
    BY DEF Received
<1>2. ASSUME NEW edit \in Events \cup {None}, NEW votes \in SUBSET Events
      PROVE  Changed(e, edit, votes) \in [Events -> Message]
    <2>1. app[e] \in Message
        OBVIOUS
    <2>2. \A x \in Message :
             [x EXCEPT !.kind = "message", !.edit = edit, !.votes = votes] \in Message
        BY DEF Message
    <2>3. [app[e] EXCEPT !.kind = "message", !.edit = edit, !.votes = votes] \in Message
        BY <2>1, <2>2
    <2> QED
        BY <2>3 DEF Changed
<1>3. Removed(e) \in [Events -> Message]
    BY DEF Removed, Message
<1>4. [app EXCEPT ![e] = Absent] \in [Events -> Message]
    <2>1. Absent \in Message
        BY DEF Absent, Message
    <2> QED
        BY <2>1
<1>5. Target[e] \in Events => ReactionRemoved(e) \in [Events -> Message]
    BY DEF ReactionRemoved, Message
<1>6. ASSUME Target[e] \in Events, NEW a \in [Events -> Message]
      PROVE  ReactionCreated(a, e) \in [Events -> Message]
    <2>1. a[Target[e]] \in Message /\ a[Target[e]].reactions \cup {e} \in SUBSET Events
        BY <1>6 DEF Message
    <2> QED
        BY <1>6, <2>1 DEF ReactionCreated, Message
<1> QED
    BY <1>1, <1>2, <1>3, <1>4, <1>5, <1>6

-----------------------------------------------------------------------------
(* Types: frames.                                                          *)

(* A fetch on its own.                                                     *)
FetchOK(x) == x \in Fetch /\ x.got <= Limit /\ Len(x.pipe) <= Capacity + 1

(* The fields of a fetch.                                                  *)
LEMMA FetchFields ==
    ASSUME NEW x \in Fetch
    PROVE  /\ x.start \in Nat /\ x.pos \in Nat /\ x.got \in Nat
           /\ x.chunk \in Seq(Loaded) /\ Len(x.chunk) \in Nat
           /\ x.pipe \in Seq([id : Events, message : Message]) /\ Len(x.pipe) \in Nat
           /\ \A i \in 1 .. Len(x.chunk) :
                /\ x.chunk[i].id \in Events
                /\ x.chunk[i].view \in {"clear", "utd", "redacted"}
<1>1. /\ x.start \in Nat /\ x.pos \in Nat /\ x.got \in Nat
      /\ x.chunk \in Seq(Loaded)
      /\ x.pipe \in Seq([id : Events, message : Message])
    BY DEF Fetch
<1>2. \A i \in 1 .. Len(x.chunk) : x.chunk[i] \in Loaded
    BY <1>1
<1>3. Len(x.chunk) \in Nat /\ Len(x.pipe) \in Nat
    BY <1>1
<1> QED
    BY <1>1, <1>2, <1>3 DEF Loaded

(* The timeline has at most grown and nothing is no longer redacted.       *)
TimelineGrows ==
    /\ Len(log) <= Len(log') /\ Len(log') \in Nat
    /\ \A i \in 1 .. Len(log) : log'[i] = log[i]
    /\ Sent \subseteq Sent'
    /\ redacted \subseteq redacted'

(* A fetch that does nothing is not disturbed by the timeline.             *)
LEMMA FetchStays ==
    ASSUME TypeInv, TimelineGrows, NEW f \in Fetchers, fetch'[f] = fetch[f]
    PROVE  FetchInv(fetch[f])'
<1> DEFINE x == fetch[f]
<1>0. /\ x \in Fetch /\ x.start \in Nat /\ x.pos \in Nat /\ x.chunk \in Seq(Loaded)
      /\ Len(x.chunk) \in Nat /\ Len(log) \in Nat /\ x.got \in Nat
    <2>1. x \in Fetch /\ log \in Seq(Events)
        BY DEF TypeInv, TypeOK
    <2> HIDE DEF x
    <2> QED
        BY <2>1, FetchFields
<1>1. FetchInv(x)
    BY DEF TypeInv
<1>2. x.start <= Len(log')
    BY <1>0, <1>1 DEF FetchInv, TimelineGrows
<1>3. ASSUME NEW i \in 1 .. Len(fetch'[f].chunk) PROVE LoadedInv(fetch[f].chunk[i])'
    BY <1>1 DEF FetchInv, LoadedInv, TimelineGrows
<1>4. ASSUME x.op = "page", x.pc \in {"load", "process"}, x.got < Limit,
             NEW i \in 1 .. Len(x.chunk)
      PROVE  x.chunk[i].id = log'[x.pos + Len(x.chunk) + 1 - i]
    <2>1. /\ x.pos + Len(x.chunk) <= x.start
          /\ x.chunk[i].id = log[x.pos + Len(x.chunk) + 1 - i]
        BY <1>1, <1>4 DEF FetchInv, PageInv
    <2>2. x.pos + Len(x.chunk) + 1 - i \in 1 .. Len(log)
        BY <1>0, <1>1, <2>1 DEF FetchInv
    <2> QED
        BY <2>1, <2>2 DEF TimelineGrows
<1>5. PageInv(fetch[f])'
    BY <1>1, <1>4 DEF FetchInv, PageInv
<1> QED
    BY <1>1, <1>2, <1>3, <1>5 DEF FetchInv

(* A step of one fetch: the rest of the types follow from those of the new *)
(* state of the fetch.                                                     *)
LEMMA FetchFrame ==
    ASSUME TypeInv, NEW f \in Fetchers, NEW y,
           fetch' = [fetch EXCEPT ![f] = y], FetchOK(y), FetchInv(y),
           UNCHANGED <<server, synced, retry, removing, asked>>,
           fetches' \in 0 .. MaxFetches,
           app' \in [Events -> Message],
           cache' = cache \/ \E e \in Sent : Grown(cache, cache', e)
    PROVE  TypeInv'
<1>1. log' = log /\ redacted' = redacted /\ keys' = keys /\ synced' = synced /\ Sent' = Sent
    BY DEF server, Sent
<1>2. fetch \in [Fetchers -> Fetch] /\ y \in Fetch /\ fetch' \in [Fetchers -> Fetch]
    BY DEF TypeInv, FetchOK
<1>3. fetch'[f] = y /\ \A g \in Fetchers : g # f => fetch'[g] = fetch[g]
    BY <1>2
<1>4. cache' \in CachedRoom
    BY DEF TypeInv, TypeOK, Grown
<1>5. TypeOK'
    <2>1. \A g \in Fetchers : /\ fetch'[g] \in Fetch
                              /\ fetch'[g].got <= Limit
                              /\ Len(fetch'[g].pipe) <= Capacity + 1
        BY <1>2, <1>3 DEF TypeInv, TypeOK, FetchOK
    <2> QED
        BY <1>1, <1>4, <2>1 DEF TypeInv, TypeOK
<1>6. LogInv'
    BY <1>1 DEF TypeInv, LogInv
<1>7. KnownInv'
    BY <1>1 DEF TypeInv, KnownInv, Grown
<1>8. TimelineGrows
    <2>1. Len(log) \in Nat
        BY DEF TypeInv, TypeOK
    <2> QED
        BY <1>1, <2>1 DEF TimelineGrows
<1>9. FetchInv(fetch[f])'
    BY <1>1, <1>3 DEF FetchInv, LoadedInv, PageInv
<1>10. ASSUME NEW g \in Fetchers PROVE FetchInv(fetch[g])'
    BY <1>3, <1>8, <1>9, FetchStays
<1> QED
    BY <1>2, <1>5, <1>6, <1>7, <1>10 DEF TypeInv

(* A step that is of no fetch.                                             *)
LEMMA OtherFrame ==
    ASSUME TypeInv, TypeOK', LogInv', KnownInv', TimelineGrows, UNCHANGED fetch
    PROVE  TypeInv'
<1>1. ASSUME NEW g \in Fetchers PROVE FetchInv(fetch[g])'
    BY FetchStays
<1> QED
    BY <1>1 DEF TypeInv

(* Unless the timeline changes, it is as it was.                           *)
LEMMA LogStays ==
    ASSUME TypeInv, log' = log, redacted' = redacted
    PROVE  LogInv' /\ TimelineGrows /\ Sent' = Sent
<1>1. Len(log) \in Nat
    BY DEF TypeInv, TypeOK
<1> QED
    BY <1>1 DEF TypeInv, LogInv, TimelineGrows, Sent

(***************************************************************************)
(* What a step does to the cache: it adds what was sent, or removes a      *)
(* reaction that somebody has redacted or the application removes.         *)
(***************************************************************************)
CacheStep ==
    \/ cache' = cache
    \/ \E e \in Sent : Grown(cache, cache', e)
    \/ \E r \in Events : /\ r \in redacted \cup asked'
                         /\ Type[r] = "reaction"
                         /\ cache' = Remove(cache, r)

(* A step of a retry, of the executor or of a removal: it leaves the       *)
(* timeline and the fetches alone.                                         *)
LEMMA QuietFrame ==
    ASSUME TypeInv, UNCHANGED <<server, fetch, fetches>>, CacheStep,
           synced' \in 0 .. Len(log),
           retry' \in [Retriers -> SUBSET Events], \A t \in Retriers : retry'[t] \subseteq Sent,
           removing' \subseteq Events, asked' \subseteq Events,
           app' \in [Events -> Message]
    PROVE  TypeInv'
<1>1. log' = log /\ redacted' = redacted /\ keys' = keys
    BY DEF server
<1>2. LogInv' /\ TimelineGrows /\ Sent' = Sent
    BY <1>1, LogStays
<1>3. /\ cache' \in CachedRoom
      /\ \A x \in Events : cache'.related[x] \subseteq Sent
      /\ cache'.encrypted \subseteq Sent
    <2>1. cache \in CachedRoom /\ KnownInv
        BY DEF TypeInv, TypeOK
    <2>2. CASE cache' = cache \/ \E e \in Sent : Grown(cache, cache', e)
        BY <2>1, <2>2 DEF Grown, KnownInv
    <2>3. ASSUME NEW r \in Events, Type[r] = "reaction", cache' = Remove(cache, r)
          PROVE  /\ cache' \in CachedRoom
                 /\ \A x \in Events : cache'.related[x] \subseteq cache.related[x]
                 /\ cache'.encrypted = cache.encrypted
        BY <2>1, <2>3, RemoveFacts
    <2> QED
        BY <2>1, <2>2, <2>3 DEF CacheStep, KnownInv
<1>4. KnownInv'
    BY <1>2, <1>3 DEF KnownInv
<1>5. TypeOK'
    BY <1>1, <1>3 DEF TypeInv, TypeOK
<1> QED
    BY <1>2, <1>4, <1>5, OtherFrame

(* One more event that relates to an event that was sent.                  *)
LEMMA LogStep ==
    ASSUME TypeInv, NEW e \in Events \ Sent, log' = Append(log, e),
           redacted \subseteq redacted',
           Type[e] = "redaction" => Target[e] \in redacted',
           Type[e] \in Relations \ {"redaction"} => Target[e] \in Sent
    PROVE  LogInv' /\ TimelineGrows /\ log' \in Seq(Events) /\ Len(log') = Len(log) + 1
<1>0. log \in Seq(Events) /\ LogInv
    BY DEF TypeInv, TypeOK
<1>1. /\ log' \in Seq(Events)
      /\ Len(log') = Len(log) + 1 /\ Len(log) \in Nat
      /\ \A i \in 1 .. Len(log) : log'[i] = log[i]
      /\ log'[Len(log) + 1] = e
      /\ Sent' = Sent \cup {e}
      /\ \A i, j \in 1 .. Len(log') : log'[i] = log'[j] => i = j
    BY <1>0, LogGrows
<1>2. \A i : i \in 1 .. Len(log') <=> (i \in 1 .. Len(log) \/ i = Len(log) + 1)
    BY <1>1
<1>3. TimelineGrows
    BY <1>1 DEF TimelineGrows
<1>4. ASSUME NEW j \in 1 .. Len(log'), Type[log'[j]] \in Relations \ {"redaction"}
      PROVE  \E i \in 1 .. Len(log') : i < j /\ log'[i] = Target[log'[j]]
    <2>1. CASE j \in 1 .. Len(log)
        <3>1. PICK i \in 1 .. Len(log) : i < j /\ log[i] = Target[log[j]]
            BY <1>0, <1>1, <1>4, <2>1 DEF LogInv
        <3> QED
            BY <1>1, <1>2, <2>1, <3>1
    <2>2. CASE j = Len(log) + 1
        <3>1. Target[e] \in Sent
            BY <1>1, <1>4, <2>2
        <3>2. Pos(Target[e]) \in 1 .. Len(log) /\ log[Pos(Target[e])] = Target[e]
            BY <1>0, <3>1, PosFacts
        <3>3. Pos(Target[e]) < j
            BY <1>1, <2>2, <3>2
        <3> QED
            BY <1>1, <1>2, <2>2, <3>2, <3>3
    <2> QED
        BY <1>2, <2>1, <2>2
<1>5. ASSUME NEW j \in 1 .. Len(log'), Type[log'[j]] = "redaction"
      PROVE  Target[log'[j]] \in redacted'
    BY <1>0, <1>1, <1>2, <1>5 DEF LogInv
<1>6. LogInv'
    BY <1>1, <1>4, <1>5 DEF LogInv
<1> QED
    BY <1>1, <1>3, <1>6

-----------------------------------------------------------------------------
(* Types: the actions.                                                     *)

(* The types hold initially: nothing is in the room and nobody fetches.    *)
LEMMA TypesInit == Init => TypeInv
<1> SUFFICES ASSUME Init PROVE TypeInv
    OBVIOUS
<1>1. log = <<>> /\ log \in Seq(Events) /\ Len(log) = 0
    BY DEF Init
<1>2. /\ IdleFetch \in Fetch
      /\ IdleFetch.pc = "idle" /\ IdleFetch.start = 0 /\ Len(IdleFetch.chunk) = 0
      /\ IdleFetch.got = 0 /\ Len(IdleFetch.pipe) = 0
    BY DEF IdleFetch, Fetch
<1>3. fetch \in [Fetchers -> Fetch] /\ \A f \in Fetchers : fetch[f] = IdleFetch
    BY <1>2 DEF Init
<1>4. cache \in CachedRoom /\ cache.encrypted = {} /\ \A e \in Events : cache.related[e] = {}
    BY DEF Init, InitCache, CachedRoom
<1>5. app \in [Events -> Message]
    BY DEF Init, Absent, Message
<1>6. TypeOK
    <2>1. \A f \in Fetchers : /\ fetch[f] \in Fetch
                              /\ fetch[f].got <= Limit
                              /\ Len(fetch[f].pipe) <= Capacity + 1
        BY <1>2, <1>3, RoomCacheAssumption
    <2>2. synced \in 0 .. Len(log) /\ fetches \in 0 .. MaxFetches
        BY <1>1, RoomCacheAssumption DEF Init
    <2>3. /\ redacted \subseteq Events /\ keys \subseteq Encrypted
          /\ retry \in [Retriers -> SUBSET Events]
          /\ removing \subseteq Events /\ asked \subseteq Events
        BY DEF Init
    <2> QED
        BY <1>1, <1>4, <1>5, <2>1, <2>2, <2>3 DEF TypeOK
<1>7. LogInv
    BY <1>1 DEF LogInv
<1>8. KnownInv
    BY <1>4 DEF KnownInv, Init
<1>9. ASSUME NEW f \in Fetchers PROVE FetchInv(fetch[f])
    BY <1>1, <1>2, <1>3 DEF FetchInv, PageInv
<1> QED
    BY <1>3, <1>6, <1>7, <1>8, <1>9 DEF TypeInv

(* The homeserver.                                                         *)
LEMMA ServerTypes ==
    ASSUME TypeInv, NEW e \in Events, SendEvent(e) \/ KeyArrives(e)
    PROVE  TypeInv'
<1>0. TypeOK /\ KnownInv
    BY DEF TypeInv
<1>1. CASE SendEvent(e)
    <2>1. /\ e \notin Sent /\ log' = Append(log, e)
          /\ Target[e] # None => Target[e] \in Sent
          /\ redacted' = IF Type[e] = "redaction" THEN redacted \cup {Target[e]} ELSE redacted
          /\ UNCHANGED <<keys, synced, cache, fetch, retry, removing, fetches, asked, app>>
        BY <1>1 DEF SendEvent
    <2>2. Type[e] \in Relations => Target[e] \in Events /\ Target[e] \in Sent
        BY <2>1, RelationTarget, RoomCacheAssumption
    <2>3. redacted \subseteq redacted' /\ (Type[e] = "redaction" => Target[e] \in redacted')
        BY <2>1
    <2>4. LogInv' /\ TimelineGrows /\ log' \in Seq(Events) /\ Len(log') = Len(log) + 1
        BY <2>1, <2>2, <2>3, LogStep
    <2>5. redacted' \subseteq Events
        BY <1>0, <2>1, <2>2 DEF TypeOK, Relations
    <2>6. synced \in 0 .. Len(log')
        BY <1>0, <2>4 DEF TypeOK
    <2>7. TypeOK'
        BY <1>0, <2>1, <2>4, <2>5, <2>6 DEF TypeOK
    <2>8. KnownInv'
        BY <1>0, <2>1, <2>4 DEF KnownInv, TimelineGrows
    <2> QED
        BY <2>1, <2>4, <2>7, <2>8, OtherFrame
<1>2. CASE KeyArrives(e)
    <2>1. /\ e \in Encrypted /\ keys' = keys \cup {e}
          /\ UNCHANGED <<log, redacted, synced, cache, fetch, retry, removing, fetches, asked, app>>
        BY <1>2 DEF KeyArrives
    <2>2. TypeOK'
        BY <1>0, <2>1 DEF TypeOK
    <2>3. LogInv' /\ TimelineGrows /\ Sent' = Sent
        BY <2>1, LogStays
    <2>4. KnownInv'
        BY <1>0, <2>1, <2>3 DEF KnownInv
    <2> QED
        BY <2>1, <2>2, <2>3, <2>4, OtherFrame
<1> QED
    BY <1>1, <1>2

(* An event that is loaded is as it is on the homeserver.                  *)
LEMMA ViewFacts ==
    ASSUME NEW e \in Sent, Sent \subseteq Events
    PROVE  /\ [id |-> e, view |-> View(e)] \in Loaded
           /\ LoadedInv([id |-> e, view |-> View(e)])
<1>1. /\ View(e) \in {"clear", "utd", "redacted"}
      /\ View(e) = "redacted" => e \in redacted
      /\ View(e) = "utd" => e \in Encrypted
    BY DEF View
<1> QED
    BY <1>1 DEF Loaded, LoadedInv

(* A fetch begins, or is idle again.                                       *)
LEMMA BeginTypes ==
    ASSUME TypeInv, NEW f \in Fetchers,
           BeginFetch(f) \/ (\E m \in Events : BeginSingle(f, m)) \/ Finish(f)
    PROVE  TypeInv'
<1>0. TypeOK /\ LogInv /\ log \in Seq(Events) /\ Len(log) \in Nat /\ Sent \subseteq Events
    BY SentEvents DEF TypeInv, TypeOK
<1>1. /\ IdleFetch \in Fetch
      /\ IdleFetch.pc = "idle" /\ IdleFetch.start = 0 /\ IdleFetch.chunk = <<>>
      /\ IdleFetch.got = 0 /\ IdleFetch.pipe = <<>> /\ IdleFetch.op = "page"
    BY DEF IdleFetch, Fetch
<1>2. UNCHANGED <<server, synced, cache, retry, removing, asked, app>>
    BY DEF BeginFetch, BeginSingle, Finish
<1>3. fetches' \in 0 .. MaxFetches
    <2>1. (fetches < MaxFetches /\ fetches' = fetches + 1) \/ fetches' = fetches
        BY DEF BeginFetch, BeginSingle, Finish
    <2>2. fetches \in 0 .. MaxFetches /\ MaxFetches \in Nat
        BY <1>0, RoomCacheAssumption DEF TypeOK
    <2> QED
        BY <2>1, <2>2
<1>4. app' \in [Events -> Message]
    BY <1>0, <1>2 DEF TypeOK
<1>5. SUFFICES ASSUME TRUE
               PROVE  \E y : /\ fetch' = [fetch EXCEPT ![f] = y]
                             /\ FetchOK(y) /\ FetchInv(y)
    BY <1>2, <1>3, <1>4, FetchFrame
<1>6. CASE BeginFetch(f)
    <2>1. PICK start \in {Len(log)} \cup {Pos(m) - 1 : m \in {e \in Sent : app[e].kind # "absent"}} :
             fetch' = [fetch EXCEPT ![f] = [IdleFetch EXCEPT !.pc = "load", !.start = start,
                                                             !.pos = start]]
        BY <1>6 DEF BeginFetch
    <2>2. start \in 0 .. Len(log)
        <3>1. CASE start = Len(log)
            BY <1>0, <3>1
        <3>2. CASE start # Len(log)
            <4>1. PICK m \in Sent : start = Pos(m) - 1
                BY <2>1, <3>2
            <4>2. Pos(m) \in 1 .. Len(log)
                BY <1>0, <4>1, PosFacts
            <4> QED
                BY <1>0, <4>1, <4>2
        <3> QED
            BY <3>1, <3>2
    <2> DEFINE y == [IdleFetch EXCEPT !.pc = "load", !.start = start, !.pos = start]
    <2>3. /\ y \in Fetch /\ y.pc = "load" /\ y.op = "page" /\ y.start = start /\ y.pos = start
          /\ y.chunk = <<>> /\ y.got = 0 /\ y.pipe = <<>>
        <3>1. start \in Nat
            BY <1>0, <2>2
        <3>2. \A x \in Fetch, n \in Nat :
                 [x EXCEPT !.pc = "load", !.start = n, !.pos = n] \in Fetch
            BY DEF Fetch
        <3>3. y \in Fetch
            BY <1>1, <3>1, <3>2
        <3>4. /\ y.pc = "load" /\ y.op = "page" /\ y.start = start /\ y.pos = start
              /\ y.chunk = <<>> /\ y.got = 0 /\ y.pipe = <<>>
            BY DEF IdleFetch
        <3> QED
            BY <3>3, <3>4
    <2> HIDE DEF y
    <2>4. FetchOK(y)
        BY <2>3, RoomCacheAssumption DEF FetchOK
    <2>5. FetchInv(y)
        BY <1>0, <2>2, <2>3, RoomCacheAssumption DEF FetchInv, PageInv
    <2> QED
        BY <2>1, <2>4, <2>5 DEF y
<1>7. ASSUME NEW m \in Events, BeginSingle(f, m)
      PROVE  \E y : fetch' = [fetch EXCEPT ![f] = y] /\ FetchOK(y) /\ FetchInv(y)
    <2> DEFINE ids == Append(RelatedTo(m), m)
               chunk == [i \in DOMAIN ids |-> [id |-> ids[i], view |-> View(ids[i])]]
               y == [IdleFetch EXCEPT !.pc = "process", !.op = "single", !.start = Len(log),
                                      !.chunk = chunk]
    <2>1. m \in Sent /\ fetch' = [fetch EXCEPT ![f] = y]
        BY <1>7 DEF BeginSingle
    <2>2. /\ RelatedTo(m) \in Seq(Events)
          /\ \A k \in 1 .. Len(RelatedTo(m)) : RelatedTo(m)[k] \in Sent
        BY <1>0, RelatedFacts
    <2> HIDE DEF y
    <2>3. /\ ids \in Seq(Events) /\ Len(ids) = Len(RelatedTo(m)) + 1 /\ Len(ids) \in Nat \ {0}
          /\ DOMAIN ids = 1 .. Len(ids)
        BY <2>2
    <2>4. \A k \in 1 .. Len(ids) : ids[k] \in Sent
        BY <2>1, <2>2
    <2> HIDE DEF ids
    <2>5. \A k \in 1 .. Len(ids) : chunk[k] \in Loaded /\ LoadedInv(chunk[k])
        BY <1>0, <2>3, <2>4, ViewFacts
    <2>6. chunk \in Seq(Loaded) /\ Len(chunk) = Len(ids)
        BY <2>3, <2>5
    <2> HIDE DEF chunk
    <2>7. /\ y \in Fetch /\ y.pc = "process" /\ y.op = "single" /\ y.start = Len(log)
          /\ y.chunk = chunk /\ y.got = 0 /\ y.pipe = <<>>
        <3>1. \A x \in Fetch, n \in Nat, s \in Seq(Loaded) :
                 [x EXCEPT !.pc = "process", !.op = "single", !.start = n, !.chunk = s] \in Fetch
            BY DEF Fetch
        <3>2. y \in Fetch
            BY <1>0, <1>1, <2>6, <3>1 DEF y
        <3>3. /\ y.pc = "process" /\ y.op = "single" /\ y.start = Len(log)
              /\ y.chunk = chunk /\ y.got = 0 /\ y.pipe = <<>>
            BY DEF y, IdleFetch
        <3> QED
            BY <3>2, <3>3
    <2>8. FetchOK(y)
        BY <2>7, RoomCacheAssumption DEF FetchOK
    <2>9. chunk # <<>>
        BY <2>3, <2>6
    <2>10. FetchInv(y)
        BY <1>0, <2>5, <2>6, <2>7, <2>9 DEF FetchInv, PageInv
    <2> QED
        BY <2>1, <2>8, <2>10
<1>8. CASE Finish(f)
    <2>1. fetch' = [fetch EXCEPT ![f] = IdleFetch]
        BY <1>8 DEF Finish
    <2>2. FetchOK(IdleFetch) /\ FetchInv(IdleFetch)
        BY <1>0, <1>1, RoomCacheAssumption DEF FetchOK, FetchInv, PageInv
    <2> QED
        BY <2>1, <2>2
<1> QED
    BY <1>6, <1>7, <1>8

(* A page of the timeline is loaded or cannot be, or its chunk is done.    *)
LEMMA LoadTypes ==
    ASSUME TypeInv, NEW f \in Fetchers, LoadChunk(f) \/ LoadFails(f) \/ ChunkDone(f)
    PROVE  TypeInv'
<1> DEFINE x == fetch[f]
<1>0. TypeOK /\ LogInv /\ log \in Seq(Events) /\ Len(log) \in Nat /\ Sent \subseteq Events
    BY SentEvents DEF TypeInv, TypeOK
<1>1. x \in Fetch /\ FetchOK(x) /\ FetchInv(x)
    BY DEF TypeInv, TypeOK, FetchOK
<1>2. UNCHANGED <<server, synced, cache, retry, removing, fetches, asked, app>>
    BY DEF LoadChunk, LoadFails, ChunkDone
<1>3. fetches' \in 0 .. MaxFetches /\ app' \in [Events -> Message]
    BY <1>0, <1>2 DEF TypeOK
<1>4. SUFFICES ASSUME TRUE
               PROVE  \E y : /\ fetch' = [fetch EXCEPT ![f] = y]
                             /\ FetchOK(y) /\ FetchInv(y)
    BY <1>2, <1>3, FetchFrame
<1>5. CASE LoadChunk(f)
    <2> DEFINE pos == x.pos
               n == IF pos < ChunkSize THEN pos ELSE ChunkSize
    <2>1. PICK end \in BOOLEAN :
             fetch' = [fetch EXCEPT ![f] = [x EXCEPT !.pc = "process", !.chunk = Chunk(pos, n),
                                                     !.pos = pos - n, !.end = end]]
        BY <1>5 DEF LoadChunk
    <2>2. x.pc = "load"
        BY <1>5 DEF LoadChunk
    <2> DEFINE chunk == Chunk(pos, n)
               y == [x EXCEPT !.pc = "process", !.chunk = chunk, !.pos = pos - n, !.end = end]
    <2>3. fetch' = [fetch EXCEPT ![f] = y]
        BY <2>1
    <2> HIDE DEF y, x
    <2>4. x.op = "page" /\ x.got < Limit /\ x.pos + Len(x.chunk) <= x.start /\ x.chunk = <<>>
        BY <1>1, <2>2 DEF FetchInv, PageInv
    <2>5. x.pos \in Nat /\ x.start \in Nat /\ x.got \in Nat /\ x.start <= Len(log)
        BY <1>1, FetchFields DEF FetchInv
    <2>6. pos \in Nat /\ pos <= x.start
        BY <2>4, <2>5
    <2>7. n \in Nat /\ n <= pos
        BY <2>6, RoomCacheAssumption
    <2> HIDE DEF pos, n
    <2>8. pos <= Len(log)
        BY <1>0, <2>5, <2>6
    <2>9. ASSUME NEW i \in 1 .. n
          PROVE  /\ chunk[i] \in Loaded /\ LoadedInv(chunk[i])
                 /\ chunk[i].id = log[pos + 1 - i]
        <3>1. pos + 1 - i \in 1 .. Len(log)
            BY <1>0, <2>6, <2>7, <2>8
        <3>2. log[pos + 1 - i] \in Sent
            BY <1>0, <3>1, PosFacts
        <3>3. chunk[i] = [id |-> log[pos + 1 - i], view |-> View(log[pos + 1 - i])]
            BY <2>7 DEF Chunk
        <3> QED
            BY <1>0, <3>2, <3>3, ViewFacts
    <2>10. chunk \in Seq(Loaded) /\ Len(chunk) = n
        <3>1. chunk = [i \in 1 .. n |-> chunk[i]]
            BY DEF Chunk
        <3> HIDE DEF chunk
        <3> QED
            BY <2>7, <2>9, <3>1
    <2> HIDE DEF chunk
    <2>11. /\ y \in Fetch /\ y.pc = "process" /\ y.op = "page" /\ y.start = x.start
           /\ y.pos = pos - n /\ y.chunk = chunk /\ y.got = x.got /\ y.pipe = x.pipe
        <3>1. \A r \in Fetch, k \in Nat, s \in Seq(Loaded) :
                 [r EXCEPT !.pc = "process", !.chunk = s, !.pos = k, !.end = end] \in Fetch
            BY <2>1 DEF Fetch
        <3>2. pos - n \in Nat
            BY <2>6, <2>7
        <3>3. y \in Fetch
            BY <1>1, <2>10, <3>1, <3>2 DEF y
        <3>4. /\ y.pc = "process" /\ y.op = x.op /\ y.start = x.start
              /\ y.pos = pos - n /\ y.chunk = chunk /\ y.got = x.got /\ y.pipe = x.pipe
            BY <1>1 DEF y, Fetch
        <3> QED
            BY <2>4, <3>3, <3>4
    <2>12. FetchOK(y)
        BY <1>1, <2>11 DEF FetchOK
    <2>13. PageInv(y)
        <3>1. y.pos + Len(y.chunk) = pos
            BY <2>6, <2>7, <2>10, <2>11
        <3>2. \A i \in 1 .. Len(y.chunk) : y.chunk[i].id = log[y.pos + Len(y.chunk) + 1 - i]
            BY <2>9, <2>10, <2>11, <3>1
        <3>3. y.got # Limit
            BY <2>4, <2>5, <2>11
        <3>4. y.pos + Len(y.chunk) <= y.start
            BY <2>6, <2>11, <3>1
        <3> QED
            BY <2>11, <3>2, <3>3, <3>4 DEF PageInv
    <2>14. FetchInv(y)
        BY <2>5, <2>9, <2>10, <2>11, <2>13 DEF FetchInv
    <2> QED
        BY <2>3, <2>12, <2>14
<1>6. ASSUME NEW pc \in {"done", "failed", "load"}, fetch' = [fetch EXCEPT ![f] = [x EXCEPT !.pc = pc]],
             pc = "load" => x.op = "page" /\ x.pc = "process" /\ x.chunk = <<>> /\ x.got < Limit
      PROVE  \E y : fetch' = [fetch EXCEPT ![f] = y] /\ FetchOK(y) /\ FetchInv(y)
    <2> DEFINE y == [x EXCEPT !.pc = pc]
    <2> HIDE DEF x
    <2>1. /\ y \in Fetch /\ y.pc = pc /\ y.op = x.op /\ y.start = x.start
          /\ y.pos = x.pos /\ y.chunk = x.chunk /\ y.got = x.got /\ y.pipe = x.pipe
        BY <1>1, <1>6 DEF Fetch
    <2>2. fetch' = [fetch EXCEPT ![f] = y]
        BY <1>6
    <2> HIDE DEF y
    <2>3. FetchOK(y)
        BY <1>1, <2>1 DEF FetchOK
    <2>4. pc # "process"
        BY <1>6
    <2>5. FetchInv(y)
        BY <1>1, <1>6, <2>1, <2>4 DEF FetchInv, PageInv
    <2> QED
        BY <2>2, <2>3, <2>5
<1>7. CASE LoadFails(f)
    <2>1. fetch' = [fetch EXCEPT ![f] = [x EXCEPT !.pc = "failed"]]
        BY <1>7 DEF LoadFails
    <2> QED
        BY <1>6, <2>1
<1>8. CASE ChunkDone(f)
    <2> DEFINE pc == IF x.got = Limit \/ x.end THEN "done" ELSE "load"
    <2>1. /\ fetch' = [fetch EXCEPT ![f] = [x EXCEPT !.pc = pc]]
          /\ x.pc = "process" /\ x.op = "page" /\ x.chunk = <<>>
        BY <1>8 DEF ChunkDone
    <2>2. pc = "load" => x.got # Limit
        OBVIOUS
    <2>3. x.got \in Nat /\ x.got <= Limit /\ Limit \in Nat
        BY <1>1, FetchFields, RoomCacheAssumption DEF FetchOK
    <2>4. pc = "load" => x.got < Limit
        BY <2>2, <2>3
    <2>5. pc \in {"done", "failed", "load"}
        OBVIOUS
    <2> HIDE DEF pc, x
    <2> QED
        BY <1>6, <2>1, <2>4, <2>5 DEF x
<1> QED
    BY <1>5, <1>7, <1>8

(* The next event of a chunk and what is left of the chunk.                *)
LEMMA HeadFacts ==
    ASSUME NEW x \in Fetch, FetchInv(x), x.chunk # <<>>
    PROVE  /\ Head(x.chunk) = x.chunk[1] /\ 1 \in 1 .. Len(x.chunk)
           /\ Head(x.chunk).id \in Sent /\ Head(x.chunk).view \in {"clear", "utd", "redacted"}
           /\ Tail(x.chunk) \in Seq(Loaded) /\ Len(Tail(x.chunk)) = Len(x.chunk) - 1
           /\ \A i \in 1 .. Len(x.chunk) - 1 : Tail(x.chunk)[i] = x.chunk[i + 1]
<1>1. x.chunk \in Seq(Loaded) /\ Len(x.chunk) \in Nat
    BY FetchFields
<1>2. Len(x.chunk) # 0
    BY <1>1
<1>3. Head(x.chunk) = x.chunk[1] /\ 1 \in 1 .. Len(x.chunk)
    BY <1>1, <1>2
<1>4. Head(x.chunk).id \in Sent /\ Head(x.chunk).view \in {"clear", "utd", "redacted"}
    BY <1>3, FetchFields DEF FetchInv, LoadedInv
<1>5. /\ Tail(x.chunk) \in Seq(Loaded) /\ Len(Tail(x.chunk)) = Len(x.chunk) - 1
      /\ \A i \in 1 .. Len(x.chunk) - 1 : Tail(x.chunk)[i] = x.chunk[i + 1]
    BY <1>1, <1>2
<1> QED
    BY <1>3, <1>4, <1>5

(***************************************************************************)
(* A fetch that has processed the first event of its chunk: it has stopped *)
(* or goes on with the rest, which it drops at the limit.                  *)
(***************************************************************************)
Advanced(x, y) ==
    /\ y \in Fetch /\ y.op = x.op /\ y.start = x.start /\ y.pos = x.pos
    /\ \/ y.pc \in {"done", "failed"} /\ y.chunk = <<>>
       \/ /\ y.pc = "process" /\ y.chunk = Tail(x.chunk)
          /\ x.op = "page" => y.got < Limit
          /\ x.op = "single" => Len(x.chunk) > 1
       \/ y.pc = "process" /\ y.chunk = <<>> /\ y.got = Limit /\ x.op = "page"

(* The message of the event goes into the channel, or none does.           *)
Handed(x, y, item) ==
    \/ y.pipe = x.pipe
    \/ /\ x.op = "single" => Len(x.chunk) = 1
       /\ y.pipe = Append(x.pipe, item) \/ y.pipe = <<item>>

(* The message that processing the first event of a chunk results in.      *)
HeadItem(x) ==
    LET e == Head(x.chunk).id
        view == Head(x.chunk).view
    IN  [id |-> e, message |-> Result(Process(cache, e, view), e, view)]

(* What is known of a fetch still holds when it has advanced.              *)
LEMMA AdvancedInv ==
    ASSUME NEW x \in Fetch, FetchInv(x), x.pc = "process", x.chunk # <<>>,
           x.op = "page" => x.got < Limit, NEW y, Advanced(x, y)
    PROVE  FetchInv(y)
<1>1. /\ y \in Fetch /\ y.op = x.op /\ y.start = x.start /\ y.pos = x.pos
      /\ x.start <= Len(log) /\ Limit \in Nat
    BY RoomCacheAssumption DEF Advanced, FetchInv
<1>2. CASE y.pc \in {"done", "failed"} /\ y.chunk = <<>>
    <2>1. Len(y.chunk) = 0
        BY <1>2
    <2> QED
        BY <1>1, <1>2, <2>1 DEF FetchInv, PageInv
<1>3. CASE y.pc = "process" /\ y.chunk = <<>> /\ y.got = Limit /\ x.op = "page"
    <2>1. Len(y.chunk) = 0
        BY <1>3
    <2> QED
        BY <1>1, <1>3, <2>1 DEF FetchInv, PageInv
<1>4. CASE /\ y.pc = "process" /\ y.chunk = Tail(x.chunk)
           /\ x.op = "page" => y.got < Limit
           /\ x.op = "single" => Len(x.chunk) > 1
    <2>0. Len(x.chunk) \in Nat /\ x.pos \in Nat /\ x.start \in Nat /\ y.got \in Nat
        BY <1>1, FetchFields
    <2>1. /\ Len(y.chunk) = Len(x.chunk) - 1
          /\ \A i \in 1 .. Len(y.chunk) : y.chunk[i] = x.chunk[i + 1] /\ i + 1 \in 1 .. Len(x.chunk)
        BY <1>4, <2>0, HeadFacts
    <2>2. \A i \in 1 .. Len(y.chunk) : LoadedInv(y.chunk[i])
        BY <2>1 DEF FetchInv
    <2>3. ASSUME x.op = "page" PROVE PageInv(y)
        <3>1. /\ x.pos + Len(x.chunk) <= x.start
              /\ \A i \in 1 .. Len(x.chunk) : x.chunk[i].id = log[x.pos + Len(x.chunk) + 1 - i]
            BY <2>3 DEF FetchInv, PageInv
        <3>2. y.pos + Len(y.chunk) <= y.start
            BY <1>1, <2>0, <2>1, <3>1
        <3>3. ASSUME NEW i \in 1 .. Len(y.chunk)
              PROVE  y.chunk[i].id = log[y.pos + Len(y.chunk) + 1 - i]
            <4>1. y.chunk[i].id = log[x.pos + Len(x.chunk) + 1 - (i + 1)]
                BY <2>1, <3>1
            <4>2. x.pos + Len(x.chunk) + 1 - (i + 1) = y.pos + Len(y.chunk) + 1 - i
                <5>1. Len(y.chunk) = Len(x.chunk) - 1 /\ y.pos = x.pos
                    BY <1>1, <2>1
                <5>2. i \in Nat
                    BY <2>0, <5>1
                <5>3. \A p, l, k \in Nat : p + l + 1 - (k + 1) = p + (l - 1) + 1 - k
                    OBVIOUS
                <5>4. x.pos + Len(x.chunk) + 1 - (i + 1) = x.pos + (Len(x.chunk) - 1) + 1 - i
                    BY <2>0, <5>2, <5>3
                <5> QED
                    BY <5>1, <5>4
            <4> QED
                BY <4>1, <4>2
        <3>4. y.got # Limit
            BY <1>1, <1>4, <2>0, <2>3
        <3> QED
            BY <1>4, <3>2, <3>3, <3>4 DEF PageInv
    <2>4. PageInv(y)
        BY <1>1, <2>3 DEF PageInv
    <2>5. x.op = "single" => y.chunk # <<>>
        <3>1. ASSUME x.op = "single" PROVE Len(y.chunk) > 0
            BY <1>4, <2>0, <2>1, <3>1
        <3> QED
            BY <3>1
    <2> QED
        BY <1>1, <1>4, <2>2, <2>4, <2>5 DEF FetchInv
<1> QED
    BY <1>2, <1>3, <1>4 DEF Advanced

(* An event of a chunk is processed: the cache has at most grown, and the  *)
(* message is well typed.                                                  *)
LEMMA ProcessHead ==
    ASSUME TypeInv, NEW f \in Fetchers, fetch[f].chunk # <<>>,
           NEW e, e = Head(fetch[f].chunk).id, NEW view, view = Head(fetch[f].chunk).view
    PROVE  /\ e \in Sent /\ e \in Events /\ view \in {"clear", "utd", "redacted"}
           /\ Grown(cache, Process(cache, e, view), e)
           /\ Process(cache, e, view).related[e] \subseteq Sent
           /\ Result(Process(cache, e, view), e, view) \in Message
<1>0. log \in Seq(Events) /\ LogInv /\ cache \in CachedRoom
    BY DEF TypeInv, TypeOK
<1>1. e \in Sent /\ view \in {"clear", "utd", "redacted"}
    BY HeadFacts DEF TypeInv
<1>2. e \in Events
    BY <1>0, <1>1, SentEvents
<1> DEFINE new == Process(cache, e, view)
<1>3. Grown(cache, new, e)
    BY <1>0, <1>1, <1>2, ProcessFacts
<1> HIDE DEF new
<1>4. new \in CachedRoom /\ new.related[e] \subseteq Sent
    BY <1>1, <1>2, <1>3 DEF Grown, TypeInv, KnownInv
<1>5. Result(new, e, view) \in Message
    BY <1>0, <1>1, <1>2, <1>4, ResultTypes
<1> QED
    BY <1>1, <1>2, <1>3, <1>4, <1>5 DEF new

(* An event of a page, or of a message with its relations, is processed.   *)
LEMMA ProcessTypes ==
    ASSUME TypeInv, NEW f \in Fetchers, ProcessPage(f) \/ ProcessSingle(f)
    PROVE  /\ TypeInv'
           /\ \E y : /\ fetch' = [fetch EXCEPT ![f] = y]
                    /\ Advanced(fetch[f], y) /\ Handed(fetch[f], y, HeadItem(fetch[f]))
<1> DEFINE x == fetch[f]
           e == Head(x.chunk).id
           view == Head(x.chunk).view
           new == Process(cache, e, view)
           message == Result(new, e, view)
<1>0. TypeOK /\ fetch \in [Fetchers -> Fetch]
    BY DEF TypeInv
<1>1. x \in Fetch /\ FetchOK(x) /\ FetchInv(x)
    BY DEF TypeInv, TypeOK, FetchOK
<1>2. /\ UNCHANGED <<server, synced, retry, removing, fetches, asked, app>>
      /\ cache' = new /\ x.pc = "process"
    BY DEF ProcessPage, ProcessSingle
<1>3. x.chunk # <<>>
    BY <1>1 DEF ProcessPage, ProcessSingle, FetchInv
<1>4. /\ e \in Sent /\ e \in Events /\ view \in {"clear", "utd", "redacted"}
      /\ Grown(cache, new, e) /\ message \in Message
    BY <1>3, ProcessHead
<1>5. fetches' \in 0 .. MaxFetches /\ app' \in [Events -> Message]
    BY <1>0, <1>2 DEF TypeOK
<1>6. Limit \in Nat \ {0} /\ Capacity \in Nat \ {0} /\ x.got \in Nat /\ Len(x.pipe) \in Nat
    BY <1>1, FetchFields, RoomCacheAssumption
<1>7. x.op = "page" => x.got < Limit
    <2>1. x.op = "page" => x.got # Limit /\ x.got <= Limit
        BY <1>1, <1>2, <1>3 DEF FetchInv, PageInv, FetchOK
    <2> QED
        BY <1>6, <2>1
<1>8. Tail(x.chunk) \in Seq(Loaded) /\ <<>> \in Seq(Loaded)
    BY <1>1, <1>3, HeadFacts
<1> DEFINE item == [id |-> e, message |-> message]
           Item == [id : Events, message : Message]
<1>9. SUFFICES \E y : /\ fetch' = [fetch EXCEPT ![f] = y]
                      /\ FetchOK(y) /\ Advanced(x, y) /\ Handed(x, y, item)
    <2>1. PICK y : /\ fetch' = [fetch EXCEPT ![f] = y]
                   /\ FetchOK(y) /\ Advanced(x, y) /\ Handed(x, y, item)
        BY <1>9
    <2>2. FetchInv(y)
        BY <1>1, <1>2, <1>3, <1>7, <2>1, AdvancedInv
    <2>3. TypeInv'
        BY <1>2, <1>4, <1>5, <2>1, <2>2, FetchFrame
    <2>4. item = HeadItem(x)
        BY DEF HeadItem
    <2> HIDE DEF item, x
    <2> QED
        BY <2>1, <2>3, <2>4 DEF x
<1>10. item \in Item
    BY <1>4
<1>11. ASSUME NEW pc \in {"failed", "process"}, NEW chunk \in Seq(Loaded),
              fetch' = [fetch EXCEPT ![f] = [x EXCEPT !.pc = pc, !.chunk = chunk]],
              \/ pc = "failed" /\ chunk = <<>>
              \/ /\ pc = "process" /\ chunk = Tail(x.chunk)
                 /\ x.op = "single" => Len(x.chunk) > 1
       PROVE  \E y : /\ fetch' = [fetch EXCEPT ![f] = y]
                     /\ FetchOK(y) /\ Advanced(x, y) /\ Handed(x, y, item)
    <2> DEFINE y == [x EXCEPT !.pc = pc, !.chunk = chunk]
    <2>1. fetch' = [fetch EXCEPT ![f] = y]
        BY <1>11
    <2> HIDE DEF x, item, e, view, new, message
    <2>2. /\ y \in Fetch /\ y.pc = pc /\ y.op = x.op /\ y.start = x.start /\ y.pos = x.pos
          /\ y.chunk = chunk /\ y.got = x.got /\ y.pipe = x.pipe
        BY <1>1, <1>11 DEF Fetch
    <2> HIDE DEF y
    <2> QED
        BY <1>1, <1>7, <1>11, <2>1, <2>2 DEF FetchOK, Advanced, Handed
<1>12. CASE ProcessPage(f)
    <2>1. Len(x.pipe) <= Capacity /\ x.op = "page"
        BY <1>12 DEF ProcessPage
    <2>2. CASE fetch' = [fetch EXCEPT ![f] = [@ EXCEPT !.pc = "failed", !.chunk = <<>>]]
        BY <1>8, <1>11, <2>2
    <2>3. CASE fetch' = [fetch EXCEPT ![f].chunk = Tail(@)]
        <3>1. [x EXCEPT !.chunk = Tail(@)] = [x EXCEPT !.pc = "process", !.chunk = Tail(x.chunk)]
            BY <1>1, <1>2 DEF Fetch
        <3>2. fetch' = [fetch EXCEPT ![f] = [x EXCEPT !.chunk = Tail(@)]]
            BY <2>3
        <3> QED
            BY <1>8, <1>11, <2>1, <3>1, <3>2
    <2>4. CASE fetch' = [fetch EXCEPT ![f] =
                           [x EXCEPT !.chunk = IF x.got + 1 = Limit THEN <<>> ELSE Tail(x.chunk),
                                     !.got = x.got + 1, !.pipe = Append(x.pipe, item)]]
        <3> DEFINE got == x.got + 1
                   chunk == IF got = Limit THEN <<>> ELSE Tail(x.chunk)
                   pipe == Append(x.pipe, item)
                   y == [x EXCEPT !.chunk = chunk, !.got = got, !.pipe = pipe]
        <3>1. fetch' = [fetch EXCEPT ![f] = y]
            BY <2>4
        <3> HIDE DEF x, item, e, view, new, message
        <3>2. got \in Nat /\ got <= Limit /\ (got # Limit => got < Limit)
            BY <1>6, <1>7, <2>1
        <3>3. chunk \in Seq(Loaded)
            BY <1>8
        <3>4. x.pipe \in Seq(Item)
            BY <1>1, FetchFields
        <3>5. pipe \in Seq(Item) /\ Len(pipe) = Len(x.pipe) + 1
            BY <1>10, <3>4
        <3>6. Len(pipe) <= Capacity + 1
            BY <1>6, <2>1, <3>5
        <3> HIDE DEF Item, pipe, got
        <3>7. \A r \in Fetch, c \in Seq(Loaded), g \in Nat, p \in Seq(Item) :
                 [r EXCEPT !.chunk = c, !.got = g, !.pipe = p] \in Fetch
            BY DEF Fetch, Item
        <3>8. y \in Fetch
            BY <1>1, <3>2, <3>3, <3>5, <3>7
        <3>9. /\ y.pc = "process" /\ y.op = x.op /\ y.start = x.start /\ y.pos = x.pos
              /\ y.chunk = chunk /\ y.got = got /\ y.pipe = pipe
            BY <1>1, <1>2 DEF Fetch
        <3> HIDE DEF y
        <3> QED
            BY <2>1, <3>1, <3>2, <3>6, <3>8, <3>9 DEF FetchOK, Advanced, Handed, pipe
    <2>5. \/ fetch' = [fetch EXCEPT ![f] = [@ EXCEPT !.pc = "failed", !.chunk = <<>>]]
          \/ fetch' = [fetch EXCEPT ![f].chunk = Tail(@)]
          \/ fetch' = [fetch EXCEPT ![f] =
                         [x EXCEPT !.chunk = IF x.got + 1 = Limit THEN <<>> ELSE Tail(x.chunk),
                                   !.got = x.got + 1, !.pipe = Append(x.pipe, item)]]
        BY <1>12 DEF ProcessPage
    <2> QED
        BY <2>2, <2>3, <2>4, <2>5
<1>13. CASE ProcessSingle(f)
    <2>1. x.op = "single"
        BY <1>13 DEF ProcessSingle
    <2>2. CASE fetch' = [fetch EXCEPT ![f] = [@ EXCEPT !.pc = "failed", !.chunk = <<>>]]
        BY <1>8, <1>11, <2>2
    <2>3. CASE fetch' = [fetch EXCEPT ![f].chunk = Tail(@)] /\ Len(x.chunk) > 1
        <3>1. [x EXCEPT !.chunk = Tail(@)] = [x EXCEPT !.pc = "process", !.chunk = Tail(x.chunk)]
            BY <1>1, <1>2 DEF Fetch
        <3>2. fetch' = [fetch EXCEPT ![f] = [x EXCEPT !.chunk = Tail(@)]]
            BY <2>3
        <3> QED
            BY <1>8, <1>11, <2>3, <3>1, <3>2
    <2>4. CASE /\ fetch' = [fetch EXCEPT ![f] = [@ EXCEPT !.pc = "done", !.chunk = <<>>,
                                                          !.pipe = <<item>>]]
               /\ Len(x.chunk) = 1
        <3> DEFINE pipe == <<item>>
                   y == [x EXCEPT !.pc = "done", !.chunk = <<>>, !.pipe = pipe]
        <3>1. fetch' = [fetch EXCEPT ![f] = y]
            BY <2>4
        <3> HIDE DEF x, item, e, view, new, message
        <3>2. pipe \in Seq(Item) /\ Len(pipe) = 1
            BY <1>10
        <3>3. Len(pipe) <= Capacity + 1
            BY <1>6, <3>2
        <3> HIDE DEF Item, pipe
        <3>4. \A r \in Fetch, p \in Seq(Item) :
                 [r EXCEPT !.pc = "done", !.chunk = <<>>, !.pipe = p] \in Fetch
            BY <1>8 DEF Fetch, Item
        <3>5. y \in Fetch
            BY <1>1, <3>2, <3>4
        <3>6. /\ y.pc = "done" /\ y.op = x.op /\ y.start = x.start /\ y.pos = x.pos
              /\ y.chunk = <<>> /\ y.got = x.got /\ y.pipe = pipe
            BY <1>1 DEF Fetch
        <3> HIDE DEF y
        <3> QED
            BY <1>1, <2>4, <3>1, <3>3, <3>5, <3>6 DEF FetchOK, Advanced, Handed, pipe
    <2> QED
        BY <1>13, <2>2, <2>3, <2>4 DEF ProcessSingle
<1> QED
    BY <1>12, <1>13

(* A message is sent to the application.                                   *)
LEMMA DeliverTypes ==
    ASSUME TypeInv, NEW f \in Fetchers, Deliver(f)
    PROVE  TypeInv'
<1> DEFINE x == fetch[f]
           item == Head(x.pipe)
           y == [x EXCEPT !.pipe = Tail(@)]
           Item == [id : Events, message : Message]
<1>0. app \in [Events -> Message] /\ fetches \in 0 .. MaxFetches
    BY DEF TypeInv, TypeOK
<1>1. x \in Fetch /\ FetchOK(x) /\ FetchInv(x)
    BY DEF TypeInv, TypeOK, FetchOK
<1>2. /\ UNCHANGED <<server, synced, cache, retry, removing, fetches, asked>>
      /\ x.pipe # <<>>
      /\ app' = Received(item.id, item.message)
      /\ fetch' = [fetch EXCEPT ![f] = y]
    BY DEF Deliver
<1> HIDE DEF x
<1>3. x.pipe \in Seq(Item) /\ Len(x.pipe) \in Nat
    BY <1>1, FetchFields
<1>4. item \in Item /\ Tail(x.pipe) \in Seq(Item) /\ Len(Tail(x.pipe)) = Len(x.pipe) - 1
    <2>1. x.pipe # <<>>
        BY <1>2
    <2> HIDE DEF Item
    <2>2. \A s \in Seq(Item) : s # <<>> =>
             Head(s) \in Item /\ Tail(s) \in Seq(Item) /\ Len(Tail(s)) = Len(s) - 1
        OBVIOUS
    <2> QED
        BY <1>3, <2>1, <2>2
<1>5. item.id \in Events /\ item.message \in Message
    BY <1>4
<1>6. app' \in [Events -> Message]
    BY <1>0, <1>2, <1>5, AppTypes
<1> HIDE DEF item
<1>7. /\ y \in Fetch /\ y.pc = x.pc /\ y.op = x.op /\ y.start = x.start /\ y.pos = x.pos
      /\ y.chunk = x.chunk /\ y.got = x.got /\ y.pipe = Tail(x.pipe)
    <2>1. \A r \in Fetch, p \in Seq(Item) : [r EXCEPT !.pipe = p] \in Fetch
        BY DEF Fetch
    <2>2. y \in Fetch
        BY <1>1, <1>4, <2>1
    <2> QED
        BY <1>1, <2>2 DEF Fetch
<1> HIDE DEF y
<1>8. FetchOK(y)
    <2>1. Len(y.pipe) <= Capacity + 1
        BY <1>1, <1>3, <1>4, <1>7, RoomCacheAssumption DEF FetchOK
    <2> QED
        BY <1>1, <1>7, <2>1 DEF FetchOK
<1>9. FetchInv(y)
    BY <1>1, <1>7 DEF FetchInv, PageInv
<1> QED
    BY <1>0, <1>2, <1>6, <1>8, <1>9, FetchFrame

(* An event that was sent and is processed in clear.                       *)
LEMMA ClearFacts ==
    ASSUME TypeInv, NEW e \in Sent, Type[e] # "odd_poll"
    PROVE  Resolve(e) \in [Events -> Message]
<1>0. log \in Seq(Events) /\ LogInv /\ cache \in CachedRoom /\ app \in [Events -> Message]
    BY DEF TypeInv, TypeOK
<1>1. e \in Events
    BY <1>0, SentEvents
<1> DEFINE new == Process(cache, e, "clear")
           message == Result(new, e, "clear")
           without == [app EXCEPT ![e] = Absent]
<1>2. Grown(cache, new, e)
    BY <1>0, <1>1, ProcessFacts
<1> HIDE DEF new
<1>3. new \in CachedRoom /\ new.related[e] \subseteq Sent
    BY <1>1, <1>2 DEF Grown, TypeInv, KnownInv
<1>4. message \in Message
    BY <1>0, <1>1, <1>3, ResultTypes
<1> HIDE DEF message
<1>5. message.edit \in Events \cup {None} /\ message.votes \in SUBSET Events
    BY <1>4 DEF Message
<1>6. Changed(e, message.edit, message.votes) \in [Events -> Message]
    BY <1>0, <1>1, <1>5, AppTypes
<1>7. without \in [Events -> Message]
    BY <1>0, <1>1, AppTypes
<1> HIDE DEF without
<1>8. Type[e] = "reaction" => ReactionCreated(without, e) \in [Events -> Message]
    <2>1. Type[e] = "reaction" => Target[e] \in Events
        BY <1>1, RelationTarget DEF Relations
    <2> QED
        BY <1>0, <1>1, <1>7, <2>1, AppTypes
<1>9. Resolve(e) = CASE message.kind # "absent" -> Changed(e, message.edit, message.votes)
                     [] Type[e] = "reaction" -> ReactionCreated(without, e)
                     [] OTHER -> without
    BY DEF Resolve, new, message, without
<1> QED
    BY <1>6, <1>7, <1>8, <1>9

(* Encrypted events are tried again.                                       *)
LEMMA RetryTypes ==
    ASSUME TypeInv, NEW t \in Retriers, BeginRetry(t) \/ \E e \in Events : RetryEvent(t, e)
    PROVE  TypeInv' /\ CacheStep
<1>0. /\ TypeOK /\ KnownInv /\ log \in Seq(Events) /\ LogInv /\ Sent \subseteq Events
      /\ synced \in 0 .. Len(log)
    BY SentEvents DEF TypeInv, TypeOK
<1>1. UNCHANGED <<server, fetch, fetches, synced, removing, asked>>
    BY DEF BeginRetry, RetryEvent
<1>2. CASE BeginRetry(t)
    <2>1. PICK S \in SUBSET cache.encrypted : retry' = [retry EXCEPT ![t] = S]
        BY <1>2 DEF BeginRetry
    <2>2. S \subseteq Sent /\ UNCHANGED <<cache, app>>
        BY <1>0, <1>2, <2>1 DEF KnownInv, BeginRetry
    <2>3. retry' \in [Retriers -> SUBSET Events] /\ \A u \in Retriers : retry'[u] \subseteq Sent
        BY <1>0, <2>1, <2>2 DEF TypeOK, KnownInv
    <2>4. CacheStep
        BY <2>2 DEF CacheStep
    <2> QED
        BY <1>0, <1>1, <2>2, <2>3, <2>4, QuietFrame DEF TypeOK
<1>3. ASSUME NEW e \in Events, RetryEvent(t, e) PROVE TypeInv' /\ CacheStep
    <2>1. e \in Sent
        BY <1>0, <1>3 DEF RetryEvent, KnownInv
    <2>2. retry' = [retry EXCEPT ![t] = @ \ {e}] \/ retry' = [retry EXCEPT ![t] = {}]
        BY <1>3 DEF RetryEvent
    <2>3. retry' \in [Retriers -> SUBSET Events] /\ \A u \in Retriers : retry'[u] \subseteq Sent
        BY <1>0, <2>2 DEF TypeOK, KnownInv
    <2>4. \/ UNCHANGED <<cache, app>>
          \/ /\ cache' = Process(cache, e, "clear")
             /\ app' = app \/ (~Fails(e, "clear") /\ app' = Resolve(e))
        BY <1>3 DEF RetryEvent
    <2>5. CacheStep
        <3>1. Grown(cache, Process(cache, e, "clear"), e)
            BY <1>0, ProcessFacts DEF TypeOK
        <3> QED
            BY <2>1, <2>4, <3>1 DEF CacheStep
    <2>6. app' \in [Events -> Message]
        BY <1>0, <2>1, <2>4, ClearFacts DEF TypeOK, Fails
    <2> QED
        BY <1>0, <1>1, <2>3, <2>5, <2>6, QuietFrame DEF TypeOK
<1> QED
    BY <1>2, <1>3

(* What the executor does with a redaction.                                *)
LEMMA RedactionTypes ==
    ASSUME TypeInv, NEW t \in redacted, ExecRedaction(t), UNCHANGED asked
    PROVE  CacheStep /\ app' \in [Events -> Message]
<1>0. cache \in CachedRoom /\ app \in [Events -> Message] /\ t \in Events
    BY DEF TypeInv, TypeOK
<1>1. \/ Type[t] = "reaction" /\ cache' = Remove(cache, t) /\ app' = ReactionRemoved(t)
      \/ app' = Removed(t) /\ cache' = cache
      \/ cache' = cache /\ app' = app
    BY DEF ExecRedaction
<1>2. Type[t] = "reaction" => Target[t] \in Events
    BY <1>0, RelationTarget DEF Relations
<1>3. app' \in [Events -> Message]
    BY <1>0, <1>1, <1>2, AppTypes
<1>4. CacheStep
    BY <1>0, <1>1 DEF CacheStep
<1> QED
    BY <1>3, <1>4

(* What the executor sends of a poll.                                      *)
LEMMA PollTypes ==
    ASSUME TypeInv, NEW e \in Events, ExecPoll(e)
    PROVE  app' \in [Events -> Message]
<1> DEFINE original == Target[e]
           edits == PollRelations(original, {"poll_edit"})
           ends == PollRelations(original, {"end"})
           responses == {v \in PollRelations(original, {"response"}) :
                           \A d \in edits : Pos(d) < Pos(v)}
<1>0. log \in Seq(Events) /\ LogInv /\ app \in [Events -> Message] /\ Sent \subseteq Events
    BY SentEvents DEF TypeInv, TypeOK
<1>1. \A m, types : PollRelations(m, types) \subseteq Sent
    BY DEF PollRelations
<1>2. /\ Type[e] \in {"poll_edit", "response", "end"}
      /\ app' = IF Type[e] = "poll_edit" THEN Changed(original, e, ends)
                ELSE Changed(original, Latest(edits), responses \cup ends \cup {e})
    BY DEF ExecPoll
<1>3. original \in Events
    BY <1>2, RelationTarget DEF Relations
<1>4. edits \in SUBSET Sent
    BY <1>1
<1>5. Latest(edits) \in Events \cup {None}
    BY <1>0, <1>4, LatestFacts
<1>6. ends \in SUBSET Events /\ responses \cup ends \cup {e} \in SUBSET Events
    BY <1>0, <1>1
<1> HIDE DEF original, edits, ends, responses
<1>7. Changed(original, e, ends) \in [Events -> Message]
    BY <1>0, <1>3, <1>6, AppTypes
<1>8. Changed(original, Latest(edits), responses \cup ends \cup {e}) \in [Events -> Message]
    BY <1>0, <1>3, <1>5, <1>6, AppTypes
<1> QED
    BY <1>2, <1>7, <1>8

(* The executor handles the next event of the sync loop.                   *)
LEMMA ExecTypes ==
    ASSUME TypeInv, ExecEvent \/ ExecNothing
    PROVE  TypeInv' /\ CacheStep
<1> DEFINE e == log[synced + 1]
<1>0. /\ TypeOK /\ KnownInv /\ log \in Seq(Events) /\ LogInv /\ Len(log) \in Nat
      /\ synced \in 0 .. Len(log) /\ cache \in CachedRoom /\ app \in [Events -> Message]
    BY DEF TypeInv, TypeOK
<1>1. /\ UNCHANGED <<server, fetch, retry, removing, fetches, asked>>
      /\ synced < Len(log) /\ synced' = synced + 1
    BY DEF ExecEvent, ExecNothing
<1>2. synced' \in 0 .. Len(log) /\ synced + 1 \in 1 .. Len(log)
    BY <1>0, <1>1
<1>3. e \in Sent /\ e \in Events
    BY <1>0, <1>2, PosFacts
<1>4. SUFFICES CacheStep /\ app' \in [Events -> Message]
    BY <1>0, <1>1, <1>2, <1>4, QuietFrame DEF TypeOK, KnownInv
<1>5. CASE ExecNothing
    BY <1>0, <1>5 DEF ExecNothing, CacheStep
<1>6. CASE ExecEvent
    <2>1. CASE app' = Received(e, [Absent EXCEPT !.kind = "message"]) /\ cache' = cache
        <3>1. [Absent EXCEPT !.kind = "message"] \in Message
            BY DEF Absent, Message
        <3> HIDE DEF e
        <3> QED
            BY <1>0, <1>3, <2>1, <3>1, AppTypes DEF CacheStep
    <2>2. CASE Type[e] = "edit" /\ app' = Changed(Target[e], e, {}) /\ cache' = cache
        <3> HIDE DEF e
        <3>1. Target[e] \in Events
            BY <1>3, <2>2, RelationTarget DEF Relations
        <3> QED
            BY <1>0, <1>3, <2>2, <3>1, AppTypes DEF CacheStep
    <2>3. CASE Type[e] = "reaction" /\ cache' = Insert(cache, e) /\ app' = ReactionCreated(app, e)
        <3> HIDE DEF e
        <3>1. Type[e] \in Relations /\ Target[e] \in Events
            BY <1>3, <2>3, RelationTarget DEF Relations
        <3>2. Grown(cache, Insert(cache, e), e)
            BY <1>0, <1>3, <3>1, InsertFacts
        <3>3. CacheStep
            BY <1>3, <2>3, <3>2 DEF CacheStep
        <3> QED
            BY <1>0, <1>3, <2>3, <3>1, <3>3, AppTypes
    <2>4. CASE ExecPoll(e) /\ cache' = cache
        <3> HIDE DEF e
        <3> QED
            BY <1>3, <2>4, PollTypes DEF CacheStep
    <2>5. CASE Type[e] = "redaction" /\ ExecRedaction(Target[e])
        <3>1. Target[e] \in redacted
            BY <1>0, <1>2, <2>5 DEF LogInv
        <3> HIDE DEF e
        <3> QED
            BY <1>1, <2>5, <3>1, RedactionTypes
    <2> QED
        BY <1>6, <2>1, <2>2, <2>3, <2>4, <2>5 DEF ExecEvent
<1> QED
    BY <1>5, <1>6

(* The application removes a reaction.                                     *)
LEMMA RemoveTypes ==
    ASSUME TypeInv, NEW r \in Events, BeginRemove(r) \/ RedactOk(r) \/ RedactFails(r)
    PROVE  TypeInv' /\ CacheStep
<1>0. /\ TypeOK /\ KnownInv /\ cache \in CachedRoom /\ app \in [Events -> Message]
      /\ removing \subseteq Events /\ asked \subseteq Events /\ synced \in 0 .. Len(log)
    BY DEF TypeInv, TypeOK
<1>1. CASE BeginRemove(r)
    <2>1. /\ Type[r] = "reaction" /\ cache' = Remove(cache, r)
          /\ removing' = removing \cup {r} /\ asked' = asked \cup {r}
          /\ UNCHANGED <<server, synced, fetch, retry, fetches, app>>
        BY <1>1 DEF BeginRemove, Removable
    <2>2. CacheStep
        BY <2>1 DEF CacheStep
    <2>3. removing' \subseteq Events /\ asked' \subseteq Events
        BY <1>0, <2>1
    <2> QED
        BY <1>0, <2>1, <2>2, <2>3, QuietFrame DEF TypeOK, KnownInv
<1>2. CASE RedactFails(r)
    <2>1. /\ removing' = removing \ {r}
          /\ UNCHANGED <<server, synced, cache, fetch, retry, fetches, asked, app>>
        BY <1>2 DEF RedactFails
    <2>2. CacheStep
        BY <2>1 DEF CacheStep
    <2> QED
        BY <1>0, <2>1, <2>2, QuietFrame DEF TypeOK, KnownInv
<1>3. CASE RedactOk(r)
    <2>1. PICK x \in Events \ Sent :
             Type[x] = "redaction" /\ Target[x] = r /\ log' = Append(log, x)
        BY <1>3 DEF RedactOk
    <2>2. /\ r \in removing /\ redacted' = redacted \cup {r} /\ removing' = removing \ {r}
          /\ app' = ReactionRemoved(r)
          /\ UNCHANGED <<keys, synced, cache, fetch, retry, fetches, asked>>
        BY <1>3 DEF RedactOk
    <2>3. LogInv' /\ TimelineGrows /\ log' \in Seq(Events) /\ Len(log') = Len(log) + 1
        BY <2>1, <2>2, LogStep
    <2>4. app' \in [Events -> Message]
        <3>1. CASE Target[r] \in Events
            BY <1>0, <2>2, <3>1, AppTypes
        <3>2. CASE Target[r] \notin Events
            BY <1>0, <2>2, <3>2 DEF ReactionRemoved
        <3> QED
            BY <3>1, <3>2
    <2>5. synced' \in 0 .. Len(log')
        BY <1>0, <2>2, <2>3 DEF TypeOK
    <2>6. TypeOK'
        BY <1>0, <2>2, <2>3, <2>4, <2>5 DEF TypeOK
    <2>7. KnownInv'
        BY <1>0, <2>2, <2>3 DEF KnownInv, TimelineGrows
    <2>8. CacheStep
        BY <2>2 DEF CacheStep
    <2> QED
        BY <2>2, <2>3, <2>6, <2>7, <2>8, OtherFrame
<1> QED
    BY <1>1, <1>2, <1>3

-----------------------------------------------------------------------------
(* Types and the mapping of reactions.                                     *)

(* What is left alone stays well typed.                                    *)
LEMMA StutterTypes ==
    ASSUME TypeInv, UNCHANGED vars
    PROVE  TypeInv' /\ CacheStep
<1>1. /\ UNCHANGED <<server, fetch, fetches, synced, retry, removing, asked, app>>
      /\ cache' = cache
    BY DEF vars, server
<1>2. CacheStep
    BY <1>1 DEF CacheStep
<1>3. /\ synced \in 0 .. Len(log)
      /\ retry \in [Retriers -> SUBSET Events] /\ \A t \in Retriers : retry[t] \subseteq Sent
      /\ removing \subseteq Events /\ asked \subseteq Events /\ app \in [Events -> Message]
    BY DEF TypeInv, TypeOK, KnownInv
<1> QED
    BY <1>1, <1>2, <1>3, QuietFrame

(* Every step keeps the types, and does one of three things to the cache.  *)
LEMMA TypeStep ==
    ASSUME TypeInv, [Next]_vars
    PROVE  TypeInv' /\ CacheStep
<1>1. CASE UNCHANGED vars
    BY <1>1, StutterTypes
<1>2. CASE ServerStep
    <2>1. PICK e \in Events : SendEvent(e) \/ KeyArrives(e)
        BY <1>2 DEF ServerStep
    <2>2. CacheStep
        BY <2>1 DEF SendEvent, KeyArrives, CacheStep
    <2> QED
        BY <2>1, <2>2, ServerTypes
<1>3. ASSUME NEW f \in Fetchers,
             BeginFetch(f) \/ (\E m \in Events : BeginSingle(f, m)) \/ Finish(f)
      PROVE  TypeInv' /\ CacheStep
    <2>1. CacheStep
        BY <1>3 DEF BeginFetch, BeginSingle, Finish, CacheStep
    <2> QED
        BY <1>3, <2>1, BeginTypes
<1>4. ASSUME NEW f \in Fetchers, LoadChunk(f) \/ LoadFails(f) \/ ChunkDone(f)
      PROVE  TypeInv' /\ CacheStep
    <2>1. CacheStep
        BY <1>4 DEF LoadChunk, LoadFails, ChunkDone, CacheStep
    <2> QED
        BY <1>4, <2>1, LoadTypes
<1>5. ASSUME NEW f \in Fetchers, ProcessPage(f) \/ ProcessSingle(f)
      PROVE  TypeInv' /\ CacheStep
    <2>1. fetch[f].chunk # <<>>
        BY <1>5 DEF ProcessPage, ProcessSingle, TypeInv, FetchInv
    <2> DEFINE e == Head(fetch[f].chunk).id
               view == Head(fetch[f].chunk).view
    <2>2. cache' = Process(cache, e, view)
        BY <1>5 DEF ProcessPage, ProcessSingle
    <2>3. e \in Sent /\ Grown(cache, Process(cache, e, view), e)
        BY <2>1, ProcessHead
    <2>4. CacheStep
        BY <2>2, <2>3 DEF CacheStep
    <2> QED
        BY <1>5, <2>4, ProcessTypes
<1>6. ASSUME NEW f \in Fetchers, Deliver(f) PROVE TypeInv' /\ CacheStep
    <2>1. CacheStep
        BY <1>6 DEF Deliver, CacheStep
    <2> QED
        BY <1>6, <2>1, DeliverTypes
<1> QED
    BY <1>1, <1>2, <1>3, <1>4, <1>5, <1>6, RetryTypes, ExecTypes, RemoveTypes
    DEF Next, FetchStep

(***************************************************************************)
(* Type correctness: among the rest, a fetch never hands over more than    *)
(* its limit, its channel never holds more than its capacity and the       *)
(* message the fetcher waits with, and the executor never runs ahead of    *)
(* the timeline.                                                           *)
(***************************************************************************)
THEOREM TypeCorrect == Spec => []TypeOK
<1>1. TypeInv => TypeOK
    BY DEF TypeInv
<1> QED
    BY <1>1, TypesInit, TypeStep, PTL DEF Spec

(***************************************************************************)
(* reaction_id_to_message and the reactions of the messages name the same  *)
(* reactions, whatever fetches, retries, the executor and removals do      *)
(* between each other's steps.                                             *)
(***************************************************************************)
THEOREM MappingCorrect == Spec => []MappingMatches
<1>1. Init => TypeInv /\ MappingMatches
    <2>1. ASSUME Init PROVE MappingMatches
        <3>1. cache.mapped = {} /\ cache.related = [e \in Events |-> {}]
            BY <2>1 DEF Init, InitCache
        <3>2. \A e \in Events : Type[e] = "reaction" => e \notin cache.related[Target[e]]
            BY <3>1, RelationTarget DEF Relations
        <3> QED
            BY <3>1, <3>2 DEF MappingMatches
    <2> QED
        BY <2>1, TypesInit
<1>2. TypeInv /\ MappingMatches /\ [Next]_vars => TypeInv' /\ MappingMatches'
    <2> SUFFICES ASSUME TypeInv, MappingMatches, [Next]_vars PROVE TypeInv' /\ MappingMatches'
        OBVIOUS
    <2>1. TypeInv' /\ CacheStep /\ cache \in CachedRoom
        BY TypeStep DEF TypeInv, TypeOK
    <2>2. Mapping(cache)
        BY DEF MappingMatches, Mapping
    <2>3. ASSUME NEW r \in Events, Type[r] = "reaction", cache' = Remove(cache, r)
          PROVE  Mapping(cache')
        BY <2>1, <2>2, <2>3, RemoveFacts
    <2>4. Mapping(cache')
        BY <2>1, <2>2, <2>3 DEF CacheStep, Grown
    <2> QED
        BY <2>1, <2>4 DEF Mapping, MappingMatches
<1> QED
    BY <1>1, <1>2, PTL DEF Spec

-----------------------------------------------------------------------------
(* What the messages are put together from.                                *)

(* The timeline, what is redacted and what was asked to be removed only    *)
(* grow.                                                                   *)
LEMMA StepGrows ==
    ASSUME TypeInv, [Next]_vars
    PROVE  TimelineGrows /\ asked \subseteq asked'
<1>1. CASE log' = log /\ redacted' = redacted /\ asked \subseteq asked'
    BY <1>1, LogStays
<1>2. ASSUME NEW e \in Events, SendEvent(e) PROVE TimelineGrows /\ asked \subseteq asked'
    <2>1. /\ e \notin Sent /\ log' = Append(log, e) /\ asked' = asked
          /\ Target[e] # None => Target[e] \in Sent
          /\ redacted' = IF Type[e] = "redaction" THEN redacted \cup {Target[e]} ELSE redacted
        BY <1>2 DEF SendEvent
    <2>2. Type[e] \in Relations => Target[e] \in Sent
        BY <2>1, RelationTarget, RoomCacheAssumption
    <2>3. redacted \subseteq redacted' /\ (Type[e] = "redaction" => Target[e] \in redacted')
        BY <2>1
    <2> QED
        BY <2>1, <2>2, <2>3, LogStep
<1>3. ASSUME NEW r \in Events, RedactOk(r) PROVE TimelineGrows /\ asked \subseteq asked'
    <2>1. PICK x \in Events \ Sent :
             Type[x] = "redaction" /\ Target[x] = r /\ log' = Append(log, x)
        BY <1>3 DEF RedactOk
    <2>2. redacted' = redacted \cup {r} /\ asked' = asked
        BY <1>3 DEF RedactOk
    <2> QED
        BY <2>1, <2>2, LogStep
<1>4. \/ log' = log /\ redacted' = redacted /\ asked \subseteq asked'
      \/ \E e \in Events : SendEvent(e) \/ RedactOk(e)
    BY DEF Next, vars, server, ServerStep, KeyArrives, BeginFetch, BeginSingle, FetchStep, LoadChunk,
           ProcessPage, ChunkDone, ProcessSingle, Finish, LoadFails, Deliver, BeginRetry, RetryEvent,
           ExecEvent, ExecNothing, BeginRemove, RedactFails
<1> QED
    BY <1>1, <1>2, <1>3, <1>4

(* A relation that is kept stays so, unless it is redacted or removed.     *)
LEMMA KeptStays ==
    ASSUME TypeInv, CacheStep, redacted \subseteq redacted', asked \subseteq asked',
           NEW e \in Events, Kept(e)
    PROVE  Kept(e)'
<1>1. SUFFICES ASSUME Type[e] \in Relations \ {"redaction"},
                      e \notin Encrypted \cup redacted' \cup asked'
               PROVE  e \in cache'.related[Target[e]]
    BY DEF Kept
<1>2. e \in cache.related[Target[e]] /\ Target[e] \in Events
    BY <1>1, RelationTarget DEF Kept
<1>3. cache \in CachedRoom
    BY DEF TypeInv, TypeOK
<1>4. ASSUME NEW r \in Events, r \in redacted \cup asked', Type[r] = "reaction",
             cache' = Remove(cache, r)
      PROVE  e \in cache'.related[Target[e]]
    <2>1. e # r
        BY <1>1, <1>4
    <2> QED
        BY <1>2, <1>3, <1>4, <2>1, RemoveFacts
<1> QED
    BY <1>2, <1>4 DEF CacheStep, Grown

(* An event stays where it is in the timeline.                             *)
LEMMA PosStays ==
    ASSUME TypeInv, TypeInv', TimelineGrows
    PROVE  /\ \A e \in Sent : e \in Sent' /\ Pos(e)' = Pos(e)
           /\ \A e \in Sent' : Pos(e)' <= Len(log) => e \in Sent
<1>0. log \in Seq(Events) /\ LogInv /\ log' \in Seq(Events) /\ Len(log) \in Nat /\ Len(log') \in Nat
    BY DEF TypeInv, TypeOK
<1>1. ASSUME NEW e \in Sent' PROVE Pos(e)' \in 1 .. Len(log') /\ log'[Pos(e)'] = e
    <2>1. \E i \in DOMAIN log' : log'[i] = e
        BY DEF Sent
    <2>2. Pos(e)' \in DOMAIN log' /\ log'[Pos(e)'] = e
        BY <2>1, Zenon DEF Pos
    <2> QED
        BY <1>0, <2>2
<1>2. ASSUME NEW e \in Sent PROVE e \in Sent' /\ Pos(e)' = Pos(e)
    <2>1. e \in Sent' /\ Pos(e) \in 1 .. Len(log) /\ log[Pos(e)] = e
        BY <1>0, PosFacts DEF TimelineGrows
    <2>2. log'[Pos(e)] = e /\ Pos(e) \in 1 .. Len(log')
        BY <1>0, <2>1 DEF TimelineGrows
    <2>3. \A i, j \in 1 .. Len(log') : log'[i] = log'[j] => i = j
        BY DEF TypeInv, LogInv
    <2> QED
        BY <1>1, <2>1, <2>2, <2>3
<1>3. ASSUME NEW e \in Sent', Pos(e)' <= Len(log) PROVE e \in Sent
    <2>1. Pos(e)' \in 1 .. Len(log)
        BY <1>0, <1>1, <1>3
    <2>2. log[Pos(e)'] = e
        BY <1>1, <2>1 DEF TimelineGrows
    <2> QED
        BY <1>0, <2>1, <2>2, PosFacts
<1> QED
    BY <1>2, <1>3

(* The same of a place of the timeline.                                    *)
LEMMA KeptAt ==
    ASSUME TypeInv, CacheStep, TimelineGrows, asked \subseteq asked',
           NEW j \in 1 .. Len(log), Kept(log[j])
    PROVE  Kept(log[j])'
<1>1. PICK e : e = log[j]
    OBVIOUS
<1>2. e \in Events /\ log'[j] = e /\ Kept(e)
    BY <1>1 DEF TypeInv, TypeOK, TimelineGrows
<1>3. Kept(e)'
    BY <1>2, KeptStays DEF TimelineGrows
<1> QED
    BY <1>2, <1>3 DEF Kept

(* A walk is not disturbed by what others do.                              *)
LEMMA WalkStays ==
    ASSUME TypeInv, CacheStep, TimelineGrows, asked \subseteq asked',
           NEW x \in Fetch, FetchInv(x), WalkInv(x)
    PROVE  WalkInv(x)'
<1>0. /\ x.pos \in Nat /\ x.start \in Nat /\ Len(x.chunk) \in Nat /\ Len(log) \in Nat
      /\ x.start <= Len(log)
    BY FetchFields DEF FetchInv, TypeInv, TypeOK
<1>1. ASSUME x.op = "page", x.pc \in {"load", "process"}, x.got < Limit,
             NEW j \in x.pos + Len(x.chunk) + 1 .. x.start
      PROVE  Kept(log[j])'
    <2>1. j \in 1 .. Len(log)
        BY <1>0
    <2>2. Kept(log[j])
        BY <1>1 DEF WalkInv
    <2> QED
        BY <2>1, <2>2, KeptAt
<1>2. ASSUME x.op = "single", x.pc = "process", NEW j \in 1 .. x.start,
             Target[log'[j]] = x.chunk[Len(x.chunk)].id
      PROVE  Kept(log[j])' \/ \E i \in 1 .. Len(x.chunk) : x.chunk[i].id = log'[j]
    <2>1. j \in 1 .. Len(log)
        BY <1>0
    <2>2. log'[j] = log[j]
        BY <2>1 DEF TimelineGrows
    <2>3. Kept(log[j]) \/ \E i \in 1 .. Len(x.chunk) : x.chunk[i].id = log[j]
        BY <1>2, <2>2 DEF WalkInv
    <2> QED
        BY <2>1, <2>2, <2>3, KeptAt
<1> QED
    BY <1>1, <1>2 DEF WalkInv

(***************************************************************************)
(* A message that was put together stays complete: what is sent later is   *)
(* behind the place where the fetch began.                                 *)
(***************************************************************************)
LEMMA ReflectsStays ==
    ASSUME TypeInv, TypeInv', TimelineGrows, asked \subseteq asked',
           NEW message, message.edit \in Sent \cup {None}, NEW m,
           NEW last \in Nat, last <= Len(log), Reflects(message, m, last)
    PROVE  Reflects(message, m, last)'
<1>1. ASSUME NEW e \in Expected(m, last)' PROVE e \in Expected(m, last) /\ Pos(e)' = Pos(e)
    <2>1. /\ e \in Events /\ Target[e] = m /\ Type[e] \in RelationsOf(m)
          /\ e \in Sent' /\ Pos(e)' <= last
          /\ e \notin Encrypted \cup redacted' \cup asked'
        BY DEF Expected, RelationsOf
    <2>2. Len(log) \in Nat /\ Len(log') \in Nat
        BY DEF TypeInv, TypeOK
    <2>3. \A i \in DOMAIN log' : i \in Nat
        BY DEF TypeInv, TypeOK
    <2>4. Pos(e)' \in DOMAIN log'
        <3>1. \E i \in DOMAIN log' : log'[i] = e
            BY <2>1 DEF Sent
        <3> QED
            BY <3>1, Zenon DEF Pos
    <2>5. Pos(e)' <= Len(log)
        BY <2>1, <2>2, <2>3, <2>4
    <2>6. e \in Sent /\ Pos(e)' = Pos(e)
        BY <2>1, <2>5, PosStays
    <2> QED
        BY <2>1, <2>6 DEF Expected, TimelineGrows
<1>2. message.edit # None => Pos(message.edit)' = Pos(message.edit)
    BY PosStays
<1> QED
    BY <1>1, <1>2 DEF Reflects

(* The same of all messages of a channel.                                  *)
LEMMA PipeStays ==
    ASSUME TypeInv, TypeInv', TimelineGrows, asked \subseteq asked',
           NEW x \in Fetch, x.start <= Len(log), PipeInv(x)
    PROVE  PipeInv(x)'
<1>1. ASSUME NEW i \in 1 .. Len(x.pipe)
      PROVE  /\ x.pipe[i].message.edit \in Sent' \cup {None}
             /\ x.pipe[i].message.kind = "message" =>
                  Reflects(x.pipe[i].message, x.pipe[i].id, x.start)'
    <2>1. /\ x.pipe[i].message.edit \in Sent \cup {None}
          /\ x.pipe[i].message.kind = "message" =>
               Reflects(x.pipe[i].message, x.pipe[i].id, x.start)
        BY DEF PipeInv
    <2>2. x.start \in Nat
        BY FetchFields
    <2> QED
        BY <2>1, <2>2, ReflectsStays DEF TimelineGrows
<1> QED
    BY <1>1 DEF PipeInv

(* The fetches that do nothing are not disturbed.                          *)
LEMMA AssembleFrame ==
    ASSUME AssembleInv, [Next]_vars, NEW f,
           \A g \in Fetchers : g # f => fetch'[g] = fetch[g],
           f \in Fetchers => WalkInv(fetch[f])' /\ PipeInv(fetch[f])'
    PROVE  AssembleInv'
<1>1. TypeInv /\ TypeInv' /\ CacheStep /\ TimelineGrows /\ asked \subseteq asked'
    BY TypeStep, StepGrows DEF AssembleInv
<1>2. ASSUME NEW g \in Fetchers, g # f PROVE WalkInv(fetch[g])' /\ PipeInv(fetch[g])'
    <2>1. PICK x : x = fetch[g]
        OBVIOUS
    <2>2. x \in Fetch /\ FetchInv(x) /\ WalkInv(x) /\ PipeInv(x) /\ fetch'[g] = x
        BY <1>2, <2>1 DEF AssembleInv, TypeInv
    <2>3. x.start <= Len(log)
        BY <2>2 DEF FetchInv
    <2>4. WalkInv(x)'
        BY <1>1, <2>2, WalkStays
    <2>5. PipeInv(x)'
        BY <1>1, <2>2, <2>3, PipeStays
    <2> QED
        BY <2>2, <2>4, <2>5 DEF WalkInv, PipeInv
<1> QED
    BY <1>1, <1>2 DEF AssembleInv

(***************************************************************************)
(* build_from_original: when all that is expected of a message is kept,    *)
(* the message has it.                                                     *)
(***************************************************************************)
LEMMA BuildReflects ==
    ASSUME TypeInv, NEW m \in Events, Type[m] \in {"message", "poll"}, NEW last,
           NEW c, c.related = cache.related,
           \A d \in Expected(m, last) : Kept(d)
    PROVE  /\ Build(c, m).edit \in Sent \cup {None}
           /\ Reflects(Build(c, m), m, last)
<1> DEFINE S == c.related[m]
           types == IF Type[m] = "poll" THEN {"poll_edit"} ELSE {"edit"}
           edits == OfType(S, types)
<1>0. log \in Seq(Events) /\ LogInv /\ S \subseteq Sent
    BY DEF TypeInv, TypeOK, KnownInv
<1>1. /\ Build(c, m).edit = Latest(edits)
      /\ Build(c, m).reactions = OfType(S, {"reaction"})
      /\ Build(c, m).votes = IF Type[m] = "poll" THEN OfType(S, {"response", "end"}) ELSE {}
    BY DEF Build
<1>2. edits \in SUBSET Sent
    BY <1>0 DEF OfType
<1>3. /\ Latest(edits) \in edits \cup {None}
      /\ \A e \in edits : Latest(edits) # None /\ Pos(e) <= Pos(Latest(edits))
    BY <1>0, <1>2, LatestFacts
<1>4. ASSUME NEW e \in Expected(m, last)
      PROVE  /\ e \in S /\ Type[e] \in RelationsOf(m)
    <2>1. /\ e \in Events /\ Target[e] = m /\ Type[e] \in RelationsOf(m)
          /\ e \notin Encrypted \cup redacted \cup asked
        BY DEF Expected
    <2>2. Type[e] \in Relations \ {"redaction"}
        BY <2>1 DEF RelationsOf, Relations
    <2> QED
        BY <2>1, <2>2 DEF Kept
<1> HIDE DEF S
<1>5. ASSUME NEW e \in Expected(m, last)
      PROVE  /\ Type[e] \in {"edit", "poll_edit"} => e \in edits
             /\ Type[e] = "reaction" => e \in OfType(S, {"reaction"})
             /\ Type[e] \in {"response", "end"} =>
                  Type[m] = "poll" /\ e \in OfType(S, {"response", "end"})
    BY <1>4 DEF OfType, RelationsOf
<1> HIDE DEF edits
<1>6. Reflects(Build(c, m), m, last)
    BY <1>1, <1>3, <1>5 DEF Reflects
<1> QED
    BY <1>1, <1>2, <1>3, <1>6

(* process_timeline_event: the message it returns has what is kept.        *)
LEMMA ResultReflects ==
    ASSUME TypeInv, NEW e \in Sent, NEW view \in {"clear", "utd", "redacted"}, NEW last,
           Type[e] \in {"message", "poll"} => \A d \in Expected(e, last) : Kept(d),
           NEW message, message = Result(Process(cache, e, view), e, view)
    PROVE  /\ message.edit \in Sent \cup {None}
           /\ message.kind = "message" => Reflects(message, e, last)
<1> DEFINE new == Process(cache, e, view)
<1>0. cache \in CachedRoom /\ e \in Events
    BY SentEvents DEF TypeInv, TypeOK
<1>1. view = "clear" /\ Type[e] \notin Relations => new.related = cache.related
    BY <1>0, ProcessFacts
<1> HIDE DEF new
<1>2. message = Result(new, e, view)
    BY DEF new
<1>3. CASE view = "clear" /\ Type[e] \in {"message", "poll"}
    <2>1. message = Build(new, e)
        BY <1>2, <1>3 DEF Result
    <2>2. new.related = cache.related
        BY <1>1, <1>3 DEF Relations
    <2> QED
        BY <1>0, <1>3, <2>1, <2>2, BuildReflects
<1>4. CASE ~ (view = "clear" /\ Type[e] \in {"message", "poll"})
    <2>1. \/ message = Absent
          \/ message = [Absent EXCEPT !.kind = "encrypted"]
          \/ message = [Absent EXCEPT !.kind = "removed"]
        BY <1>2, <1>4 DEF Result
    <2> QED
        BY <2>1 DEF Absent
<1> QED
    BY <1>3, <1>4

(* A relation comes after the event it relates to.                         *)
LEMMA RelationAfter ==
    ASSUME TypeInv, NEW d \in Sent, Type[d] \in Relations \ {"redaction"}, Target[d] \in Sent
    PROVE  Pos(Target[d]) < Pos(d)
<1>0. log \in Seq(Events) /\ LogInv
    BY DEF TypeInv, TypeOK
<1>1. Pos(d) \in 1 .. Len(log) /\ log[Pos(d)] = d
    BY <1>0, PosFacts
<1>2. PICK i \in 1 .. Len(log) : i < Pos(d) /\ log[i] = Target[d]
    BY <1>0, <1>1 DEF LogInv
<1>3. Pos(Target[d]) = i
    BY <1>0, <1>2, PosFacts
<1> QED
    BY <1>2, <1>3

(***************************************************************************)
(* When a walk reaches a message, everything that is expected of it is     *)
(* kept: a page has passed it, a single fetch has processed it before.     *)
(***************************************************************************)
LEMMA ReachedComplete ==
    ASSUME AssembleInv, NEW f \in Fetchers, fetch[f].pc = "process", fetch[f].chunk # <<>>,
           fetch[f].op = "single" => Len(fetch[f].chunk) = 1,
           NEW e, e = Head(fetch[f].chunk).id, Type[e] \in {"message", "poll"}
    PROVE  \A d \in Expected(e, fetch[f].start) : Kept(d)
<1>1. PICK x : x = fetch[f]
    OBVIOUS
<1>2. TypeInv /\ x \in Fetch /\ FetchInv(x) /\ WalkInv(x) /\ x.got <= Limit /\ LogInv
    BY <1>1 DEF AssembleInv, TypeInv, TypeOK
<1>3. x.pc = "process" /\ x.chunk # <<>> /\ (x.op = "single" => Len(x.chunk) = 1)
    BY <1>1
<1>4. /\ e = x.chunk[1].id /\ 1 \in 1 .. Len(x.chunk) /\ e \in Sent
      /\ x.pos \in Nat /\ x.start \in Nat /\ Len(x.chunk) \in Nat /\ x.got \in Nat
      /\ Limit \in Nat /\ log \in Seq(Events) /\ x.start <= Len(log) /\ Len(log) \in Nat
    BY <1>1, <1>2, <1>3, HeadFacts, FetchFields, RoomCacheAssumption DEF FetchInv, TypeInv, TypeOK
<1>5. ASSUME NEW d \in Expected(e, x.start) PROVE Kept(d)
    <2>1. /\ d \in Sent /\ Target[d] = e /\ Pos(d) <= x.start
          /\ Type[d] \in Relations \ {"redaction"}
        BY DEF Expected, RelationsOf, Relations
    <2>2. Pos(d) \in 1 .. Len(log) /\ log[Pos(d)] = d
        BY <1>2, <1>4, <2>1, PosFacts
    <2>3. CASE x.op = "page"
        <3>1. x.got # Limit
            BY <1>2, <1>3, <2>3 DEF FetchInv, PageInv
        <3>2. x.got < Limit
            BY <1>2, <1>4, <3>1
        <3>3. x.pos + Len(x.chunk) <= x.start /\ e = log[x.pos + Len(x.chunk) + 1 - 1]
            BY <1>2, <1>3, <1>4, <2>3, <3>2 DEF FetchInv, PageInv
        <3>4. e = log[x.pos + Len(x.chunk)] /\ x.pos + Len(x.chunk) \in 1 .. Len(log)
            BY <1>4, <3>3
        <3>5. Pos(e) = x.pos + Len(x.chunk)
            BY <1>2, <1>4, <3>4, PosFacts
        <3>6. Pos(e) < Pos(d)
            BY <1>2, <1>4, <2>1, RelationAfter
        <3>7. Pos(d) \in x.pos + Len(x.chunk) + 1 .. x.start
            BY <1>4, <2>1, <2>2, <3>5, <3>6
        <3> QED
            BY <1>2, <1>3, <2>2, <2>3, <3>2, <3>7 DEF WalkInv
    <2>4. CASE x.op = "single"
        <3>1. Len(x.chunk) = 1 /\ x.chunk[Len(x.chunk)].id = e
            BY <1>3, <1>4, <2>4
        <3>2. Pos(d) \in 1 .. x.start
            BY <1>4, <2>1, <2>2
        <3>3. Kept(d) \/ \E i \in 1 .. 1 : x.chunk[i].id = d
            BY <1>2, <1>3, <2>1, <2>2, <2>4, <3>1, <3>2 DEF WalkInv
        <3>4. d # e
            BY <2>1 DEF Relations
        <3>5. \A i \in 1 .. 1 : x.chunk[i].id = e
            BY <1>4
        <3> QED
            BY <3>3, <3>4, <3>5
    <2> QED
        BY <1>2, <2>3, <2>4 DEF Fetch
<1> QED
    BY <1>1, <1>5

-----------------------------------------------------------------------------
(* The steps of the fetch itself.                                          *)

(* A fetch that begins has everything before it, one that ends nothing.    *)
LEMMA BeginAssembles ==
    ASSUME AssembleInv, NEW f \in Fetchers,
           BeginFetch(f) \/ (\E m \in Events : BeginSingle(f, m)) \/ Finish(f)
    PROVE  WalkInv(fetch[f])' /\ PipeInv(fetch[f])'
<1>0. log \in Seq(Events) /\ LogInv /\ fetch \in [Fetchers -> Fetch] /\ Len(log) \in Nat
    BY DEF AssembleInv, TypeInv, TypeOK
<1>1. log' = log
    BY DEF BeginFetch, BeginSingle, Finish, server
<1>2. PICK z : z = fetch'[f]
    OBVIOUS
<1>3. SUFFICES WalkInv(z)' /\ z.pipe = <<>>
    <2>1. Len(z.pipe) = 0
        BY <1>3
    <2> QED
        BY <1>2, <1>3, <2>1 DEF WalkInv, PipeInv
<1>4. CASE BeginFetch(f)
    <2>1. PICK start \in {Len(log)} \cup {Pos(m) - 1 : m \in {e \in Sent : app[e].kind # "absent"}} :
             fetch' = [fetch EXCEPT ![f] = [IdleFetch EXCEPT !.pc = "load", !.start = start,
                                                             !.pos = start]]
        BY <1>4 DEF BeginFetch
    <2>2. z = [IdleFetch EXCEPT !.pc = "load", !.start = start, !.pos = start]
        BY <1>0, <1>2, <2>1
    <2>3. z.op = "page" /\ z.start = start /\ z.pos = start /\ z.chunk = <<>> /\ z.pipe = <<>>
        BY <2>2 DEF IdleFetch
    <2>4. start \in Int /\ Len(z.chunk) = 0
        <3>1. ASSUME NEW m \in Sent PROVE Pos(m) \in Int
            <4>1. Pos(m) \in 1 .. Len(log)
                BY <1>0, PosFacts
            <4> QED
                BY <1>0, <4>1
        <3> QED
            BY <1>0, <2>1, <2>3, <3>1
    <2>5. \A j \in start + 0 + 1 .. start : FALSE
        BY <2>4
    <2> QED
        BY <2>3, <2>4, <2>5 DEF WalkInv
<1>5. ASSUME NEW m \in Events, BeginSingle(f, m) PROVE WalkInv(z)' /\ z.pipe = <<>>
    <2> DEFINE ids == Append(RelatedTo(m), m)
               chunk == [i \in DOMAIN ids |-> [id |-> ids[i], view |-> View(ids[i])]]
    <2>1. fetch' = [fetch EXCEPT ![f] = [IdleFetch EXCEPT !.pc = "process", !.op = "single",
                                                          !.start = Len(log), !.chunk = chunk]]
        BY <1>5 DEF BeginSingle
    <2>2. /\ RelatedTo(m) \in Seq(Events) /\ Len(RelatedTo(m)) \in Nat
          /\ \A j \in 1 .. Len(log) : Target[log[j]] = m =>
               \E k \in 1 .. Len(RelatedTo(m)) : RelatedTo(m)[k] = log[j]
        BY <1>0, RelatedFacts
    <2>3. /\ ids \in Seq(Events) /\ Len(ids) = Len(RelatedTo(m)) + 1
          /\ DOMAIN ids = 1 .. Len(ids) /\ ids[Len(ids)] = m
          /\ \A k \in 1 .. Len(RelatedTo(m)) : ids[k] = RelatedTo(m)[k] /\ k \in 1 .. Len(ids)
        BY <2>2
    <2> HIDE DEF ids
    <2>4. PICK s : s = chunk
        OBVIOUS
    <2>5. Len(ids) \in Nat /\ Len(ids) \in 1 .. Len(ids)
        BY <2>2, <2>3
    <2>6. Len(s) = Len(ids) /\ \A k \in 1 .. Len(ids) : s[k].id = ids[k]
        BY <2>3, <2>4, <2>5
    <2>7. z = [IdleFetch EXCEPT !.pc = "process", !.op = "single", !.start = Len(log), !.chunk = s]
        BY <1>0, <1>2, <2>1, <2>4
    <2>8. z.op = "single" /\ z.start = Len(log) /\ z.chunk = s /\ z.pipe = <<>>
        BY <2>7 DEF IdleFetch
    <2>9. s[Len(s)].id = m
        BY <2>3, <2>5, <2>6
    <2>10. ASSUME NEW j \in 1 .. Len(log), Target[log[j]] = m
           PROVE  \E i \in 1 .. Len(s) : s[i].id = log[j]
        BY <2>2, <2>3, <2>6, <2>10
    <2> QED
        BY <1>1, <2>8, <2>9, <2>10 DEF WalkInv
<1>6. CASE Finish(f)
    <2>1. z = IdleFetch
        BY <1>0, <1>2, <1>6 DEF Finish
    <2> QED
        BY <2>1 DEF IdleFetch, WalkInv
<1> QED
    BY <1>4, <1>5, <1>6

(* Loading a page, and sending a message on, is no step of the walk.       *)
LEMMA LoadAssembles ==
    ASSUME AssembleInv, [Next]_vars, NEW f \in Fetchers,
           LoadChunk(f) \/ LoadFails(f) \/ ChunkDone(f) \/ Deliver(f)
    PROVE  WalkInv(fetch[f])' /\ PipeInv(fetch[f])'
<1>0. TypeInv /\ TypeInv' /\ CacheStep /\ TimelineGrows /\ asked \subseteq asked'
    BY TypeStep, StepGrows DEF AssembleInv
<1>1. PICK x : x = fetch[f]
    OBVIOUS
<1>2. PICK z : z = fetch'[f]
    OBVIOUS
<1>3. /\ x \in Fetch /\ FetchInv(x) /\ WalkInv(x) /\ PipeInv(x) /\ z \in Fetch
      /\ fetch \in [Fetchers -> Fetch]
    BY <1>0, <1>1, <1>2 DEF AssembleInv, TypeInv
<1>4. UNCHANGED <<log, redacted, cache, asked>>
    BY DEF LoadChunk, LoadFails, ChunkDone, Deliver, server
<1>5. /\ x.pos \in Nat /\ x.start \in Nat /\ Len(x.chunk) \in Nat
      /\ x.start <= Len(log) /\ Len(log) \in Nat
    BY <1>0, <1>3, FetchFields DEF FetchInv, TypeInv, TypeOK
<1>6. SUFFICES WalkInv(z) /\ PipeInv(z) /\ z.start = x.start
    <2>1. WalkInv(z)'
        BY <1>4, <1>6 DEF WalkInv, Kept
    <2>2. PipeInv(z)'
        BY <1>0, <1>3, <1>5, <1>6, PipeStays
    <2> QED
        BY <1>2, <2>1, <2>2 DEF WalkInv, PipeInv
<1>7. CASE LoadChunk(f)
    <2> DEFINE n == IF x.pos < ChunkSize THEN x.pos ELSE ChunkSize
    <2>1. PICK end \in BOOLEAN :
             fetch' = [fetch EXCEPT ![f] = [@ EXCEPT !.pc = "process", !.chunk = Chunk(x.pos, n),
                                                     !.pos = x.pos - n, !.end = end]]
        BY <1>1, <1>7 DEF LoadChunk
    <2>2. x.pc = "load"
        BY <1>1, <1>7 DEF LoadChunk
    <2>3. n \in Nat /\ n <= x.pos
        BY <1>5, RoomCacheAssumption
    <2> HIDE DEF n
    <2>4. z = [x EXCEPT !.pc = "process", !.chunk = Chunk(x.pos, n), !.pos = x.pos - n, !.end = end]
        BY <1>1, <1>2, <1>3, <2>1
    <2>5. /\ z.op = x.op /\ z.start = x.start /\ z.pipe = x.pipe /\ z.got = x.got
          /\ z.pos = x.pos - n /\ z.chunk = Chunk(x.pos, n)
        BY <1>3, <2>4 DEF Fetch
    <2>6. Len(z.chunk) = n
        BY <2>3, <2>5 DEF Chunk
    <2>7. x.op = "page" /\ x.chunk = <<>> /\ Len(x.chunk) = 0
        BY <1>3, <2>2 DEF FetchInv, PageInv
    <2>8. z.pos + Len(z.chunk) = x.pos + Len(x.chunk)
        BY <1>5, <2>3, <2>5, <2>6, <2>7
    <2>9. WalkInv(z)
        BY <1>3, <2>2, <2>5, <2>7, <2>8 DEF WalkInv
    <2> QED
        BY <1>3, <2>5, <2>9 DEF PipeInv
<1>8. CASE LoadFails(f) \/ ChunkDone(f)
    <2>1. PICK pc : fetch' = [fetch EXCEPT ![f].pc = pc]
        BY <1>8 DEF LoadFails, ChunkDone
    <2>2. z = [x EXCEPT !.pc = pc]
        BY <1>1, <1>2, <1>3, <2>1
    <2>3. /\ z.op = x.op /\ z.start = x.start /\ z.pipe = x.pipe /\ z.got = x.got
          /\ z.pos = x.pos /\ z.chunk = x.chunk /\ z.pc = pc
        BY <1>3, <2>2 DEF Fetch
    <2>4. x.op = "page" /\ x.pc \in {"load", "process"}
        BY <1>1, <1>3, <1>8 DEF LoadFails, ChunkDone, FetchInv
    <2>5. WalkInv(z)
        BY <1>3, <2>3, <2>4 DEF WalkInv
    <2> QED
        BY <1>3, <2>3, <2>5 DEF PipeInv
<1>9. CASE Deliver(f)
    <2>1. fetch' = [fetch EXCEPT ![f].pipe = Tail(@)] /\ x.pipe # <<>>
        BY <1>1, <1>9 DEF Deliver
    <2>2. z = [x EXCEPT !.pipe = Tail(x.pipe)]
        BY <1>1, <1>2, <1>3, <2>1
    <2>3. /\ z.op = x.op /\ z.start = x.start /\ z.pipe = Tail(x.pipe) /\ z.got = x.got
          /\ z.pos = x.pos /\ z.chunk = x.chunk /\ z.pc = x.pc
        BY <1>3, <2>2 DEF Fetch
    <2>4. WalkInv(z)
        BY <1>3, <2>3 DEF WalkInv
    <2>5. \A i \in 1 .. Len(z.pipe) : i + 1 \in 1 .. Len(x.pipe) /\ z.pipe[i] = x.pipe[i + 1]
        <3> DEFINE Item == [id : Events, message : Message]
        <3>1. x.pipe \in Seq(Item)
            BY <1>3, FetchFields
        <3> HIDE DEF Item
        <3>2. \A s \in Seq(Item) : s # <<>> =>
                 \A i \in 1 .. Len(Tail(s)) : i + 1 \in 1 .. Len(s) /\ Tail(s)[i] = s[i + 1]
            OBVIOUS
        <3> QED
            BY <2>1, <2>3, <3>1, <3>2
    <2>6. PipeInv(z)
        BY <1>3, <2>3, <2>5 DEF PipeInv
    <2> QED
        BY <2>3, <2>4, <2>6
<1> QED
    BY <1>7, <1>8, <1>9

(* The event that was processed is kept, unless it cannot be read.         *)
LEMMA HeadKept ==
    ASSUME TypeInv, NEW f \in Fetchers, fetch[f].chunk # <<>>,
           NEW e, e = Head(fetch[f].chunk).id, NEW view, view = Head(fetch[f].chunk).view,
           cache' = Process(cache, e, view), redacted' = redacted
    PROVE  Kept(e)'
<1>1. e \in Events /\ view \in {"clear", "utd", "redacted"} /\ cache \in CachedRoom
    BY ProcessHead DEF TypeInv, TypeOK
<1>2. (view = "redacted" => e \in redacted) /\ (view = "utd" => e \in Encrypted)
    <2>1. FetchInv(fetch[f]) /\ fetch[f] \in Fetch
        BY DEF TypeInv, TypeOK
    <2>2. Head(fetch[f].chunk) = fetch[f].chunk[1] /\ 1 \in 1 .. Len(fetch[f].chunk)
        BY <2>1, HeadFacts
    <2>3. LoadedInv(fetch[f].chunk[1])
        BY <2>1, <2>2 DEF FetchInv
    <2> QED
        BY <2>2, <2>3 DEF LoadedInv
<1>3. view = "clear" /\ Type[e] \in Relations => e \in Process(cache, e, view).related[Target[e]]
    BY <1>1, ProcessFacts
<1> QED
    BY <1>1, <1>2, <1>3 DEF Kept

(* The walk goes on with the event that was processed.                     *)
LEMMA ProcessWalks ==
    ASSUME AssembleInv, [Next]_vars, NEW f \in Fetchers, ProcessPage(f) \/ ProcessSingle(f),
           NEW y, Advanced(fetch[f], y)
    PROVE  WalkInv(y)'
<1>0. TypeInv /\ CacheStep /\ TimelineGrows /\ asked \subseteq asked'
    BY TypeStep, StepGrows DEF AssembleInv
<1>1. PICK x : x = fetch[f]
    OBVIOUS
<1>2. x \in Fetch /\ FetchInv(x) /\ WalkInv(x) /\ Advanced(x, y) /\ log \in Seq(Events)
    BY <1>1 DEF AssembleInv, TypeInv, TypeOK
<1>3. PICK e : e = Head(x.chunk).id
    OBVIOUS
<1>4. /\ x.pc = "process" /\ log' = log /\ redacted' = redacted
      /\ cache' = Process(cache, e, Head(x.chunk).view)
    BY <1>1, <1>3 DEF ProcessPage, ProcessSingle, server
<1>5. x.chunk # <<>> /\ x.got <= Limit
    BY <1>0, <1>1, <1>2 DEF ProcessPage, ProcessSingle, FetchInv, TypeInv, TypeOK
<1>6. Kept(e)'
    BY <1>0, <1>1, <1>3, <1>4, <1>5, HeadKept
<1>7. /\ x.pos \in Nat /\ x.start \in Nat /\ Len(x.chunk) \in Nat /\ x.got \in Nat /\ y.got \in Nat
      /\ x.start <= Len(log) /\ Len(log) \in Nat /\ Limit \in Nat
    BY <1>2, FetchFields, RoomCacheAssumption DEF FetchInv, Advanced
<1>8. /\ Head(x.chunk) = x.chunk[1] /\ 1 \in 1 .. Len(x.chunk)
      /\ Len(Tail(x.chunk)) = Len(x.chunk) - 1
      /\ \A i \in 1 .. Len(x.chunk) - 1 : Tail(x.chunk)[i] = x.chunk[i + 1]
    BY <1>2, <1>5, HeadFacts
<1>9. y.op = x.op /\ y.start = x.start /\ y.pos = x.pos
    BY <1>2 DEF Advanced
<1>10. ASSUME y.op = "page", y.pc \in {"load", "process"}, y.got < Limit,
              NEW j \in y.pos + Len(y.chunk) + 1 .. y.start
       PROVE  Kept(log[j])'
    <2>1. y.got # Limit
        BY <1>7, <1>10
    <2>2. y.chunk = Tail(x.chunk)
        BY <1>2, <1>10, <2>1 DEF Advanced
    <2>3. x.got # Limit
        BY <1>2, <1>4, <1>5, <1>9, <1>10 DEF FetchInv, PageInv
    <2>4. x.got < Limit
        BY <1>5, <1>7, <2>3
    <2>5. j \in x.pos + Len(x.chunk) .. x.start
        BY <1>7, <1>8, <1>9, <2>2
    <2>6. CASE j = x.pos + Len(x.chunk)
        <3>1. x.chunk[1].id = log[x.pos + Len(x.chunk) + 1 - 1]
            BY <1>2, <1>4, <1>8, <1>9, <1>10, <2>4 DEF FetchInv, PageInv
        <3>2. log[j] = e
            BY <1>3, <1>7, <1>8, <2>6, <3>1
        <3>3. log'[j] = e
            BY <1>4, <3>2
        <3> QED
            BY <1>6, <3>3 DEF Kept
    <2>7. CASE j # x.pos + Len(x.chunk)
        <3>1. j \in x.pos + Len(x.chunk) + 1 .. x.start /\ j \in 1 .. Len(log)
            BY <1>7, <2>5, <2>7
        <3>2. Kept(log[j])
            BY <1>2, <1>4, <1>9, <1>10, <2>4, <3>1 DEF WalkInv
        <3> QED
            BY <1>0, <3>1, <3>2, KeptAt
    <2> QED
        BY <2>6, <2>7
<1>11. ASSUME y.op = "single", y.pc = "process", NEW j \in 1 .. y.start,
              Target[log'[j]] = y.chunk[Len(y.chunk)].id
       PROVE  Kept(log[j])' \/ \E i \in 1 .. Len(y.chunk) : y.chunk[i].id = log'[j]
    <2>1. y.chunk = Tail(x.chunk) /\ Len(x.chunk) > 1
        BY <1>2, <1>9, <1>11 DEF Advanced
    <2>2. Len(y.chunk) = Len(x.chunk) - 1 /\ Len(y.chunk) \in 1 .. Len(x.chunk) - 1
        BY <1>7, <1>8, <2>1
    <2>3. y.chunk[Len(y.chunk)] = x.chunk[Len(x.chunk)]
        <3>1. y.chunk[Len(y.chunk)] = x.chunk[Len(y.chunk) + 1]
            BY <1>8, <2>1, <2>2
        <3>2. Len(y.chunk) + 1 = Len(x.chunk)
            BY <1>7, <2>2
        <3> QED
            BY <3>1, <3>2
    <2>4. j \in 1 .. x.start /\ j \in 1 .. Len(log) /\ log'[j] = log[j]
        BY <1>4, <1>7, <1>9
    <2>5. Kept(log[j]) \/ \E i \in 1 .. Len(x.chunk) : x.chunk[i].id = log[j]
        BY <1>2, <1>4, <1>9, <1>11, <2>3, <2>4 DEF WalkInv
    <2>6. CASE Kept(log[j])
        BY <1>0, <2>4, <2>6, KeptAt
    <2>7. ASSUME NEW i \in 1 .. Len(x.chunk), x.chunk[i].id = log[j]
          PROVE  Kept(log[j])' \/ \E k \in 1 .. Len(y.chunk) : y.chunk[k].id = log'[j]
        <3>1. CASE i = 1
            <4>1. log'[j] = e
                BY <1>3, <1>8, <2>4, <2>7, <3>1
            <4> QED
                BY <1>6, <4>1 DEF Kept
        <3>2. CASE i # 1
            <4>1. i - 1 \in 1 .. Len(x.chunk) - 1 /\ (i - 1) + 1 = i
                BY <1>7, <3>2
            <4>2. y.chunk[i - 1] = x.chunk[i] /\ i - 1 \in 1 .. Len(y.chunk)
                BY <1>8, <2>1, <2>2, <4>1
            <4> QED
                BY <2>4, <2>7, <4>2
        <3> QED
            BY <3>1, <3>2
    <2> QED
        BY <2>5, <2>6, <2>7
<1> QED
    BY <1>10, <1>11 DEF WalkInv

(* What is handed over is complete.                                        *)
LEMMA ProcessHands ==
    ASSUME AssembleInv, NEW f \in Fetchers, ProcessPage(f) \/ ProcessSingle(f),
           NEW y, Advanced(fetch[f], y), Handed(fetch[f], y, HeadItem(fetch[f]))
    PROVE  PipeInv(y)
<1>0. TypeInv
    BY DEF AssembleInv
<1>1. PICK x : x = fetch[f]
    OBVIOUS
<1>2. PICK item : item = HeadItem(fetch[f])
    OBVIOUS
<1>3. /\ x \in Fetch /\ FetchInv(x) /\ PipeInv(x) /\ y.start = x.start /\ Handed(x, y, item)
      /\ x.pc = "process"
    BY <1>1, <1>2 DEF AssembleInv, TypeInv, Advanced, ProcessPage, ProcessSingle
<1>4. x.chunk # <<>>
    BY <1>1, <1>3 DEF ProcessPage, ProcessSingle, FetchInv
<1> DEFINE Item == [id : Events, message : Message]
<1>5. PICK e, view : e = Head(x.chunk).id /\ view = Head(x.chunk).view
    OBVIOUS
<1>6. /\ e \in Sent /\ e \in Events /\ view \in {"clear", "utd", "redacted"}
      /\ Result(Process(cache, e, view), e, view) \in Message
    BY <1>0, <1>1, <1>4, <1>5, ProcessHead
<1>7. /\ item.id = e /\ item.message = Result(Process(cache, e, view), e, view)
      /\ item \in Item
    BY <1>1, <1>2, <1>5, <1>6 DEF HeadItem
<1>8. x.pipe \in Seq(Item) /\ Len(x.pipe) \in Nat
    BY <1>3, FetchFields
<1>9. CASE y.pipe = x.pipe
    BY <1>3, <1>9 DEF PipeInv
<1>10. CASE x.op = "single" => Len(x.chunk) = 1
    <2>1. Type[e] \in {"message", "poll"} => \A d \in Expected(e, x.start) : Kept(d)
        BY <1>1, <1>3, <1>4, <1>5, <1>10, ReachedComplete
    <2>2. /\ item.message.edit \in Sent \cup {None}
          /\ item.message.kind = "message" => Reflects(item.message, item.id, y.start)
        BY <1>0, <1>3, <1>6, <1>7, <2>1, ResultReflects
    <2> HIDE DEF Item
    <2>3. CASE y.pipe = Append(x.pipe, item)
        <3>1. /\ Len(y.pipe) = Len(x.pipe) + 1 /\ y.pipe[Len(x.pipe) + 1] = item
              /\ \A i \in 1 .. Len(x.pipe) : y.pipe[i] = x.pipe[i]
            BY <1>7, <1>8, <2>3
        <3>2. \A i \in 1 .. Len(y.pipe) : i \in 1 .. Len(x.pipe) \/ i = Len(x.pipe) + 1
            BY <1>8, <3>1
        <3> QED
            BY <1>3, <2>2, <3>1, <3>2 DEF PipeInv
    <2>4. CASE y.pipe = <<item>>
        <3>1. Len(y.pipe) = 1 /\ \A i \in 1 .. Len(y.pipe) : y.pipe[i] = item
            BY <2>4
        <3> QED
            BY <2>2, <3>1 DEF PipeInv
    <2> QED
        BY <1>3, <1>9, <2>3, <2>4 DEF Handed
<1> QED
    BY <1>3, <1>9, <1>10 DEF Handed

(* An event of a chunk is processed.                                       *)
LEMMA ProcessAssembles ==
    ASSUME AssembleInv, [Next]_vars, NEW f \in Fetchers, ProcessPage(f) \/ ProcessSingle(f)
    PROVE  /\ WalkInv(fetch[f])' /\ PipeInv(fetch[f])'
           /\ \A g \in Fetchers : g # f => fetch'[g] = fetch[g]
<1>0. TypeInv /\ TypeInv' /\ TimelineGrows /\ asked \subseteq asked' /\ fetch \in [Fetchers -> Fetch]
    BY TypeStep, StepGrows DEF AssembleInv, TypeInv
<1>1. PICK y : /\ fetch' = [fetch EXCEPT ![f] = y]
               /\ Advanced(fetch[f], y) /\ Handed(fetch[f], y, HeadItem(fetch[f]))
    BY <1>0, ProcessTypes
<1>2. fetch'[f] = y /\ \A g \in Fetchers : g # f => fetch'[g] = fetch[g]
    BY <1>0, <1>1
<1>3. WalkInv(y)'
    BY <1>1, ProcessWalks
<1>4. PipeInv(y)
    BY <1>1, ProcessHands
<1>5. y \in Fetch /\ y.start <= Len(log)
    BY <1>0, <1>1 DEF Advanced, TypeInv, FetchInv
<1>6. PipeInv(y)'
    BY <1>0, <1>4, <1>5, PipeStays
<1> QED
    BY <1>2, <1>3, <1>6 DEF WalkInv, PipeInv

(* Every step keeps what the messages are put together from.               *)
LEMMA AssembleStep ==
    ASSUME AssembleInv, [Next]_vars
    PROVE  AssembleInv'
<1>0. fetch \in [Fetchers -> Fetch]
    BY DEF AssembleInv, TypeInv
<1>1. CASE UNCHANGED fetch
    <2>1. PICK f : f \notin Fetchers
        BY NoSetContainsEverything
    <2> QED
        BY <1>1, <2>1, AssembleFrame
<1>2. ASSUME NEW f \in Fetchers, ProcessPage(f) \/ ProcessSingle(f) PROVE AssembleInv'
    BY <1>2, AssembleFrame, ProcessAssembles
<1>3. ASSUME NEW f \in Fetchers,
             BeginFetch(f) \/ (\E m \in Events : BeginSingle(f, m)) \/ Finish(f)
      PROVE  AssembleInv'
    <2>1. \E y : fetch' = [fetch EXCEPT ![f] = y]
        BY <1>3 DEF BeginFetch, BeginSingle, Finish
    <2>2. \A g \in Fetchers : g # f => fetch'[g] = fetch[g]
        BY <1>0, <2>1
    <2>3. WalkInv(fetch[f])' /\ PipeInv(fetch[f])'
        BY <1>3, BeginAssembles
    <2> QED
        BY <2>2, <2>3, AssembleFrame
<1>4. ASSUME NEW f \in Fetchers, LoadChunk(f) \/ LoadFails(f) \/ ChunkDone(f) \/ Deliver(f)
      PROVE  AssembleInv'
    <2>1. \A g \in Fetchers : g # f => fetch'[g] = fetch[g]
        BY <1>0, <1>4 DEF LoadChunk, LoadFails, ChunkDone, Deliver
    <2>2. WalkInv(fetch[f])' /\ PipeInv(fetch[f])'
        BY <1>4, LoadAssembles
    <2> QED
        BY <2>1, <2>2, AssembleFrame
<1>5. \/ UNCHANGED fetch
      \/ \E f \in Fetchers :
           \/ ProcessPage(f) \/ ProcessSingle(f)
           \/ BeginFetch(f) \/ (\E m \in Events : BeginSingle(f, m)) \/ Finish(f)
           \/ LoadChunk(f) \/ LoadFails(f) \/ ChunkDone(f) \/ Deliver(f)
    BY DEF Next, vars, ServerStep, SendEvent, KeyArrives, FetchStep, BeginRetry, RetryEvent,
           ExecEvent, ExecNothing, BeginRemove, RedactOk, RedactFails
<1> QED
    BY <1>1, <1>2, <1>3, <1>4, <1>5

(***************************************************************************)
(* A message that a fetch hands to its request has every edit, reaction    *)
(* and vote up to where in the timeline the fetch began: for pages and     *)
(* channels of any size, any number of fetches, retries and removals at a  *)
(* time, and whatever the sync loop does meanwhile.                        *)
(***************************************************************************)
THEOREM AssembledCorrect == Spec => []Assembled
<1>1. Init => AssembleInv
    <2>1. ASSUME Init, NEW f \in Fetchers PROVE WalkInv(fetch[f]) /\ PipeInv(fetch[f])
        <3>1. fetch[f] = IdleFetch
            BY <2>1 DEF Init
        <3>2. IdleFetch.pc = "idle" /\ Len(IdleFetch.pipe) = 0
            BY DEF IdleFetch
        <3> QED
            BY <3>1, <3>2 DEF WalkInv, PipeInv
    <2> QED
        BY <2>1, TypesInit DEF AssembleInv
<1>2. AssembleInv => Assembled
    <2>1. ASSUME AssembleInv, NEW f \in Fetchers, NEW i \in DOMAIN fetch[f].pipe
          PROVE  i \in 1 .. Len(fetch[f].pipe) /\ PipeInv(fetch[f])
        <3>1. fetch[f].pipe \in Seq([id : Events, message : Message])
            BY <2>1, FetchFields DEF AssembleInv, TypeInv
        <3> QED
            BY <2>1, <3>1 DEF AssembleInv
    <2> QED
        BY <2>1 DEF Assembled, PipeInv
<1> QED
    BY <1>1, <1>2, AssembleStep, PTL DEF Spec
=============================================================================
