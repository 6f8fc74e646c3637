------------------------ MODULE EvidenceReplayProofs ------------------------
(***************************************************************************)
(* What rebuildEffectsFromLifecycleEvidence computes, for every journal.   *)
(* Replay is a recursive function, so its equations are proved first: by   *)
(* induction, a solution exists and is unique.  Induction is stated for    *)
(* sets of naturals and rests on the least element of a set.               *)
(***************************************************************************)
EXTENDS SessionCheckpoint, WellFoundedInduction, TLAPS

(* Induction on the naturals, with a set in place of a predicate.           *)

\* A set of naturals has a least element.
LEMMA LeastElement ==
    ASSUME NEW T, T \subseteq Nat, T # {}
    PROVE  \E x \in T : \A y \in T : x <= y
<1>. DEFINE less == {ss \in Nat \X Nat : ss[1] < ss[2]}
<1>1. \E x \in T : \A y \in T : ~ (<<y, x>> \in OpToRel(<, Nat))
  BY NatLessThanWellFounded, WFMin
<1>2. OpToRel(<, Nat) = less
  BY DEF OpToRel
<1>3. \E x \in T : \A y \in T : ~ (<<y, x>> \in less)
  BY <1>1, <1>2, Zenon
<1>4. PICK x \in T : \A y \in T : ~ (<<y, x>> \in less)
  BY <1>3
<1>5. ASSUME NEW y \in T PROVE x <= y
  <2>1. x \in Nat /\ y \in Nat
    OBVIOUS
  <2>2. ~ (<<y, x>> \in less)
    BY <1>4
  <2>3. ~ (y < x)
    BY <2>1, <2>2
  <2>. QED
    BY <2>1, <2>3
<1>. QED
  BY <1>5

\* A set that has 0 and every successor has every natural.
LEMMA SetInduction ==
    ASSUME NEW T, 0 \in T, \A n \in Nat : n \in T => n + 1 \in T
    PROVE  \A n \in Nat : n \in T
<1>1. SUFFICES ASSUME Nat \ T # {} PROVE FALSE
  OBVIOUS
<1>2. PICK x \in Nat \ T : \A y \in Nat \ T : x <= y
  BY <1>1, LeastElement
<1>3. x # 0 /\ x - 1 \in Nat
  BY <1>2
<1>4. x - 1 \in T
  BY <1>2, <1>3
<1>5. (x - 1) + 1 \in T
  BY <1>3, <1>4
<1>6. (x - 1) + 1 = x
  BY <1>3
<1>. QED
  BY <1>2, <1>5, <1>6

------------------------------------------------------------------------------
(* The fold of Replay.                                                     *)

\* What position i of the records makes of r.
Step(records, e, i, r) ==
    IF i \in DOMAIN records /\ records[i].event.effect = e
    THEN AfterEvent(r, records[i].event.kind) ELSE r

\* The equation that defines the recursive function inside Replay.
IsFold(f, records, e, n) ==
    f = [i \in 0..n |-> IF i = 0 THEN Unseen ELSE Step(records, e, i, f[i - 1])]

\* The equation has a solution, ...
LEMMA FoldExists ==
    ASSUME NEW records, NEW e
    PROVE  \A n \in Nat : \E f : IsFold(f, records, e, n)
<1>. DEFINE T == {n \in Nat : \E f : IsFold(f, records, e, n)}
<1>1. 0 \in T
  <2>. DEFINE f == [i \in 0..0 |-> Unseen]
  <2>1. IsFold(f, records, e, 0)
    BY DEF IsFold
  <2>. QED
    BY <2>1
<1>2. ASSUME NEW n \in Nat, n \in T PROVE n + 1 \in T
  <2>1. PICK f : IsFold(f, records, e, n)
    BY <1>2
  <2>. DEFINE g == [i \in 0..(n + 1) |->
                       IF i = n + 1 THEN Step(records, e, n + 1, f[n]) ELSE f[i]]
  <2>2. ASSUME NEW i \in 0..(n + 1)
        PROVE  g[i] = IF i = 0 THEN Unseen ELSE Step(records, e, i, g[i - 1])
    <3>1. CASE i = 0
      <4>1. f[0] = Unseen
        BY <2>1 DEF IsFold
      <4>. QED
        BY <3>1, <4>1
    <3>2. CASE i = n + 1
      <4>1. g[n] = f[n]
        OBVIOUS
      <4>2. g[i] = Step(records, e, n + 1, f[n])
        BY <3>2
      <4>3. i - 1 = n /\ i # 0
        BY <3>2
      <4>. HIDE DEF g
      <4>. QED
        BY <3>2, <4>1, <4>2, <4>3
    <3>3. CASE i # 0 /\ i # n + 1
      <4>1. i \in 0..n /\ i - 1 \in 0..n
        BY <3>3
      <4>2. f[i] = Step(records, e, i, f[i - 1])
        BY <2>1, <3>3, <4>1 DEF IsFold
      <4>3. g[i] = f[i] /\ g[i - 1] = f[i - 1]
        BY <3>3, <4>1
      <4>. HIDE DEF g
      <4>. QED
        BY <3>3, <4>2, <4>3
    <3>. QED
      BY <3>1, <3>2, <3>3
  <2>3. g = [i \in 0..(n + 1) |-> g[i]]
    OBVIOUS
  <2>. HIDE DEF g
  <2>4. IsFold(g, records, e, n + 1)
    BY <2>2, <2>3 DEF IsFold
  <2>. QED
    BY <2>4
<1>. HIDE DEF T
<1>3. \A n \in Nat : n \in T
  BY <1>1, <1>2, SetInduction
<1>. QED
  BY <1>3 DEF T

\* ... and solutions agree, also those for different lengths.
LEMMA FoldUnique ==
    ASSUME NEW records, NEW e, NEW n \in Nat, NEW m \in Nat, NEW f, NEW g,
           IsFold(f, records, e, n), IsFold(g, records, e, m), n <= m
    PROVE  f[n] = g[n]
<1>. DEFINE T == {i \in Nat : i <= n => f[i] = g[i]}
<1>0. ASSUME NEW i \in Nat, i <= n
      PROVE  /\ f[i] = IF i = 0 THEN Unseen ELSE Step(records, e, i, f[i - 1])
             /\ g[i] = IF i = 0 THEN Unseen ELSE Step(records, e, i, g[i - 1])
  BY <1>0 DEF IsFold
<1>1. 0 \in T
  BY <1>0
<1>2. ASSUME NEW i \in Nat, i \in T PROVE i + 1 \in T
  <2>1. SUFFICES ASSUME i + 1 <= n PROVE f[i + 1] = g[i + 1]
    OBVIOUS
  <2>2. f[i] = g[i]
    BY <1>2, <2>1
  <2>3. (i + 1) - 1 = i /\ i + 1 # 0 /\ i + 1 \in Nat
    OBVIOUS
  <2>4. /\ f[i + 1] = Step(records, e, i + 1, f[i])
        /\ g[i + 1] = Step(records, e, i + 1, g[i])
    BY <1>0, <2>1, <2>3
  <2>. QED
    BY <2>2, <2>4
<1>. HIDE DEF T
<1>3. \A i \in Nat : i \in T
  BY <1>1, <1>2, SetInduction
<1>. QED
  BY <1>3 DEF T

\* So Replay is the last value of a solution, ...
LEMMA ReplayIsFold ==
    ASSUME NEW records, NEW e, NEW n \in Nat
    PROVE  \E f : IsFold(f, records, e, n) /\ Replay(records, e, n) = f[n]
<1>. DEFINE c == CHOOSE f : IsFold(f, records, e, n)
<1>1. IsFold(c, records, e, n)
  BY FoldExists, Zenon
<1>2. Replay(records, e, n) = c[n]
  BY DEF Replay, IsFold, Step
<1>. QED
  BY <1>1, <1>2

\* ... and obeys the equations of a fold.
LEMMA ReplayStep ==
    ASSUME NEW records, NEW e
    PROVE  /\ Replay(records, e, 0) = Unseen
           /\ \A n \in Nat :
                Replay(records, e, n + 1) = Step(records, e, n + 1, Replay(records, e, n))
<1>1. Replay(records, e, 0) = Unseen
  <2>1. PICK f : IsFold(f, records, e, 0) /\ Replay(records, e, 0) = f[0]
    BY ReplayIsFold
  <2>. QED
    BY <2>1 DEF IsFold
<1>2. ASSUME NEW n \in Nat
      PROVE  Replay(records, e, n + 1) = Step(records, e, n + 1, Replay(records, e, n))
  <2>1. PICK f : IsFold(f, records, e, n) /\ Replay(records, e, n) = f[n]
    BY ReplayIsFold
  <2>2. PICK g : IsFold(g, records, e, n + 1) /\ Replay(records, e, n + 1) = g[n + 1]
    BY ReplayIsFold
  <2>3. f[n] = g[n]
    BY <2>1, <2>2, FoldUnique
  <2>4. g[n + 1] = Step(records, e, n + 1, g[n])
    BY <2>2 DEF IsFold
  <2>. QED
    BY <2>1, <2>2, <2>3, <2>4
<1>. QED
  BY <1>1, <1>2

\* Records that say the same of e at every position give the same replay.
LEMMA ReplayAgrees ==
    ASSUME NEW r, NEW s, NEW e, NEW n \in Nat,
           \A i \in 1..n : \A x : Step(r, e, i, x) = Step(s, e, i, x)
    PROVE  Replay(r, e, n) = Replay(s, e, n)
<1>. DEFINE T == {k \in Nat : k <= n => Replay(r, e, k) = Replay(s, e, k)}
<1>1. 0 \in T
  BY ReplayStep
<1>2. ASSUME NEW k \in Nat, k \in T PROVE k + 1 \in T
  <2>1. SUFFICES ASSUME k + 1 <= n PROVE Replay(r, e, k + 1) = Replay(s, e, k + 1)
    OBVIOUS
  <2>2. Replay(r, e, k) = Replay(s, e, k)
    BY <1>2, <2>1
  <2>3. /\ Replay(r, e, k + 1) = Step(r, e, k + 1, Replay(r, e, k))
        /\ Replay(s, e, k + 1) = Step(s, e, k + 1, Replay(s, e, k))
    BY ReplayStep
  <2>4. k + 1 \in 1..n
    BY <2>1
  <2>. QED
    BY <2>2, <2>3, <2>4
<1>. HIDE DEF T
<1>3. \A k \in Nat : k \in T
  BY <1>1, <1>2, SetInduction
<1>. QED
  BY <1>3 DEF T

------------------------------------------------------------------------------
(* What the replay says of an effect.                                      *)

Kinds == {"request", "result", "failed"}
EffectRecord == [status : {"none", "requested", "completed", "failed", "orphaned"},
                 requestSeen : BOOLEAN, resultSeen : BOOLEAN]

\* The positions up to n that are about e.
OwnUpTo(records, e, n) == {i \in 1..n : records[i].event.effect = e}

\* Some request of e has no result anywhere, and no failure after it.
Unanswered(records, e, n) ==
    \E i \in OwnUpTo(records, e, n) :
        /\ records[i].event.kind = "request"
        /\ \A j \in OwnUpTo(records, e, n) : /\ records[j].event.kind # "result"
                                             /\ records[j].event.kind = "failed" => j < i

\* The replay leaves e pending exactly when it is unanswered.
LEMMA ReplayPending ==
    ASSUME NEW e, NEW len \in Nat, NEW records, DOMAIN records = 1..len,
           \A i \in 1..len : records[i].event.kind \in Kinds
    PROVE  Replay(records, e, len).status = "requested" <=> Unanswered(records, e, len)
<1>. DEFINE r(n) == Replay(records, e, n)
            T == {n \in Nat : n <= len =>
                    /\ r(n) \in EffectRecord
                    /\ r(n).resultSeen <=> \E i \in OwnUpTo(records, e, n) : records[i].event.kind = "result"
                    /\ r(n).status = "requested" <=> Unanswered(records, e, n)}
<1>1. 0 \in T
  <2>1. r(0) = Unseen
    BY ReplayStep
  <2>2. OwnUpTo(records, e, 0) = {}
    BY DEF OwnUpTo
  <2>3. Unseen \in EffectRecord /\ Unseen.resultSeen = FALSE /\ Unseen.status # "requested"
    BY DEF Unseen, EffectRecord
  <2>4. ~ Unanswered(records, e, 0)
    BY <2>2 DEF Unanswered
  <2>. HIDE DEF r
  <2>. QED
    BY <2>1, <2>2, <2>3, <2>4
<1>2. ASSUME NEW n \in Nat, n \in T PROVE n + 1 \in T
  <2>1. SUFFICES ASSUME n + 1 <= len
        PROVE  /\ r(n + 1) \in EffectRecord
               /\ r(n + 1).resultSeen <=> \E i \in OwnUpTo(records, e, n + 1) : records[i].event.kind = "result"
               /\ r(n + 1).status = "requested" <=> Unanswered(records, e, n + 1)
    OBVIOUS
  <2>2. /\ r(n) \in EffectRecord
        /\ r(n).resultSeen <=> \E i \in OwnUpTo(records, e, n) : records[i].event.kind = "result"
        /\ r(n).status = "requested" <=> Unanswered(records, e, n)
    BY <1>2, <2>1
  <2>3. r(n + 1) = Step(records, e, n + 1, r(n))
    BY ReplayStep
  <2>4. n + 1 \in DOMAIN records /\ records[n + 1].event.kind \in Kinds
    BY <2>1
  <2>. DEFINE new == records[n + 1].event
  <2>. HIDE DEF r
  <2>5. CASE new.effect # e
    <3>1. r(n + 1) = r(n)
      BY <2>3, <2>5 DEF Step
    <3>2. OwnUpTo(records, e, n + 1) = OwnUpTo(records, e, n)
      BY <2>5 DEF OwnUpTo
    <3>. QED
      BY <2>2, <3>1, <3>2 DEF Unanswered
  <2>6. CASE new.effect = e
    <3>1. r(n + 1) = AfterEvent(r(n), new.kind)
      BY <2>3, <2>4, <2>6 DEF Step
    <3>2. OwnUpTo(records, e, n + 1) = OwnUpTo(records, e, n) \cup {n + 1}
      BY <2>6 DEF OwnUpTo
    <3>3. \A i \in OwnUpTo(records, e, n) : i \in 1..n
      BY DEF OwnUpTo
    <3>4. CASE new.kind = "request"
      <4>1. r(n + 1) = [r(n) EXCEPT !.requestSeen = TRUE,
                                    !.status = IF r(n).resultSeen THEN @ ELSE "requested"]
        BY <3>1, <3>4 DEF AfterEvent
      <4>2. /\ r(n + 1) \in EffectRecord
            /\ r(n + 1).resultSeen = r(n).resultSeen
            /\ r(n + 1).status = IF r(n).resultSeen THEN r(n).status ELSE "requested"
        BY <2>2, <4>1 DEF EffectRecord
      <4>3. r(n + 1).resultSeen <=> \E i \in OwnUpTo(records, e, n + 1) : records[i].event.kind = "result"
        BY <2>2, <3>2, <3>4, <4>2
      <4>4. CASE r(n).resultSeen
        <5>1. ~ Unanswered(records, e, n) /\ ~ Unanswered(records, e, n + 1)
          BY <2>2, <3>2, <4>4 DEF Unanswered
        <5>. QED
          BY <2>2, <4>2, <4>3, <4>4, <5>1
      <4>5. CASE ~ r(n).resultSeen
        <5>1. Unanswered(records, e, n + 1)
          BY <2>2, <3>2, <3>3, <3>4, <4>5 DEF Unanswered
        <5>. QED
          BY <4>2, <4>3, <4>5, <5>1
      <4>. QED
        BY <4>4, <4>5
    <3>5. CASE new.kind = "result"
      <4>1. r(n + 1) = [r(n) EXCEPT !.resultSeen = TRUE,
                                    !.status = IF r(n).requestSeen THEN "completed" ELSE "orphaned"]
        BY <3>1, <3>5 DEF AfterEvent
      <4>2. /\ r(n + 1) \in EffectRecord
            /\ r(n + 1).resultSeen
            /\ r(n + 1).status # "requested"
        BY <2>2, <4>1 DEF EffectRecord
      <4>3. ~ Unanswered(records, e, n + 1)
        BY <3>2, <3>5 DEF Unanswered
      <4>. QED
        BY <3>2, <3>5, <4>2, <4>3
    <3>6. CASE new.kind = "failed"
      <4>1. r(n + 1) = [r(n) EXCEPT !.status = IF r(n).requestSeen THEN "failed" ELSE "orphaned"]
        BY <3>1, <3>6 DEF AfterEvent
      <4>2. /\ r(n + 1) \in EffectRecord
            /\ r(n + 1).resultSeen = r(n).resultSeen
            /\ r(n + 1).status # "requested"
        BY <2>2, <4>1 DEF EffectRecord
      <4>3. ~ Unanswered(records, e, n + 1)
        BY <3>2, <3>3, <3>6 DEF Unanswered
      <4>. QED
        BY <2>2, <3>2, <3>6, <4>2, <4>3
    <3>. QED
      BY <2>4, <3>4, <3>5, <3>6 DEF Kinds
  <2>. QED
    BY <2>5, <2>6
<1>. HIDE DEF T
<1>3. \A n \in Nat : n \in T
  BY <1>1, <1>2, SetInduction
<1>. QED
  BY <1>3 DEF T

\* Where every end of e comes after a request of it, e is no orphan.
LEMMA ReplayNotOrphaned ==
    ASSUME NEW e, NEW len \in Nat, NEW records, DOMAIN records \subseteq 1..len,
           \A i \in DOMAIN records : records[i].event.kind \in Kinds,
           \A i \in DOMAIN records :
               (records[i].event.effect = e /\ records[i].event.kind # "request") =>
                   \E j \in DOMAIN records :
                       j < i /\ records[j].event.effect = e /\ records[j].event.kind = "request"
    PROVE  Replay(records, e, len).status # "orphaned"
<1>. DEFINE r(n) == Replay(records, e, n)
            Seen(n) == \E j \in DOMAIN records :
                           /\ j <= n
                           /\ records[j].event.effect = e
                           /\ records[j].event.kind = "request"
            T == {n \in Nat : /\ r(n) \in EffectRecord
                              /\ Seen(n) => r(n).requestSeen = TRUE
                              /\ r(n).status # "orphaned"}
<1>1. 0 \in T
  <2>1. r(0) = Unseen
    BY ReplayStep
  <2>2. Unseen \in EffectRecord /\ Unseen.status # "orphaned"
    BY DEF Unseen, EffectRecord
  <2>3. ~ Seen(0)
    OBVIOUS
  <2>. HIDE DEF r, Seen
  <2>. QED
    BY <2>1, <2>2, <2>3
<1>2. ASSUME NEW n \in Nat, n \in T PROVE n + 1 \in T
  <2>1. r(n) \in EffectRecord /\ (Seen(n) => r(n).requestSeen = TRUE) /\ r(n).status # "orphaned"
    BY <1>2
  <2>2. r(n + 1) = Step(records, e, n + 1, r(n))
    BY ReplayStep
  <2>. HIDE DEF r
  <2>. DEFINE new == records[n + 1].event
  <2>3. CASE ~ (n + 1 \in DOMAIN records /\ new.effect = e)
    <3>1. r(n + 1) = r(n)
      BY <2>2, <2>3 DEF Step
    <3>2. Seen(n + 1) => Seen(n)
      BY <2>3
    <3>. HIDE DEF Seen
    <3>. QED
      BY <2>1, <3>1, <3>2
  <2>4. CASE n + 1 \in DOMAIN records /\ new.effect = e
    <3>1. r(n + 1) = AfterEvent(r(n), new.kind)
      BY <2>2, <2>4 DEF Step
    <3>2. CASE new.kind = "request"
      <4>1. r(n + 1) = [r(n) EXCEPT !.requestSeen = TRUE,
                                    !.status = IF r(n).resultSeen THEN @ ELSE "requested"]
        BY <3>1, <3>2 DEF AfterEvent
      <4>2. r(n + 1) \in EffectRecord /\ r(n + 1).requestSeen = TRUE /\ r(n + 1).status # "orphaned"
        BY <2>1, <4>1 DEF EffectRecord
      <4>. HIDE DEF Seen
      <4>. QED
        BY <4>2
    <3>3. ASSUME new.kind # "request" PROVE r(n).requestSeen = TRUE
      <4>1. Seen(n)
        BY <2>4, <3>3
      <4>. HIDE DEF Seen
      <4>. QED
        BY <2>1, <4>1
    <3>4. CASE new.kind = "result"
      <4>1. r(n + 1) = [r(n) EXCEPT !.resultSeen = TRUE, !.status = "completed"]
        BY <3>1, <3>3, <3>4 DEF AfterEvent
      <4>2. r(n + 1) \in EffectRecord /\ r(n + 1).requestSeen = TRUE /\ r(n + 1).status # "orphaned"
        BY <2>1, <3>3, <3>4, <4>1 DEF EffectRecord
      <4>. HIDE DEF Seen
      <4>. QED
        BY <4>2
    <3>5. CASE new.kind = "failed"
      <4>1. r(n + 1) = [r(n) EXCEPT !.status = "failed"]
        BY <3>1, <3>3, <3>5 DEF AfterEvent
      <4>2. r(n + 1) \in EffectRecord /\ r(n + 1).requestSeen = TRUE /\ r(n + 1).status # "orphaned"
        BY <2>1, <3>3, <3>5, <4>1 DEF EffectRecord
      <4>. HIDE DEF Seen
      <4>. QED
        BY <4>2
    <3>6. new.kind \in Kinds
      BY <2>4
    <3>. HIDE DEF T
    <3>. QED
      BY <3>2, <3>4, <3>5, <3>6 DEF Kinds
  <2>. QED
    BY <2>3, <2>4
<1>. HIDE DEF T
<1>3. \A n \in Nat : n \in T
  BY <1>1, <1>2, SetInduction
<1>. QED
  BY <1>3 DEF T
==============================================================================
