------------------------- MODULE EventPipelineProofs -------------------------
(***************************************************************************)
(* What TLAPS proves of EventPipeline, for any events, tenants and users,  *)
(* sizes of the three queues, failures and crashes: the two accounts of    *)
(* where events are never lose one or count one twice, and no group mixes  *)
(* tenants or users.                                                       *)
(*                                                                         *)
(* A batch that is emitted is added to the next queue group by group, which*)
(* may flush on the way.  What that does is shown by induction over the    *)
(* groups (PushedAllKeepsAll), and the induction is done by looking at the *)
(* least number for which a statement fails (SetInduction).  The rest is   *)
(* about parts of the way being disjoint: a step moves a set of events from*)
(* one part to another (the lemmas on OnWay).                              *)
(*                                                                         *)
(* And of UsageReport, at the end of that way, for any counts and calls: a *)
(* report is what the committed calls passed.  The sum over the calls is   *)
(* dealt with by the same induction (SumMoves), the rest is that nobody    *)
(* changes a row between a call's two statements (StillReads).             *)
(***************************************************************************)
EXTENDS EventPipeline, UsageReport, FiniteSetTheorems, SequenceTheorems, WellFoundedInduction, TLAPS

(* Induction over the naturals for a set of them: were one missing, so     *)
(* would be the one before the least that is missing.                      *)
LEMMA SetInduction ==
  ASSUME NEW P \in SUBSET Nat, 0 \in P, \A n \in P : n + 1 \in P
  PROVE  P = Nat
<1>1. SUFFICES ASSUME Nat \ P # {} PROVE FALSE
  OBVIOUS
<1>2. PICK m \in Nat \ P : \A k \in Nat \ P : ~ (<<k, m>> \in OpToRel(<, Nat))
  BY <1>1, NatLessThanWellFounded, WFMin
<1>3. \A k \in Nat \ P : ~ (k < m)
  BY <1>2 DEF OpToRel
<1>4. m \in Nat /\ m \notin P /\ m # 0
  OBVIOUS
<1>5. m - 1 \in Nat /\ m - 1 < m /\ (m - 1) + 1 = m
  BY <1>4
<1>6. m - 1 \in P
  BY <1>3, <1>5
<1>7. QED
  BY <1>4, <1>5, <1>6

-----------------------------------------------------------------------------
(* The queues, whatever they hold. *)
QueueOf(S) == [items : Seq(S), intervalId : {"null", "Timeout"}, timeouts : Nat]

LEMMA QueueFields ==
  ASSUME NEW S, NEW q \in QueueOf(S)
  PROVE  /\ q = [items |-> q.items, intervalId |-> q.intervalId, timeouts |-> q.timeouts]
         /\ q.items \in Seq(S) /\ q.intervalId \in {"null", "Timeout"} /\ q.timeouts \in Nat
  BY DEF QueueOf

LEMMA NewQueueType == ASSUME NEW S PROVE NewQueue \in QueueOf(S) /\ NewQueue.items = <<>>
  BY DEF NewQueue, QueueOf

LEMMA StartKeepsItems ==
  ASSUME NEW S, NEW q \in QueueOf(S)
  PROVE  StartTimeout(q) \in QueueOf(S) /\ StartTimeout(q).items = q.items
  BY QueueFields DEF StartTimeout, QueueOf

LEMMA FlushEmpties ==
  ASSUME NEW S, NEW q \in QueueOf(S)
  PROVE  OnFlush(q) \in QueueOf(S) /\ OnFlush(q).items = <<>>
<1>1. StopTimeout(q) \in QueueOf(S)
  BY QueueFields DEF StopTimeout, QueueOf
<1>2. <<>> \in Seq(S)
  OBVIOUS
<1>3. \A p \in QueueOf(S) : FlushItems(p) \in QueueOf(S) /\ FlushItems(p).items = <<>>
  BY <1>2 DEF FlushItems, QueueOf
<1>4. QED
  BY <1>1, <1>3 DEF OnFlush

LEMMA AppendedType ==
  ASSUME NEW S, NEW q \in QueueOf(S), NEW x \in S
  PROVE  Appended(q, x) \in QueueOf(S) /\ Appended(q, x).items = Append(q.items, x)
  BY AppendProperties DEF Appended, QueueOf

(* What add emits and what it keeps is what was there, and the new item.   *)
LEMMA PushedKeepsAll ==
  ASSUME NEW S, NEW q \in QueueOf(S), NEW x \in S
  PROVE  /\ Pushed(q, x) \in QueueOf(S) /\ PushedBatch(q, x) \in Seq(S)
         /\ PushedBatch(q, x) \o Pushed(q, x).items = Append(q.items, x)
<1>1. /\ Append(q.items, x) \in Seq(S)
      /\ Append(q.items, x) \o <<>> = Append(q.items, x)
      /\ <<>> \o Append(q.items, x) = Append(q.items, x)
  BY QueueFields, AppendProperties
<1>2. CASE MaxQueueSizeReached(Appended(q, x))
  <2>1. Pushed(q, x) = OnFlush(Appended(q, x)) /\ PushedBatch(q, x) = Append(q.items, x)
    BY <1>2, AppendedType DEF Pushed, PushedBatch
  <2>2. OnFlush(Appended(q, x)) \in QueueOf(S) /\ OnFlush(Appended(q, x)).items = <<>>
    BY AppendedType, FlushEmpties
  <2>3. QED
    BY <1>1, <2>1, <2>2
<1>3. CASE ~MaxQueueSizeReached(Appended(q, x))
  <2>1. Pushed(q, x) = StartTimeout(Appended(q, x)) /\ PushedBatch(q, x) = <<>>
    BY <1>3 DEF Pushed, PushedBatch
  <2>2. /\ StartTimeout(Appended(q, x)) \in QueueOf(S)
        /\ StartTimeout(Appended(q, x)).items = Append(q.items, x)
    BY AppendedType, StartKeepsItems
  <2>3. <<>> \in Seq(S)
    OBVIOUS
  <2>4. QED
    BY <1>1, <2>1, <2>2, <2>3
<1>4. QED
  BY <1>2, <1>3

(* The timer's callback leaves nothing in the queue.                       *)
LEMMA RecurringEmpties ==
  ASSUME NEW S, NEW q \in QueueOf(S), q.timeouts > 0
  PROVE  RecurringQueue(q) \in QueueOf(S) /\ RecurringQueue(q).items = <<>>
<1> DEFINE fired == [q EXCEPT !.timeouts = @ - 1]
<1>1. fired \in QueueOf(S) /\ fired.items = q.items
  BY QueueFields DEF QueueOf
<1>2. CASE Len(fired.items) > 0
  BY <1>1, <1>2, FlushEmpties DEF RecurringQueue
<1>3. CASE ~(Len(fired.items) > 0)
  <2>1. fired.items = <<>>
    BY <1>1, <1>3, QueueFields, EmptySeq, LenProperties
  <2>2. QED
    BY <1>1, <1>3, <2>1 DEF RecurringQueue
<1>4. QED
  BY <1>2, <1>3

-----------------------------------------------------------------------------
(* A finite set has an order that holds each element once.                 *)
LEMMA OrderOfASet ==
  ASSUME NEW T, IsFiniteSet(T)
  PROVE  /\ SetToSeq(T) \in Seq(T) /\ IsInjective(SetToSeq(T)) /\ ToSet(SetToSeq(T)) = T
         /\ Len(SetToSeq(T)) \in Nat
<1>1. PICK f : f \in Bijection(1 .. Cardinality(T), T)
  BY FS_CardinalityType DEF ExistsBijection
<1>2. f \in [1 .. Cardinality(T) -> T] /\ IsInjective(f)
  BY <1>1 DEF Bijection, Injection, IsInjective
<1> DEFINE g == SetToSeq(T)
<1>3. g \in [1 .. Cardinality(T) -> T] /\ IsInjective(g)
  BY <1>2 DEF SetToSeq
<1>4. g \in Injection(1 .. Cardinality(T), T)
  BY <1>3 DEF Injection, IsInjective
<1>5. Cardinality(T) \in Nat /\ IsFiniteSet(1 .. Cardinality(T)) 
      /\ Cardinality(1 .. Cardinality(T)) = Cardinality(T)
  BY FS_CardinalityType, FS_Interval
<1>6. g \in Seq(T)
  BY <1>3, <1>5, SeqDef
<1>7. g \in Surjection(1 .. Cardinality(T), T)
  BY <1>4, <1>5, FS_Injection
<1>8. ToSet(g) = T
  BY <1>3, <1>7 DEF Surjection, ToSet
<1>9. QED
  BY <1>3, <1>6, <1>8, LenProperties

(* The recursive definition of PushedAll's run has a value, for every      *)
(* number of groups.                                                       *)
RunFrom(q, order, r, n) ==
  r = [k \in 0 .. n |-> IF k = 0 THEN [after |-> q, out |-> <<>>]
                                 ELSE PushedNext(r[k - 1], order[k])]

LEMMA RunExists ==
  ASSUME NEW q, NEW order, NEW n \in Nat
  PROVE  \E r : RunFrom(q, order, r, n)
<1> DEFINE P == { m \in Nat : \E r : RunFrom(q, order, r, m) }
<1>1. 0 \in P
  <2> DEFINE r == [k \in 0 .. 0 |-> [after |-> q, out |-> <<>>]]
  <2>1. RunFrom(q, order, r, 0)
    BY DEF RunFrom
  <2>2. QED
    BY <2>1
<1>2. ASSUME NEW m \in P PROVE m + 1 \in P
  <2>1. PICK r : RunFrom(q, order, r, m)
    OBVIOUS
  <2> DEFINE s == [k \in 0 .. m + 1 |-> IF k = m + 1 THEN PushedNext(r[m], order[m + 1])
                                                      ELSE r[k]]
  <2>2. m \in Nat /\ (m + 1) - 1 = m /\ m + 1 # 0
    OBVIOUS
  <2>3. \A k \in 0 .. m :
          r[k] = IF k = 0 THEN [after |-> q, out |-> <<>>] ELSE PushedNext(r[k - 1], order[k])
    BY <2>1 DEF RunFrom
  <2>4. ASSUME NEW k \in 0 .. m + 1
        PROVE  s[k] = IF k = 0 THEN [after |-> q, out |-> <<>>]
                               ELSE PushedNext(s[k - 1], order[k])
    <3>1. CASE k = m + 1
      BY <2>2, <3>1
    <3>2. CASE k # m + 1
      <4>1. k \in 0 .. m /\ s[k] = r[k]
        BY <2>2, <3>2
      <4>2. k # 0 => s[k - 1] = r[k - 1]
        BY <2>2, <4>1
      <4>3. QED
        BY <2>3, <4>1, <4>2
    <3>3. QED
      BY <3>1, <3>2
  <2>5. RunFrom(q, order, s, m + 1)
    BY <2>4 DEF RunFrom
  <2>6. QED
    BY <2>2, <2>5
<1>3. P = Nat
  <2> HIDE DEF P
  <2>1. P \in SUBSET Nat
    BY DEF P
  <2>2. QED
    BY <1>1, <1>2, <2>1, SetInduction
<1>4. QED
  BY <1>3

(* Sequences and their concatenation, kept from being taken apart where    *)
(* only these laws are needed.                                             *)
SeqsOver(S) == Seq(S)
Cat(s, t) == s \o t

LEMMA CatLaws ==
  ASSUME NEW S, NEW s \in SeqsOver(S), NEW t \in SeqsOver(S), NEW u \in SeqsOver(S)
  PROVE  Cat(s, t) \in SeqsOver(S) /\ Cat(Cat(s, t), u) = Cat(s, Cat(t, u))
  BY ConcatProperties DEF Cat, SeqsOver

LEMMA CatAppend ==
  ASSUME NEW S, NEW s \in SeqsOver(S), NEW t \in SeqsOver(S), NEW x \in S
  PROVE  Append(Cat(s, t), x) = Cat(s, Append(t, x))
  BY DEF Cat, SeqsOver

LEMMA NextPart ==
  ASSUME NEW S, NEW s \in Seq(S), NEW n \in 0 .. Len(s) - 1
  PROVE  /\ SubSeq(s, 1, n) \in Seq(S) /\ s[n + 1] \in S
         /\ SubSeq(s, 1, n + 1) = Append(SubSeq(s, 1, n), s[n + 1])
  OBVIOUS

LEMMA WholeSeq ==
  ASSUME NEW S, NEW s \in Seq(S)
  PROVE  SubSeq(s, 1, 0) = <<>> /\ SubSeq(s, 1, Len(s)) = s /\ s \o <<>> = s /\ <<>> \o s = s
  OBVIOUS

(* One add more: what came out and what is left grow by the group added.   *)
AccOf(S) == [after : QueueOf(S), out : Seq(S)]
Passed(acc) == Cat(acc.out, acc.after.items)

LEMMA PushedNextKeepsAll ==
  ASSUME NEW S, NEW acc \in AccOf(S), NEW g \in S
  PROVE  PushedNext(acc, g) \in AccOf(S) /\ Passed(PushedNext(acc, g)) = Append(Passed(acc), g)
<1>1. PICK q \in QueueOf(S), out \in SeqsOver(S) : q = acc.after /\ out = acc.out
  BY DEF AccOf, SeqsOver
<1>2. PICK items \in SeqsOver(S) : items = q.items
  BY QueueFields DEF SeqsOver
<1>3. PICK p \in QueueOf(S), batch \in SeqsOver(S) :
        /\ p = Pushed(q, g) /\ batch = PushedBatch(q, g)
        /\ Cat(batch, p.items) = Append(items, g)
  BY <1>2, PushedKeepsAll DEF SeqsOver, Cat
<1>4. PICK rest \in SeqsOver(S) : rest = p.items
  BY QueueFields DEF SeqsOver
<1>5. PushedNext(acc, g) = [after |-> p, out |-> Cat(out, batch)]
  BY <1>1, <1>3 DEF PushedNext, Cat
<1>6. Cat(out, batch) \in SeqsOver(S)
  BY CatLaws
<1>7. PushedNext(acc, g) \in AccOf(S)
  BY <1>5, <1>6 DEF AccOf, SeqsOver
<1>8. Cat(Cat(out, batch), rest) = Cat(out, Cat(batch, rest))
  BY CatLaws
<1>9. Cat(out, Append(items, g)) = Append(Cat(out, items), g)
  BY CatAppend
<1>10. PushedNext(acc, g).out = Cat(out, batch) /\ PushedNext(acc, g).after = p
  BY <1>5
<1>11. Passed(PushedNext(acc, g)) = Cat(Cat(out, batch), rest)
  BY <1>4, <1>10 DEF Passed
<1>12. Passed(acc) = Cat(out, items)
  BY <1>1, <1>2 DEF Passed
<1>13. Cat(batch, rest) = Append(items, g)
  BY <1>3, <1>4
<1>14. QED
  BY <1>7, <1>8, <1>9, <1>11, <1>12, <1>13, Zenon

(* Adding the groups one after the other neither loses nor repeats one: in *)
(* what comes out and what is left they follow what was there.             *)
LEMMA PushedAllKeepsAll ==
  ASSUME NEW S, NEW q \in QueueOf(S), NEW groups \in SUBSET S, IsFiniteSet(groups)
  PROVE  /\ PushedAll(q, groups) \in AccOf(S)
         /\ Passed(PushedAll(q, groups)) = Cat(q.items, SetToSeq(groups))
<1> DEFINE order == SetToSeq(groups)
<1> DEFINE run == CHOOSE r : RunFrom(q, order, r, Len(order))
<1>1. order \in Seq(groups) /\ Len(order) \in Nat
  BY OrderOfASet
<1>2. order \in Seq(S)
  BY <1>1
<1>3. RunFrom(q, order, run, Len(order))
  BY <1>1, RunExists
<1>4. PushedAll(q, groups) = run[Len(order)]
  BY DEF PushedAll, RunFrom
<1> HIDE DEF order, run
<1>5. /\ run[0] = [after |-> q, out |-> <<>>]
      /\ \A n \in 0 .. Len(order) - 1 : run[n + 1] = PushedNext(run[n], order[n + 1])
  <2>1. \A k \in 0 .. Len(order) :
          run[k] = IF k = 0 THEN [after |-> q, out |-> <<>>]
                            ELSE PushedNext(run[k - 1], order[k])
    BY <1>1, <1>3 DEF RunFrom
  <2>2. 0 \in 0 .. Len(order)
    BY <1>1
  <2>3. ASSUME NEW n \in 0 .. Len(order) - 1
        PROVE  n + 1 \in 0 .. Len(order) /\ n + 1 # 0 /\ (n + 1) - 1 = n
    BY <1>1
  <2>4. QED
    BY <2>1, <2>2, <2>3
<1> DEFINE Good(n) == /\ run[n] \in AccOf(S)
                      /\ Passed(run[n]) = Cat(q.items, SubSeq(order, 1, n))
<1> DEFINE P == { n \in Nat : n <= Len(order) => Good(n) }
<1> HIDE DEF Good
<1>6. 0 \in P
  <2>1. q.items \in Seq(S) /\ <<>> \in Seq(S)
    BY QueueFields
  <2>2. run[0] \in AccOf(S)
    BY <1>5, <2>1 DEF AccOf
  <2>3. Passed(run[0]) = Cat(q.items, SubSeq(order, 1, 0))
    BY <1>2, <1>5, <2>1, WholeSeq DEF Passed, Cat
  <2>4. Good(0)
    BY <2>2, <2>3 DEF Good
  <2>5. QED
    BY <2>4
<1>7. ASSUME NEW n \in P PROVE n + 1 \in P
  <2>1. SUFFICES ASSUME n + 1 <= Len(order) PROVE Good(n + 1)
    OBVIOUS
  <2>2. n \in 0 .. Len(order) - 1 /\ Good(n)
    BY <1>1, <2>1
  <2>3. order[n + 1] \in S /\ SubSeq(order, 1, n) \in Seq(S)
        /\ SubSeq(order, 1, n + 1) = Append(SubSeq(order, 1, n), order[n + 1])
    BY <1>2, <2>2, NextPart
  <2>4. run[n + 1] = PushedNext(run[n], order[n + 1])
    BY <1>5, <2>2
  <2>5. /\ run[n + 1] \in AccOf(S)
        /\ Passed(run[n + 1]) = Append(Cat(q.items, SubSeq(order, 1, n)), order[n + 1])
    BY <2>2, <2>3, <2>4, PushedNextKeepsAll DEF Good
  <2>6. PICK s \in SeqsOver(S), t \in SeqsOver(S), g \in S :
          s = q.items /\ t = SubSeq(order, 1, n) /\ g = order[n + 1]
    BY <2>3, QueueFields DEF SeqsOver
  <2>7. Append(Cat(s, t), g) = Cat(s, Append(t, g))
    BY CatAppend
  <2>8. QED
    BY <2>3, <2>5, <2>6, <2>7 DEF Good
<1>8. P = Nat
  <2> HIDE DEF P
  <2>1. P \in SUBSET Nat
    BY DEF P
  <2>2. QED
    BY <1>6, <1>7, <2>1, SetInduction
<1>9. Good(Len(order))
  BY <1>1, <1>8
<1>10. QED
  BY <1>2, <1>4, <1>9, WholeSeq DEF order, Good

-----------------------------------------------------------------------------
(* Elements and disjointness along a concatenation.                        *)
LEMMA ElementsOf ==
  ASSUME NEW S, NEW s \in Seq(S), NEW t \in Seq(S)
  PROVE  ToSet(Cat(s, t)) = ToSet(s) \cup ToSet(t) /\ ToSet(s) \subseteq S
<1>1. \A i \in 1 .. Len(s) : i \in DOMAIN Cat(s, t) /\ Cat(s, t)[i] = s[i]
  BY DEF Cat
<1>2. \A i \in 1 .. Len(t) : i + Len(s) \in DOMAIN Cat(s, t) /\ Cat(s, t)[i + Len(s)] = t[i]
  BY DEF Cat
<1>3. \A i \in DOMAIN Cat(s, t) :
        \/ i \in 1 .. Len(s) /\ Cat(s, t)[i] = s[i]
        \/ i - Len(s) \in 1 .. Len(t) /\ Cat(s, t)[i] = t[i - Len(s)]
  BY DEF Cat
<1>4. DOMAIN s = 1 .. Len(s) /\ DOMAIN t = 1 .. Len(t)
  OBVIOUS
<1>5. \A i \in DOMAIN s : s[i] \in S
  OBVIOUS
<1>6. ToSet(s) \subseteq S
  BY <1>5 DEF ToSet
<1>7. ASSUME NEW x \in ToSet(Cat(s, t)) PROVE x \in ToSet(s) \cup ToSet(t)
  <2>1. PICK i \in DOMAIN Cat(s, t) : x = Cat(s, t)[i]
    BY DEF ToSet
  <2>2. QED
    BY <1>3, <1>4, <2>1, Zenon DEF ToSet
<1>8. ASSUME NEW x \in ToSet(s) PROVE x \in ToSet(Cat(s, t))
  <2>1. PICK i \in DOMAIN s : x = s[i]
    BY DEF ToSet
  <2>2. QED
    BY <1>1, <1>4, <2>1, Zenon DEF ToSet
<1>9. ASSUME NEW x \in ToSet(t) PROVE x \in ToSet(Cat(s, t))
  <2>1. PICK i \in DOMAIN t : x = t[i]
    BY DEF ToSet
  <2>2. QED
    BY <1>2, <1>4, <2>1, Zenon DEF ToSet
<1>10. QED
  BY <1>6, <1>7, <1>8, <1>9

LEMMA ApartSplits ==
  ASSUME NEW S, NEW s \in Seq(S), NEW t \in Seq(S), ApartIn(Cat(s, t))
  PROVE  ApartIn(s) /\ ApartIn(t) /\ \A g \in ToSet(s), h \in ToSet(t) : g \cap h = {}
<1>1. \A i \in DOMAIN s : i \in DOMAIN Cat(s, t) /\ Cat(s, t)[i] = s[i]
  BY DEF Cat
<1>2. \A i \in DOMAIN t : i + Len(s) \in DOMAIN Cat(s, t) /\ Cat(s, t)[i + Len(s)] = t[i]
  BY DEF Cat
<1>3. \A i, j \in DOMAIN t : i + Len(s) = j + Len(s) => i = j
  OBVIOUS
<1>4. \A i \in DOMAIN s, j \in DOMAIN t : i # j + Len(s)
  OBVIOUS
<1>5. ApartIn(s)
  BY <1>1 DEF ApartIn
<1>6. ApartIn(t)
  BY <1>2, <1>3, Zenon DEF ApartIn
<1>7. \A i \in DOMAIN s, j \in DOMAIN t : s[i] \cap t[j] = {}
  BY <1>1, <1>2, <1>4, Zenon DEF ApartIn
<1>8. QED
  BY <1>5, <1>6, <1>7 DEF ToSet

LEMMA ApartJoins ==
  ASSUME NEW S, NEW s \in Seq(S), NEW t \in Seq(S), ApartIn(s), ApartIn(t),
         \A g \in ToSet(s), h \in ToSet(t) : g \cap h = {}
  PROVE  ApartIn(Cat(s, t))
<1>1. \A i \in DOMAIN Cat(s, t) :
        \/ i \in DOMAIN s /\ Cat(s, t)[i] = s[i]
        \/ i - Len(s) \in DOMAIN t /\ Cat(s, t)[i] = t[i - Len(s)]
  BY DEF Cat
<1>2. \A i, j \in DOMAIN Cat(s, t) : i - Len(s) = j - Len(s) => i = j
  BY DEF Cat
<1>3. \A i \in DOMAIN s, j \in DOMAIN t : s[i] \cap t[j] = {} /\ t[j] \cap s[i] = {}
  BY DEF ToSet
<1>4. SUFFICES ASSUME NEW i \in DOMAIN Cat(s, t), NEW j \in DOMAIN Cat(s, t), i # j
                PROVE  Cat(s, t)[i] \cap Cat(s, t)[j] = {}
  BY DEF ApartIn
<1>5. CASE i \in DOMAIN s /\ Cat(s, t)[i] = s[i]
  <2>1. CASE j \in DOMAIN s /\ Cat(s, t)[j] = s[j]
    BY <1>4, <1>5, <2>1 DEF ApartIn
  <2>2. CASE j - Len(s) \in DOMAIN t /\ Cat(s, t)[j] = t[j - Len(s)]
    BY <1>3, <1>5, <2>2
  <2>3. QED
    BY <1>1, <2>1, <2>2
<1>6. CASE i - Len(s) \in DOMAIN t /\ Cat(s, t)[i] = t[i - Len(s)]
  <2>1. CASE j \in DOMAIN s /\ Cat(s, t)[j] = s[j]
    BY <1>3, <1>6, <2>1
  <2>2. CASE j - Len(s) \in DOMAIN t /\ Cat(s, t)[j] = t[j - Len(s)]
    <3>1. i - Len(s) # j - Len(s)
      BY <1>2, <1>4
    <3>2. QED
      BY <1>6, <2>2, <3>1 DEF ApartIn
  <2>3. QED
    BY <1>1, <2>1, <2>2
<1>7. QED
  BY <1>1, <1>5, <1>6

LEMMA LargerSeq ==
  ASSUME NEW S, NEW T \in SUBSET S, NEW s \in Seq(T)
  PROVE  s \in Seq(S)
  OBVIOUS

LEMMA ApartElements ==
  ASSUME NEW s, ApartIn(s)
  PROVE  Apart(ToSet(s))
  BY DEF ApartIn, Apart, ToSet

LEMMA ApartOrder ==
  ASSUME NEW s, IsInjective(s), Apart(ToSet(s))
  PROVE  ApartIn(s)
<1>1. SUFFICES ASSUME NEW i \in DOMAIN s, NEW j \in DOMAIN s, i # j PROVE s[i] \cap s[j] = {}
  BY DEF ApartIn
<1>2. s[i] # s[j] /\ s[i] \in ToSet(s) /\ s[j] \in ToSet(s)
  BY <1>1, Zenon DEF IsInjective, ToSet
<1>3. QED
  BY <1>2 DEF Apart

LEMMA OneElement ==
  ASSUME NEW S, NEW s \in Seq(S), NEW x \in S
  PROVE  /\ <<x>> \in Seq(S) /\ Append(s, x) = Cat(s, <<x>>)
         /\ ToSet(<<x>>) = {x} /\ ApartIn(<<x>>) /\ IsInjective(<<x>>)
<1>1. Append(s, x) = Cat(s, <<x>>)
  BY DEF Cat
<1>2. <<x>> \in Seq(S) /\ DOMAIN <<x>> = {1} /\ <<x>>[1] = x
  OBVIOUS
<1>3. QED
  BY <1>1, <1>2, Zenon DEF ToSet, ApartIn, IsInjective

(* A list without repetition: so are its parts, and they share nothing.    *)
LEMMA InjectiveSplits ==
  ASSUME NEW S, NEW s \in Seq(S), NEW t \in Seq(S), IsInjective(Cat(s, t))
  PROVE  IsInjective(t) /\ ToSet(s) \cap ToSet(t) = {}
<1>1. \A i \in DOMAIN s : i \in DOMAIN Cat(s, t) /\ Cat(s, t)[i] = s[i]
  BY DEF Cat
<1>2. \A i \in DOMAIN t : i + Len(s) \in DOMAIN Cat(s, t) /\ Cat(s, t)[i + Len(s)] = t[i]
  BY DEF Cat
<1>3. \A i, j \in DOMAIN t : i + Len(s) = j + Len(s) => i = j
  OBVIOUS
<1>4. \A i \in DOMAIN s, j \in DOMAIN t : i # j + Len(s)
  OBVIOUS
<1>5. IsInjective(t)
  BY <1>2, <1>3, Zenon DEF IsInjective
<1>6. \A i \in DOMAIN s, j \in DOMAIN t : s[i] # t[j]
  BY <1>1, <1>2, <1>4, Zenon DEF IsInjective
<1>7. QED
  BY <1>5, <1>6 DEF ToSet

LEMMA InjectiveJoins ==
  ASSUME NEW S, NEW s \in Seq(S), NEW x \in S, IsInjective(s), x \notin ToSet(s)
  PROVE  IsInjective(Append(s, x))
<1>1. \A i \in DOMAIN Append(s, x) :
        \/ i \in DOMAIN s /\ Append(s, x)[i] = s[i]
        \/ i = Len(s) + 1 /\ Append(s, x)[i] = x
  OBVIOUS
<1>2. \A i \in DOMAIN s : s[i] # x
  BY DEF ToSet
<1>3. QED
  BY <1>1, <1>2, Zenon DEF IsInjective

(* What a queue of groups passes on when groups are given to it: it holds  *)
(* p afterwards and its listener has got the groups of out.                *)
PassesOn(q, given, p, out) ==
  /\ p \in QueueOf(SUBSET Nat) /\ ApartIn(p.items)
  /\ Apart(out)
  /\ \A g \in ToSet(p.items), h \in out : g \cap h = {}
  /\ ToSet(p.items) \cup out = ToSet(q.items) \cup given

LEMMA SplitPassesOn ==
  ASSUME NEW q \in QueueOf(SUBSET Nat), NEW given, NEW p \in QueueOf(SUBSET Nat),
         NEW out \in Seq(SUBSET Nat), NEW more \in Seq(SUBSET Nat),
         Cat(out, p.items) = Cat(q.items, more), ToSet(more) = given,
         ApartIn(q.items), ApartIn(more), \A g \in ToSet(q.items), h \in given : g \cap h = {}
  PROVE  PassesOn(q, given, p, ToSet(out))
<1>1. q.items \in Seq(SUBSET Nat) /\ p.items \in Seq(SUBSET Nat)
  BY QueueFields
<1>2. ApartIn(Cat(out, p.items))
  BY <1>1, ApartJoins
<1>3. ApartIn(out) /\ ApartIn(p.items) /\ \A g \in ToSet(out), h \in ToSet(p.items) : g \cap h = {}
  BY <1>1, <1>2, ApartSplits
<1>4. ToSet(out) \cup ToSet(p.items) = ToSet(q.items) \cup given
  BY <1>1, ElementsOf
<1>5. Apart(ToSet(out))
  BY <1>3, ApartElements
<1>6. \A g \in ToSet(p.items), h \in ToSet(out) : g \cap h = {}
  BY <1>3
<1>7. QED
  BY <1>3, <1>4, <1>5, <1>6 DEF PassesOn

LEMMA PushedAllPassesOn ==
  ASSUME NEW q \in QueueOf(SUBSET Nat), NEW groups \in SUBSET (SUBSET Nat), IsFiniteSet(groups),
         ApartIn(q.items), Apart(groups), \A g \in ToSet(q.items), h \in groups : g \cap h = {}
  PROVE  PassesOn(q, groups, PushedAll(q, groups).after, ToSet(PushedAll(q, groups).out))
<1> DEFINE order == SetToSeq(groups)
<1>1. order \in Seq(SUBSET Nat) /\ ToSet(order) = groups /\ ApartIn(order)
  <2>1. order \in Seq(groups) /\ ToSet(order) = groups /\ IsInjective(order)
    BY OrderOfASet
  <2>2. order \in Seq(SUBSET Nat)
    BY <2>1, LargerSeq
  <2>3. QED
    BY <2>1, <2>2, ApartOrder
<1> HIDE DEF order
<1>2. PICK p \in QueueOf(SUBSET Nat), out \in Seq(SUBSET Nat) :
        /\ p = PushedAll(q, groups).after /\ out = PushedAll(q, groups).out
        /\ Cat(out, p.items) = Cat(q.items, order)
  <2>1. /\ PushedAll(q, groups) \in AccOf(SUBSET Nat)
        /\ Passed(PushedAll(q, groups)) = Cat(q.items, order)
    BY PushedAllKeepsAll DEF order
  <2>2. QED
    BY <2>1 DEF AccOf, Passed
<1>3. PassesOn(q, groups, p, ToSet(out))
  BY <1>1, <1>2, SplitPassesOn
<1>4. QED
  BY <1>2, <1>3

LEMMA PushedPassesOn ==
  ASSUME NEW q \in QueueOf(SUBSET Nat), NEW g \in SUBSET Nat,
         ApartIn(q.items), \A h \in ToSet(q.items) : h \cap g = {}
  PROVE  PassesOn(q, {g}, Pushed(q, g), ToSet(PushedBatch(q, g)))
<1>1. q.items \in Seq(SUBSET Nat)
  BY QueueFields
<1>2. <<g>> \in Seq(SUBSET Nat) /\ ToSet(<<g>>) = {g} /\ ApartIn(<<g>>)
      /\ Append(q.items, g) = Cat(q.items, <<g>>)
  BY <1>1, OneElement
<1>3. PICK p \in QueueOf(SUBSET Nat), out \in Seq(SUBSET Nat) :
        /\ p = Pushed(q, g) /\ out = PushedBatch(q, g)
        /\ Cat(out, p.items) = Append(q.items, g)
  BY PushedKeepsAll DEF Cat
<1>4. Cat(out, p.items) = Cat(q.items, <<g>>)
  BY <1>2, <1>3
<1>5. PICK more \in Seq(SUBSET Nat) : more = <<g>>
  BY <1>2
<1>6. PassesOn(q, {g}, p, ToSet(out))
  BY <1>2, <1>4, <1>5, SplitPassesOn
<1>7. QED
  BY <1>3, <1>6

-----------------------------------------------------------------------------
(* Six sets that share out Ev, and what moving events from one to the next *)
(* does to them.                                                           *)
OnWay(Ev, A, C, U, K, R, L) ==
  /\ A \cup C \cup U \cup K \cup R \cup L = Ev
  /\ A \cap (C \cup U \cup K \cup R \cup L) = {}
  /\ C \cap (U \cup K \cup R \cup L) = {}
  /\ U \cap (K \cup R \cup L) = {}
  /\ K \cap (R \cup L) = {}
  /\ R \cap L = {}

LEMMA OnePlaceOfSix ==
  ASSUME NEW Ev, NEW A, NEW C, NEW U, NEW K, NEW R, NEW L,
         OnWay(Ev, A, C, U, K, R, L), NEW e \in Ev
  PROVE  AtOnePlace(e, <<A, C, U, K, R, L>>)
<1> DEFINE way == <<A, C, U, K, R, L>>
<1>1. DOMAIN way = {1, 2, 3, 4, 5, 6}
  OBVIOUS
<1>2. /\ way[1] = A /\ way[2] = C /\ way[3] = U
      /\ way[4] = K /\ way[5] = R /\ way[6] = L
  OBVIOUS
<1> HIDE DEF way
<1>3. SUFFICES AtOnePlace(e, way)
  BY DEF way
<1>4. ASSUME NEW i \in {1, 2, 3, 4, 5, 6}, e \in way[i],
             \A j \in {1, 2, 3, 4, 5, 6} : j # i => e \notin way[j]
      PROVE  AtOnePlace(e, way)
  BY <1>1, <1>4 DEF AtOnePlace
<1>5. CASE e \in A
  BY <1>2, <1>4, <1>5 DEF OnWay
<1>6. CASE e \in C
  BY <1>2, <1>4, <1>6 DEF OnWay
<1>7. CASE e \in U
  BY <1>2, <1>4, <1>7 DEF OnWay
<1>8. CASE e \in K
  BY <1>2, <1>4, <1>8 DEF OnWay
<1>9. CASE e \in R
  BY <1>2, <1>4, <1>9 DEF OnWay
<1>10. CASE e \in L
  BY <1>2, <1>4, <1>10 DEF OnWay
<1>11. QED
  BY <1>5, <1>6, <1>7, <1>8, <1>9, <1>10 DEF OnWay

LEMMA OnePlaceOfFive ==
  ASSUME NEW Ev, NEW A, NEW U, NEW K, NEW R, NEW L,
         OnWay(Ev, A, {}, U, K, R, L), NEW e \in Ev
  PROVE  AtOnePlace(e, <<A, U, K, R, L>>)
<1> DEFINE way == <<A, U, K, R, L>>
<1>1. DOMAIN way = {1, 2, 3, 4, 5}
  OBVIOUS
<1>2. way[1] = A /\ way[2] = U /\ way[3] = K /\ way[4] = R /\ way[5] = L
  OBVIOUS
<1> HIDE DEF way
<1>3. SUFFICES AtOnePlace(e, way)
  BY DEF way
<1>4. ASSUME NEW i \in {1, 2, 3, 4, 5}, e \in way[i],
             \A j \in {1, 2, 3, 4, 5} : j # i => e \notin way[j]
      PROVE  AtOnePlace(e, way)
  BY <1>1, <1>4 DEF AtOnePlace
<1>5. CASE e \in A
  BY <1>2, <1>4, <1>5 DEF OnWay
<1>6. CASE e \in U
  BY <1>2, <1>4, <1>6 DEF OnWay
<1>7. CASE e \in K
  BY <1>2, <1>4, <1>7 DEF OnWay
<1>8. CASE e \in R
  BY <1>2, <1>4, <1>8 DEF OnWay
<1>9. CASE e \in L
  BY <1>2, <1>4, <1>9 DEF OnWay
<1>10. QED
  BY <1>5, <1>6, <1>7, <1>8, <1>9 DEF OnWay

LEMMA MasterMoves ==
  ASSUME NEW Ev, NEW A, NEW C, NEW U, NEW K, NEW R, NEW L, OnWay(Ev, A, C, U, K, R, L),
         NEW Ev2, NEW A2, NEW B, NEW N, Ev2 = Ev \cup N, N \cap Ev = {},
         A2 \cup B = A \cup N, A2 \cap B = {}
  PROVE  /\ OnWay(Ev2, A2, C \cup B, U, K, R, L)
         /\ \A U2, O : U2 \cup O = U \cup B /\ U2 \cap O = {}
                         => OnWay(Ev2, A2, C, U2, K \cup O, R, L)
<1>1. OnWay(Ev2, A2, C \cup B, U, K, R, L)
  BY DEF OnWay
<1>2. ASSUME NEW U2, NEW O, U2 \cup O = U \cup B, U2 \cap O = {}
      PROVE  OnWay(Ev2, A2, C, U2, K \cup O, R, L)
  BY <1>2 DEF OnWay
<1>3. QED
  BY <1>1, <1>2

LEMMA QueueMoves ==
  ASSUME NEW Ev, NEW A, NEW C, NEW U, NEW K, NEW R, NEW L, OnWay(Ev, A, C, U, K, R, L),
         NEW g, g \subseteq C,
         NEW U2, NEW O, U2 \cup O = U \cup g, U2 \cap O = {}
  PROVE  OnWay(Ev, A, C \ g, U2, K \cup O, R, L)
  BY DEF OnWay

LEMMA CreateFailsMoves ==
  ASSUME NEW Ev, NEW A, NEW C, NEW U, NEW K, NEW R, NEW L, OnWay(Ev, A, C, U, K, R, L),
         NEW g, g \subseteq C
  PROVE  OnWay(Ev, A, C \ g, U, K, R, L \cup g)
  BY DEF OnWay

LEMMA StatementMoves ==
  ASSUME NEW Ev, NEW A, NEW C, NEW U, NEW K, NEW R, NEW L, OnWay(Ev, A, C, U, K, R, L),
         NEW g, g \subseteq K
  PROVE  OnWay(Ev, A, C, U, K \ g, R \cup g, L) /\ OnWay(Ev, A, C, U, K \ g, R, L \cup g)
  BY DEF OnWay

LEMMA CrashMoves ==
  ASSUME NEW Ev, NEW A, NEW C, NEW U, NEW K, NEW R, NEW L, OnWay(Ev, A, C, U, K, R, L),
         NEW D, D \subseteq K
  PROVE  OnWay(Ev, {}, {}, {}, {}, R \cup D, L \cup A \cup C \cup U \cup (K \ D))
  BY DEF OnWay

-----------------------------------------------------------------------------
(* The groups of a batch. *)
LEMMA WithoutGroup ==
  ASSUME NEW groups, Apart(groups), NEW g \in groups
  PROVE  /\ Apart(groups \ {g}) /\ g \subseteq UNION groups
         /\ UNION (groups \ {g}) = (UNION groups) \ g
  BY DEF Apart

LEMMA WithoutGroups ==
  ASSUME NEW groups, Apart(groups), NEW done \in SUBSET groups
  PROVE  UNION (groups \ done) = (UNION groups) \ (UNION done) /\ UNION done \subseteq UNION groups
  BY DEF Apart

LEMMA MoreGroups ==
  ASSUME NEW groups, Apart(groups), NEW more, Apart(more), (UNION groups) \cap (UNION more) = {}
  PROVE  /\ Apart(groups \cup more)
         /\ UNION (groups \cup more) = (UNION groups) \cup (UNION more)
  BY DEF Apart

SameTenant(g) == \A e, f \in g : log[e].tenant = log[f].tenant
SameUser(g) == \A e, f \in g : log[e].user = log[f].user

LEMMA ByTenantSplits ==
  ASSUME NEW batch \in Seq(Nat)
  PROVE  /\ ByTenant(batch) \in SUBSET (SUBSET Nat) /\ IsFiniteSet(ByTenant(batch))
         /\ Apart(ByTenant(batch)) /\ UNION ByTenant(batch) = ToSet(batch)
         /\ \A g \in ByTenant(batch) : SameTenant(g)'
<1> DEFINE group(e) == { f \in ToSet(batch) : log'[f].tenant = log'[e].tenant }
<1>1. ToSet(batch) \subseteq Nat /\ DOMAIN batch = 1 .. Len(batch) /\ Len(batch) \in Nat
  BY DEF ToSet
<1>2. ByTenant(batch) = { group(e) : e \in ToSet(batch) }
  BY DEF ByTenant
<1>3. ByTenant(batch) \in SUBSET (SUBSET Nat) /\ UNION ByTenant(batch) = ToSet(batch)
  BY <1>1, <1>2
<1>4. Apart(ByTenant(batch))
  <2>1. ASSUME NEW d \in ToSet(batch), NEW e \in ToSet(batch), NEW x,
               x \in group(d), x \in group(e)
        PROVE  group(d) = group(e)
    BY <2>1
  <2> HIDE DEF group
  <2>2. QED
    BY <1>2, <2>1 DEF Apart
<1>5. \A g \in ByTenant(batch) : SameTenant(g)'
  BY <1>2 DEF SameTenant
<1>6. IsFiniteSet(ByTenant(batch))
  <2> DEFINE f == [i \in 1 .. Len(batch) |-> group(batch[i])]
  <2>1. f \in Surjection(1 .. Len(batch), ByTenant(batch))
    <3>1. \A i \in 1 .. Len(batch) : batch[i] \in ToSet(batch)
      BY <1>1 DEF ToSet
    <3>2. \A e \in ToSet(batch) : \E i \in 1 .. Len(batch) : batch[i] = e
      BY <1>1 DEF ToSet
    <3> HIDE DEF group
    <3>3. f \in [1 .. Len(batch) -> ByTenant(batch)]
      BY <1>2, <3>1
    <3>4. \A g \in ByTenant(batch) : \E i \in 1 .. Len(batch) : f[i] = g
      BY <1>2, <3>2
    <3>5. QED
      BY <3>3, <3>4 DEF Surjection
  <2>2. IsFiniteSet(1 .. Len(batch))
    BY <1>1, FS_Interval
  <2> HIDE DEF f
  <2>3. QED
    BY <2>1, <2>2, FS_Surjection
<1>7. QED
  BY <1>3, <1>4, <1>5, <1>6

LEMMA ByUserSplits ==
  ASSUME NEW g \in SUBSET Nat
  PROVE  /\ ByUser(g) \in SUBSET (SUBSET Nat) /\ Apart(ByUser(g)) /\ UNION ByUser(g) = g
         /\ \A c \in ByUser(g) : c \subseteq g /\ SameUser(c)
<1>1. ByUser(g) \in SUBSET (SUBSET Nat) /\ UNION ByUser(g) = g
  <2>1. \A c \in ByUser(g) : c \subseteq g
    BY DEF ByUser
  <2>2. ASSUME NEW e \in g PROVE \E c \in ByUser(g) : e \in c
    <3> DEFINE c == { f \in g : log[f].user = log[e].user }
    <3>1. c \in ByUser(g) /\ e \in c
      BY DEF ByUser
    <3>2. QED
      BY <3>1
  <2>3. QED
    BY <2>1, <2>2
<1>2. Apart(ByUser(g))
  BY DEF ByUser, Apart
<1>3. \A c \in ByUser(g) : c \subseteq g /\ SameUser(c)
  BY DEF ByUser, SameUser
<1>4. QED
  BY <1>1, <1>2, <1>3

LEMMA ByUserOfGroups ==
  ASSUME NEW groups \in SUBSET (SUBSET Nat), Apart(groups), \A g \in groups : SameTenant(g)
  PROVE  LET calls == UNION { ByUser(g) : g \in groups }
         IN  /\ calls \in SUBSET (SUBSET Nat) /\ Apart(calls) /\ UNION calls = UNION groups
             /\ \A c \in calls : SameTenant(c) /\ SameUser(c)
<1> DEFINE calls == UNION { ByUser(g) : g \in groups }
<1>1. \A c \in calls : \E g \in groups : c \in ByUser(g)
  OBVIOUS
<1>2. calls \in SUBSET (SUBSET Nat)
  BY ByUserSplits
<1>3. UNION calls = UNION groups
  <2>1. \A g \in groups : UNION ByUser(g) = g
    BY ByUserSplits
  <2>2. QED
    BY <2>1
<1>4. Apart(calls)
  <2>1. SUFFICES ASSUME NEW c \in calls, NEW d \in calls, c # d PROVE c \cap d = {}
    BY DEF Apart
  <2>2. PICK g \in groups : c \in ByUser(g)
    BY <1>1
  <2>3. PICK h \in groups : d \in ByUser(h)
    BY <1>1
  <2>4. CASE g = h
    BY <2>1, <2>2, <2>3, <2>4, ByUserSplits DEF Apart
  <2>5. CASE g # h
    <3>1. g \cap h = {}
      BY <2>5 DEF Apart
    <3>2. c \subseteq g /\ d \subseteq h
      BY <2>2, <2>3, ByUserSplits
    <3>3. QED
      BY <3>1, <3>2
  <2>6. QED
    BY <2>4, <2>5
<1>5. ASSUME NEW c \in calls PROVE SameTenant(c) /\ SameUser(c)
  <2>1. PICK g \in groups : c \in ByUser(g)
    BY <1>1
  <2>2. c \subseteq g /\ SameUser(c)
    BY <2>1, ByUserSplits
  <2>3. QED
    BY <2>2 DEF SameTenant
<1>6. QED
  BY <1>2, <1>3, <1>4, <1>5

-----------------------------------------------------------------------------
(* The inductive invariant.  The types of the queues are those of the      *)
(* object, so that what add and the timer do to it can be computed.        *)
TypesInv ==
  /\ log \in Seq(Accounts) /\ crashes \in 0 .. MaxCrashes
  /\ queue \in QueueOf(Nat)
  /\ queueSearchReport \in QueueOf(SUBSET Nat) /\ queueUsageReport \in QueueOf(SUBSET Nat)

UsageInv ==
  /\ OnWay(Events, ToSet(queue.items), UNION creating, Buffered(queueUsageReport),
           UNION calling, usageReport, usageLost)
  /\ Apart(creating) /\ Apart(calling) /\ ApartIn(queueUsageReport.items)
  /\ \A g \in creating \cup ToSet(queueUsageReport.items) \cup calling : SameTenant(g)
  /\ \A c \in calling : SameUser(c)
  /\ Buffered(queueUsageReport) \cup (UNION calling) \cup usageReport \subseteq eventLogs
  /\ eventLogs \subseteq Events

SearchInv ==
  /\ OnWay(Events, ToSet(queue.items), {}, Buffered(queueSearchReport),
           UNION inserting, searchReport, searchLost)
  /\ Apart(inserting) /\ ApartIn(queueSearchReport.items)
  /\ \A g \in ToSet(queueSearchReport.items) \cup inserting : SameTenant(g)

IInv == TypesInv /\ IsInjective(queue.items) /\ UsageInv /\ SearchInv

LEMMA NumbersInv ==
  ASSUME TypesInv, UsageInv, SearchInv
  PROVE  /\ Events \subseteq Nat
         /\ queue.items \in Seq(Nat) /\ queueUsageReport.items \in Seq(SUBSET Nat)
         /\ queueSearchReport.items \in Seq(SUBSET Nat)
         /\ ToSet(queue.items) \subseteq Events
         /\ creating \cup calling \cup inserting \subseteq SUBSET Events
         /\ ToSet(queueUsageReport.items) \cup ToSet(queueSearchReport.items) \subseteq SUBSET Events
         /\ \A s \in {eventLogs, searchReport, usageReport, searchLost, usageLost} :
              s \subseteq Events
<1>1. Events \subseteq Nat
  BY DEF TypesInv, Events
<1>2. /\ queue.items \in Seq(Nat) /\ queueUsageReport.items \in Seq(SUBSET Nat)
      /\ queueSearchReport.items \in Seq(SUBSET Nat)
  BY QueueFields DEF TypesInv
<1>3. ToSet(queue.items) \subseteq Events
  BY DEF UsageInv, OnWay
<1>4. /\ UNION creating \subseteq Events /\ UNION calling \subseteq Events
      /\ UNION inserting \subseteq Events
      /\ Buffered(queueUsageReport) \subseteq Events /\ Buffered(queueSearchReport) \subseteq Events
  BY DEF UsageInv, SearchInv, OnWay
<1>5. /\ usageReport \subseteq Events /\ usageLost \subseteq Events /\ searchReport \subseteq Events
      /\ searchLost \subseteq Events /\ eventLogs \subseteq Events
  BY DEF UsageInv, SearchInv, OnWay
<1>6. creating \cup calling \cup inserting \subseteq SUBSET Events
  BY <1>4
<1>7. ToSet(queueUsageReport.items) \cup ToSet(queueSearchReport.items) \subseteq SUBSET Events
  BY <1>4 DEF Buffered
<1>8. ASSUME NEW s \in {eventLogs, searchReport, usageReport, searchLost, usageLost}
      PROVE  s \subseteq Events
  BY <1>5
<1>9. QED
  BY <1>1, <1>2, <1>3, <1>6, <1>7, <1>8, Zenon

LEMMA SmallerSeq ==
  ASSUME NEW S, NEW s \in Seq(S), NEW T, ToSet(s) \subseteq T
  PROVE  s \in Seq(T)
<1>1. \A i \in 1 .. Len(s) : s[i] \in T
  BY DEF ToSet
<1>2. QED
  BY <1>1

LEMMA IInvImpliesTypeOK == ASSUME IInv PROVE TypeOK
<1>1. TypesInv /\ UsageInv /\ SearchInv
  BY DEF IInv
<1>2. queue.items \in Seq(Events)
  BY <1>1, NumbersInv, SmallerSeq
<1>3. /\ queueSearchReport.items \in Seq(SUBSET Events)
      /\ queueUsageReport.items \in Seq(SUBSET Events)
  BY <1>1, NumbersInv, SmallerSeq
<1>4. QED
  BY <1>1, <1>2, <1>3, NumbersInv DEF TypeOK, TypesInv

LEMMA IInvImpliesCountedOnce == ASSUME IInv PROVE CountedOnce
<1>1. TypeOK
  BY IInvImpliesTypeOK
<1>2. ASSUME NEW e \in Events PROVE AtOnePlace(e, UsageWay)
  BY OnePlaceOfSix DEF IInv, UsageInv, UsageWay
<1>3. ASSUME NEW e \in Events PROVE AtOnePlace(e, SearchWay)
  BY OnePlaceOfFive DEF IInv, SearchInv, SearchWay
<1>4. QED
  BY <1>1, <1>2, <1>3 DEF CountedOnce, IInv, UsageInv, SearchInv

LEMMA IInvImpliesTenantsApart == ASSUME IInv PROVE TenantsApart
  BY DEF IInv, UsageInv, SearchInv, TenantsApart, SameTenant, SameUser

LEMMA InitIInv == Init => IInv
<1>1. SUFFICES ASSUME Init PROVE IInv
  OBVIOUS
<1>2. TypesInv
  BY <1>1, NewQueueType, EventAssumption DEF Init, TypesInv
<1>3. NewQueue.items = <<>> /\ DOMAIN <<>> = {} /\ ToSet(<<>>) = {}
  BY NewQueueType DEF ToSet
<1>4. Events = {}
  BY <1>1, <1>3 DEF Init, Events
<1>5. /\ ToSet(queue.items) = {} /\ ToSet(queueUsageReport.items) = {}
      /\ ToSet(queueSearchReport.items) = {}
      /\ Buffered(queueUsageReport) = {} /\ Buffered(queueSearchReport) = {}
  BY <1>1, <1>3 DEF Init, Buffered
<1>6. /\ IsInjective(queue.items) /\ ApartIn(queueUsageReport.items)
      /\ ApartIn(queueSearchReport.items)
  BY <1>1, <1>3 DEF Init, IsInjective, ApartIn
<1>7. UsageInv
  BY <1>1, <1>4, <1>5, <1>6 DEF Init, UsageInv, OnWay, Apart
<1>8. SearchInv
  BY <1>1, <1>4, <1>5, <1>6 DEF Init, SearchInv, OnWay, Apart
<1>9. QED
  BY <1>2, <1>6, <1>7, <1>8 DEF IInv

(* What a queue of groups passed on, as sets of events.                    *)
LEMMA PassedEvents ==
  ASSUME NEW q, NEW given, NEW p, NEW out, PassesOn(q, given, p, out)
  PROVE  /\ Buffered(p) \cup UNION out = Buffered(q) \cup UNION given
         /\ Buffered(p) \cap UNION out = {}
  BY DEF PassesOn, Buffered

LEMMA TimerPassesOn ==
  ASSUME NEW q \in QueueOf(SUBSET Nat), q.timeouts > 0, ApartIn(q.items)
  PROVE  PassesOn(q, {}, RecurringQueue(q), ToSet(q.items))
<1>1. RecurringQueue(q) \in QueueOf(SUBSET Nat) /\ RecurringQueue(q).items = <<>>
  BY RecurringEmpties
<1>2. DOMAIN <<>> = {} /\ ToSet(<<>>) = {}
  BY DEF ToSet
<1>3. ApartIn(<<>>)
  BY <1>2 DEF ApartIn
<1>4. Apart(ToSet(q.items))
  BY ApartElements
<1>5. QED
  BY <1>1, <1>2, <1>3, <1>4 DEF PassesOn

-----------------------------------------------------------------------------
LEMMA SameTenantStays ==
  ASSUME NEW g \in SUBSET Events, \A e \in Events : log'[e] = log[e], SameTenant(g)
  PROVE  SameTenant(g)'
  BY DEF SameTenant

LEMMA SameUserStays ==
  ASSUME NEW g \in SUBSET Events, \A e \in Events : log'[e] = log[e], SameUser(g)
  PROVE  SameUser(g)'
  BY DEF SameUser

(* A step of the master queue's: N are the events it takes in, the batch   *)
(* is what its listener gets.                                              *)
MasterStep(batch, N) ==
  /\ log' \in Seq(Accounts) /\ Events' = Events \cup N /\ N \cap Events = {}
  /\ \A e \in Events : log'[e] = log[e]
  /\ queue' \in QueueOf(Nat) /\ IsInjective(queue'.items)
  /\ ToSet(queue'.items) \cup ToSet(batch) = ToSet(queue.items) \cup N
  /\ ToSet(queue'.items) \cap ToSet(batch) = {}
  /\ FlushMaster(batch)
  /\ UNCHANGED <<queueUsageReport, calling, tables, searchLost, usageLost, crashes>>

LEMMA MasterStepKeepsIInv ==
  ASSUME IInv, NEW batch \in Seq(Nat), NEW N, MasterStep(batch, N)
  PROVE  IInv'
<1> DEFINE groups == ByTenant(batch)
<1>1. /\ groups \in SUBSET (SUBSET Nat) /\ IsFiniteSet(groups) /\ Apart(groups)
      /\ UNION groups = ToSet(batch) /\ \A g \in groups : SameTenant(g)'
  BY ByTenantSplits
<1>2. TypesInv /\ UsageInv /\ SearchInv
  BY DEF IInv
<1>3. PICK A2, B : /\ A2 = ToSet(queue'.items) /\ B = ToSet(batch)
                   /\ A2 \cup B = ToSet(queue.items) \cup N /\ A2 \cap B = {}
  BY DEF MasterStep
<1>4. /\ B \cap Buffered(queueSearchReport) = {} /\ B \cap (UNION inserting) = {}
      /\ B \cap (UNION creating) = {}
  <2>1. B \subseteq ToSet(queue.items) \cup N /\ N \cap Events = {}
    BY <1>3 DEF MasterStep
  <2>2. /\ ToSet(queue.items) \cap Buffered(queueSearchReport) = {}
        /\ ToSet(queue.items) \cap (UNION inserting) = {}
        /\ ToSet(queue.items) \cap (UNION creating) = {}
        /\ Buffered(queueSearchReport) \cup (UNION inserting) \cup (UNION creating) \subseteq Events
    BY <1>2 DEF UsageInv, SearchInv, OnWay
  <2>3. QED
    BY <2>1, <2>2
<1>5. PICK p, out : /\ p = PushedAll(queueSearchReport, groups).after
                    /\ out = ToSet(PushedAll(queueSearchReport, groups).out)
                    /\ PassesOn(queueSearchReport, groups, p, out)
  <2>1. queueSearchReport \in QueueOf(SUBSET Nat) /\ ApartIn(queueSearchReport.items)
    BY <1>2 DEF TypesInv, SearchInv
  <2>2. \A g \in ToSet(queueSearchReport.items), h \in groups : g \cap h = {}
    BY <1>1, <1>3, <1>4 DEF Buffered
  <2> HIDE DEF groups
  <2>3. QED
    BY <1>1, <2>1, <2>2, PushedAllPassesOn
<1>6. /\ creating' = creating \cup groups /\ queueSearchReport' = p
      /\ inserting' = inserting \cup out
  BY <1>5 DEF MasterStep, FlushMaster
<1> HIDE DEF groups
<1>7. /\ Events' = Events \cup N /\ N \cap Events = {} /\ \A e \in Events : log'[e] = log[e]
      /\ queue' \in QueueOf(Nat) /\ IsInjective(queue'.items) /\ log' \in Seq(Accounts)
      /\ queueUsageReport' = queueUsageReport /\ calling' = calling /\ eventLogs' = eventLogs
      /\ usageReport' = usageReport /\ searchReport' = searchReport
      /\ searchLost' = searchLost /\ usageLost' = usageLost /\ crashes' = crashes
  BY DEF MasterStep, tables
<1>8. /\ Buffered(p) \cup UNION out = Buffered(queueSearchReport) \cup B
      /\ Buffered(p) \cap UNION out = {}
  BY <1>1, <1>3, <1>5, PassedEvents
<1>9. TypesInv'
  BY <1>2, <1>5, <1>6, <1>7 DEF TypesInv, PassesOn
<1>10. Apart(creating \cup groups) /\ UNION (creating \cup groups) = (UNION creating) \cup B
  <2>1. Apart(creating) /\ UNION groups = B /\ (UNION creating) \cap (UNION groups) = {}
    BY <1>1, <1>2, <1>3, <1>4 DEF UsageInv
  <2>2. QED
    BY <1>1, <2>1, MoreGroups
<1>11. OnWay(Events', A2, (UNION creating) \cup B, Buffered(queueUsageReport),
             UNION calling, usageReport, usageLost)
  BY <1>2, <1>3, <1>7, MasterMoves DEF UsageInv
<1>12. OnWay(Events', A2, {}, Buffered(p), (UNION inserting) \cup (UNION out),
             searchReport, searchLost)
  BY <1>2, <1>3, <1>7, <1>8, MasterMoves DEF SearchInv
<1>13. \A g \in creating \cup calling \cup inserting : g \in SUBSET Events
  BY <1>2, NumbersInv
<1>14. \A g \in ToSet(queueUsageReport.items) \cup ToSet(queueSearchReport.items) :
         g \in SUBSET Events
  BY <1>2, NumbersInv
<1>15. UsageInv'
  <2>1. /\ Apart(creating') /\ Apart(calling') /\ ApartIn(queueUsageReport'.items)
        /\ \A c \in calling' : SameUser(c)'
    BY <1>2, <1>6, <1>7, <1>10, <1>13, SameUserStays DEF UsageInv
  <2>2. \A g \in creating' \cup ToSet(queueUsageReport'.items) \cup calling' : SameTenant(g)'
    <3>1. \A g \in creating \cup ToSet(queueUsageReport.items) \cup calling : SameTenant(g)'
      BY <1>2, <1>7, <1>13, <1>14, SameTenantStays DEF UsageInv
    <3>2. QED
      BY <1>1, <1>6, <1>7, <3>1
  <2>3. OnWay(Events', ToSet(queue'.items), UNION creating', Buffered(queueUsageReport'),
              UNION calling', usageReport', usageLost')
    BY <1>3, <1>6, <1>7, <1>10, <1>11
  <2>4. Buffered(queueUsageReport') \cup (UNION calling') \cup usageReport' \subseteq eventLogs'
    BY <1>2, <1>7 DEF UsageInv
  <2>5. eventLogs' \subseteq Events'
    BY <1>2, <1>7 DEF UsageInv
  <2>6. QED
    BY <2>1, <2>2, <2>3, <2>4, <2>5 DEF UsageInv, Buffered
<1>16. SearchInv'
  <2>1. Apart(inserting') /\ UNION inserting' = (UNION inserting) \cup (UNION out)
    <3>1. (UNION inserting) \cap (UNION out) = {}
      <4>1. (UNION inserting) \cap Buffered(queueSearchReport) = {}
        BY <1>2 DEF SearchInv, OnWay
      <4>2. QED
        BY <1>4, <1>8, <4>1
    <3>2. Apart(inserting) /\ Apart(out)
      BY <1>2, <1>5 DEF SearchInv, PassesOn
    <3>3. QED
      BY <1>6, <3>1, <3>2, MoreGroups
  <2>2. ApartIn(queueSearchReport'.items)
    BY <1>5, <1>6 DEF PassesOn
  <2>3. \A g \in ToSet(queueSearchReport'.items) \cup inserting' : SameTenant(g)'
    <3>1. \A g \in ToSet(queueSearchReport.items) \cup inserting : SameTenant(g)'
      BY <1>2, <1>7, <1>13, <1>14, SameTenantStays DEF SearchInv
    <3>2. ToSet(p.items) \cup out = ToSet(queueSearchReport.items) \cup groups
      BY <1>5 DEF PassesOn
    <3>3. QED
      BY <1>1, <1>6, <3>1, <3>2
  <2>4. OnWay(Events', ToSet(queue'.items), {}, Buffered(queueSearchReport'),
              UNION inserting', searchReport', searchLost')
    BY <1>3, <1>6, <1>7, <1>12, <2>1
  <2>5. QED
    BY <2>1, <2>2, <2>3, <2>4 DEF SearchInv, Buffered
<1>17. QED
  BY <1>7, <1>9, <1>15, <1>16 DEF IInv

LEMMA LogEventKeepsIInv ==
  ASSUME IInv, NEW a \in Accounts, LogEvent(a)
  PROVE  IInv'
<1> DEFINE e == Len(log) + 1
<1> DEFINE batch == PushedBatch(queue, e)
<1>1. log \in Seq(Accounts) /\ queue \in QueueOf(Nat) /\ queue.items \in Seq(Nat)
  BY QueueFields DEF IInv, TypesInv
<1>2. e \in Nat /\ Events = 1 .. Len(log) /\ e \notin Events
  BY <1>1 DEF Events
<1>3. log' = Append(log, a) /\ queue' = Pushed(queue, e) /\ FlushMaster(batch)
  BY DEF LogEvent
<1>4. /\ log' \in Seq(Accounts) /\ Events' = Events \cup {e}
      /\ \A f \in Events : log'[f] = log[f]
  BY <1>1, <1>2, <1>3, AppendProperties DEF Events
<1> HIDE DEF e
<1>5. /\ queue' \in QueueOf(Nat) /\ batch \in Seq(Nat)
      /\ Cat(batch, queue'.items) = Append(queue.items, e)
  BY <1>1, <1>2, <1>3, PushedKeepsAll DEF Cat
<1>6. IsInjective(Append(queue.items, e)) /\ Append(queue.items, e) = Cat(queue.items, <<e>>)
      /\ ToSet(<<e>>) = {e} /\ <<e>> \in Seq(Nat)
  <2>1. e \notin ToSet(queue.items)
    BY <1>2, NumbersInv DEF IInv
  <2>2. QED
    BY <1>1, <1>2, <2>1, InjectiveJoins, OneElement DEF IInv
<1>7. PICK items \in Seq(Nat), b \in Seq(Nat), one \in Seq(Nat) :
        items = queue'.items /\ b = batch /\ one = <<e>>
  BY <1>5, <1>6, QueueFields
<1>8. IsInjective(Cat(b, items)) /\ Cat(b, items) = Cat(queue.items, one)
  BY <1>5, <1>6, <1>7
<1>9. IsInjective(items) /\ ToSet(b) \cap ToSet(items) = {}
  BY <1>8, InjectiveSplits
<1>10. ToSet(b) \cup ToSet(items) = ToSet(queue.items) \cup ToSet(one)
  BY <1>1, <1>8, ElementsOf
<1>11. MasterStep(b, {e})
  BY <1>2, <1>3, <1>4, <1>5, <1>6, <1>7, <1>9, <1>10 DEF MasterStep, LogEvent, tables
<1>12. QED
  BY <1>11, MasterStepKeepsIInv

LEMMA MasterTimeoutKeepsIInv ==
  ASSUME IInv, MasterTimeout
  PROVE  IInv'
<1>1. log \in Seq(Accounts) /\ queue \in QueueOf(Nat) /\ queue.items \in Seq(Nat)
  BY QueueFields DEF IInv, TypesInv
<1>2. queue' \in QueueOf(Nat) /\ queue'.items = <<>>
  BY <1>1, RecurringEmpties DEF MasterTimeout
<1>3. DOMAIN <<>> = {} /\ ToSet(<<>>) = {}
  BY DEF ToSet
<1>4. IsInjective(<<>>)
  BY <1>3 DEF IsInjective
<1>5. log' = log /\ Events' = Events
  BY DEF MasterTimeout, Events
<1>6. MasterStep(queue.items, {})
  BY <1>1, <1>2, <1>3, <1>4, <1>5 DEF MasterStep, MasterTimeout, tables
<1>7. QED
  BY <1>1, <1>6, MasterStepKeepsIInv

-----------------------------------------------------------------------------
(* A step of the usage report queue's: given are the groups it takes from  *)
(* the statements that succeeded, the batch is what its listener gets.     *)
UsageStep(batch, given) ==
  /\ PassesOn(queueUsageReport, given, queueUsageReport', ToSet(batch))
  /\ FlushUsage(batch)
  /\ creating' = creating \ given
  /\ eventLogs' = eventLogs \cup UNION given
  /\ UNCHANGED <<log, queue, queueSearchReport, inserting, searchReport, usageReport,
                 searchLost, usageLost, crashes>>

LEMMA UsageStepKeepsIInv ==
  ASSUME IInv, NEW batch \in Seq(SUBSET Nat), NEW given \in SUBSET creating,
         UsageStep(batch, given)
  PROVE  IInv'
<1>1. TypesInv /\ UsageInv /\ SearchInv
  BY DEF IInv
<1>2. PICK out : out = ToSet(batch)
  OBVIOUS
<1>3. /\ out \in SUBSET (SUBSET Nat)
      /\ PassesOn(queueUsageReport, given, queueUsageReport', out)
  BY <1>2 DEF UsageStep, ToSet
<1>4. \A g \in out : SameTenant(g)
  <2>1. out \subseteq ToSet(queueUsageReport.items) \cup given
    BY <1>3 DEF PassesOn
  <2>2. QED
    BY <1>1, <2>1 DEF UsageInv
<1>5. PICK calls : calls = UNION { ByUser(g) : g \in out }
  OBVIOUS
<1>6. /\ Apart(calls) /\ UNION calls = UNION out
      /\ \A c \in calls : SameTenant(c) /\ SameUser(c)
  <2>1. Apart(out)
    BY <1>3 DEF PassesOn
  <2>2. QED
    BY <1>3, <1>4, <1>5, <2>1, ByUserOfGroups
<1>7. calling' = calling \cup calls
  BY <1>2, <1>5 DEF UsageStep, FlushUsage
<1>8. /\ Buffered(queueUsageReport') \cup UNION out = Buffered(queueUsageReport) \cup UNION given
      /\ Buffered(queueUsageReport') \cap UNION out = {}
  BY <1>3, PassedEvents
<1>9. /\ creating' = creating \ given /\ eventLogs' = eventLogs \cup UNION given
      /\ log' = log /\ queue' = queue /\ queueSearchReport' = queueSearchReport
      /\ inserting' = inserting /\ searchReport' = searchReport /\ usageReport' = usageReport
      /\ searchLost' = searchLost /\ usageLost' = usageLost /\ crashes' = crashes
  BY DEF UsageStep
<1>10. Events' = Events /\ \A e \in Events : log'[e] = log[e]
  BY <1>9 DEF Events
<1>11. /\ Apart(creating \ given) /\ UNION (creating \ given) = (UNION creating) \ (UNION given)
       /\ UNION given \subseteq UNION creating
  <2>1. Apart(creating)
    BY <1>1 DEF UsageInv
  <2>2. Apart(creating \ given)
    BY <2>1 DEF Apart
  <2>3. QED
    BY <2>1, <2>2, WithoutGroups
<1>12. Apart(calling \cup calls) /\ UNION (calling \cup calls) = (UNION calling) \cup (UNION out)
  <2>1. (UNION calling) \cap (UNION out) = {}
    <3>1. UNION out \subseteq Buffered(queueUsageReport) \cup UNION creating
      BY <1>8, <1>11
    <3>2. QED
      BY <1>1, <3>1 DEF UsageInv, OnWay
  <2>2. Apart(calling) /\ (UNION calling) \cap (UNION calls) = {}
    BY <1>1, <1>6, <2>1 DEF UsageInv
  <2>3. QED
    BY <1>6, <2>2, MoreGroups
<1>13. OnWay(Events, ToSet(queue.items), (UNION creating) \ (UNION given),
             Buffered(queueUsageReport'), (UNION calling) \cup (UNION out), usageReport, usageLost)
  BY <1>1, <1>8, <1>11, QueueMoves DEF UsageInv
<1>14. TypesInv'
  BY <1>1, <1>3, <1>9 DEF TypesInv, PassesOn
<1>15. SearchInv'
  BY <1>1, <1>9, <1>10 DEF SearchInv, Buffered, SameTenant
<1>16. UsageInv'
  <2>1. OnWay(Events', ToSet(queue'.items), UNION creating', Buffered(queueUsageReport'),
              UNION calling', usageReport', usageLost')
    BY <1>7, <1>9, <1>10, <1>11, <1>12, <1>13
  <2>2. Apart(creating') /\ Apart(calling') /\ ApartIn(queueUsageReport'.items)
    BY <1>3, <1>7, <1>9, <1>11, <1>12 DEF PassesOn
  <2>3. \A g \in creating' \cup ToSet(queueUsageReport'.items) \cup calling' : SameTenant(g)
    <3>1. ToSet(queueUsageReport'.items) \subseteq ToSet(queueUsageReport.items) \cup given
      BY <1>3 DEF PassesOn
    <3>2. QED
      BY <1>1, <1>6, <1>7, <1>9, <3>1 DEF UsageInv
  <2>4. \A c \in calling' : SameUser(c)
    BY <1>1, <1>6, <1>7 DEF UsageInv
  <2>5. Buffered(queueUsageReport') \cup (UNION calling') \cup usageReport' \subseteq eventLogs'
    <3>1. Buffered(queueUsageReport') \cup UNION calling'
            \subseteq (Buffered(queueUsageReport) \cup UNION given) \cup (UNION calling)
      BY <1>7, <1>8, <1>12
    <3>2. QED
      BY <1>1, <1>9, <3>1 DEF UsageInv
  <2>6. eventLogs' \subseteq Events'
    <3>1. UNION creating \subseteq Events /\ eventLogs \subseteq Events
      BY <1>1 DEF UsageInv, OnWay
    <3>2. QED
      BY <1>9, <1>10, <1>11, <3>1
  <2>7. /\ \A g \in creating' \cup ToSet(queueUsageReport'.items) \cup calling' : SameTenant(g)'
        /\ \A c \in calling' : SameUser(c)'
    BY <1>9, <2>3, <2>4 DEF SameTenant, SameUser
  <2>8. QED
    BY <2>1, <2>2, <2>5, <2>6, <2>7 DEF UsageInv, Buffered
<1>17. QED
  BY <1>1, <1>9, <1>14, <1>15, <1>16 DEF IInv

LEMMA CreateLandsKeepsIInv ==
  ASSUME IInv, NEW g \in creating, CreateLands(g)
  PROVE  IInv'
<1> DEFINE batch == PushedBatch(queueUsageReport, g)
<1>1. /\ queueUsageReport \in QueueOf(SUBSET Nat) /\ ApartIn(queueUsageReport.items)
      /\ g \in SUBSET Nat
  BY NumbersInv DEF IInv, TypesInv, UsageInv
<1>2. \A h \in ToSet(queueUsageReport.items) : h \cap g = {}
  BY DEF IInv, UsageInv, OnWay, Buffered
<1>3. batch \in Seq(SUBSET Nat)
  BY <1>1, PushedKeepsAll
<1>4. PassesOn(queueUsageReport, {g}, queueUsageReport', ToSet(batch))
  BY <1>1, <1>2, PushedPassesOn DEF CreateLands
<1>5. UsageStep(batch, {g})
  BY <1>4 DEF UsageStep, CreateLands
<1>6. QED
  BY <1>3, <1>5, UsageStepKeepsIInv

LEMMA UsageTimeoutKeepsIInv ==
  ASSUME IInv, UsageTimeout
  PROVE  IInv'
<1>1. /\ queueUsageReport \in QueueOf(SUBSET Nat) /\ ApartIn(queueUsageReport.items)
      /\ queueUsageReport.items \in Seq(SUBSET Nat)
  BY QueueFields DEF IInv, TypesInv, UsageInv
<1>2. PassesOn(queueUsageReport, {}, queueUsageReport', ToSet(queueUsageReport.items))
  BY <1>1, TimerPassesOn DEF UsageTimeout
<1>3. UsageStep(queueUsageReport.items, {})
  BY <1>2 DEF UsageStep, UsageTimeout, tables
<1>4. QED
  BY <1>1, <1>3, UsageStepKeepsIInv

LEMMA CreateFailsKeepsIInv ==
  ASSUME IInv, NEW g \in creating, CreateFails(g)
  PROVE  IInv'
<1>1. TypesInv /\ UsageInv /\ SearchInv
  BY DEF IInv
<1>2. /\ creating' = creating \ {g} /\ usageLost' = usageLost \cup g
      /\ log' = log /\ queue' = queue /\ queueSearchReport' = queueSearchReport
      /\ queueUsageReport' = queueUsageReport /\ eventLogs' = eventLogs /\ calling' = calling
      /\ inserting' = inserting /\ searchReport' = searchReport /\ usageReport' = usageReport
      /\ searchLost' = searchLost /\ crashes' = crashes
  BY DEF CreateFails, queues, tables
<1>3. Events' = Events
  BY <1>2 DEF Events
<1>4. Apart(creating \ {g}) /\ UNION (creating \ {g}) = (UNION creating) \ g
      /\ g \subseteq UNION creating
  BY <1>1, WithoutGroup DEF UsageInv
<1>5. OnWay(Events, ToSet(queue.items), (UNION creating) \ g, Buffered(queueUsageReport),
            UNION calling, usageReport, usageLost \cup g)
  BY <1>1, <1>4, CreateFailsMoves DEF UsageInv
<1>6. TypesInv' /\ SearchInv'
  BY <1>1, <1>2, <1>3 DEF TypesInv, SearchInv, Buffered, SameTenant
<1>7. UsageInv'
  <2>1. \A h \in creating' \cup ToSet(queueUsageReport'.items) \cup calling' : SameTenant(h)'
    BY <1>1, <1>2 DEF UsageInv, SameTenant
  <2>2. \A c \in calling' : SameUser(c)'
    BY <1>1, <1>2 DEF UsageInv, SameUser
  <2>3. QED
    BY <1>1, <1>2, <1>3, <1>4, <1>5, <2>1, <2>2 DEF UsageInv, Buffered
<1>8. QED
  BY <1>1, <1>2, <1>6, <1>7 DEF IInv

LEMMA CallEndsKeepsIInv ==
  ASSUME IInv, NEW c \in calling, CallEnds(c)
  PROVE  IInv'
<1>1. TypesInv /\ UsageInv /\ SearchInv
  BY DEF IInv
<1>2. /\ calling' = calling \ {c}
      /\ log' = log /\ queue' = queue /\ queueSearchReport' = queueSearchReport
      /\ queueUsageReport' = queueUsageReport /\ eventLogs' = eventLogs
      /\ creating' = creating /\ inserting' = inserting /\ searchReport' = searchReport
      /\ searchLost' = searchLost /\ crashes' = crashes
  BY DEF CallEnds, queues
<1>3. \/ usageReport' = usageReport \cup c /\ usageLost' = usageLost
      \/ usageReport' = usageReport /\ usageLost' = usageLost \cup c
  BY DEF CallEnds
<1>4. Events' = Events
  BY <1>2 DEF Events
<1>5. Apart(calling \ {c}) /\ UNION (calling \ {c}) = (UNION calling) \ c
      /\ c \subseteq UNION calling
  BY <1>1, WithoutGroup DEF UsageInv
<1>6. OnWay(Events, ToSet(queue.items), UNION creating, Buffered(queueUsageReport),
            (UNION calling) \ c, usageReport', usageLost')
  <2>1. OnWay(Events, ToSet(queue.items), UNION creating, Buffered(queueUsageReport),
              UNION calling, usageReport, usageLost)
    BY <1>1 DEF UsageInv
  <2>2. PICK K, R, L : /\ K = UNION calling /\ R = usageReport /\ L = usageLost
                       /\ c \subseteq K
    BY <1>5
  <2>3. PICK A, C, U : /\ A = ToSet(queue.items) /\ C = UNION creating
                       /\ U = Buffered(queueUsageReport)
    OBVIOUS
  <2>4. OnWay(Events, A, C, U, K, R, L)
    BY <2>1, <2>2, <2>3
  <2>5. OnWay(Events, A, C, U, K \ c, R \cup c, L) /\ OnWay(Events, A, C, U, K \ c, R, L \cup c)
    BY <2>2, <2>4, StatementMoves
  <2>6. QED
    BY <1>3, <2>2, <2>3, <2>5
<1>7. TypesInv' /\ SearchInv'
  BY <1>1, <1>2, <1>4 DEF TypesInv, SearchInv, Buffered, SameTenant
<1>8. UsageInv'
  <2>1. Buffered(queueUsageReport') \cup (UNION calling') \cup usageReport' \subseteq eventLogs'
    BY <1>1, <1>2, <1>3, <1>5 DEF UsageInv
  <2>2. /\ \A g \in creating' \cup ToSet(queueUsageReport'.items) \cup calling' : SameTenant(g)'
        /\ \A d \in calling' : SameUser(d)'
    BY <1>1, <1>2 DEF UsageInv, SameTenant, SameUser
  <2>3. QED
    BY <1>1, <1>2, <1>4, <1>5, <1>6, <2>1, <2>2 DEF UsageInv, Buffered
<1>9. QED
  BY <1>1, <1>2, <1>7, <1>8 DEF IInv

LEMMA SearchTimeoutKeepsIInv ==
  ASSUME IInv, SearchTimeout
  PROVE  IInv'
<1>1. TypesInv /\ UsageInv /\ SearchInv
  BY DEF IInv
<1>2. PICK p, out : p = queueSearchReport' /\ out = ToSet(queueSearchReport.items)
                    /\ PassesOn(queueSearchReport, {}, p, out)
  BY <1>1, TimerPassesOn DEF SearchTimeout, TypesInv, SearchInv
<1>3. /\ inserting' = inserting \cup out
      /\ log' = log /\ queue' = queue /\ queueUsageReport' = queueUsageReport
      /\ creating' = creating /\ calling' = calling
      /\ eventLogs' = eventLogs /\ searchReport' = searchReport /\ usageReport' = usageReport
      /\ searchLost' = searchLost /\ usageLost' = usageLost /\ crashes' = crashes
  BY <1>2 DEF SearchTimeout, tables
<1>4. Events' = Events
  BY <1>3 DEF Events
<1>5. /\ Buffered(p) \cup UNION out = Buffered(queueSearchReport)
      /\ Buffered(p) \cap UNION out = {}
  BY <1>2, PassedEvents
<1>6. OnWay(Events, ToSet(queue.items), {}, Buffered(p), (UNION inserting) \cup (UNION out),
            searchReport, searchLost)
  <2>1. OnWay(Events, ToSet(queue.items), {} \ {}, Buffered(p), (UNION inserting) \cup (UNION out),
              searchReport, searchLost)
    <3>1. Buffered(p) \cup UNION out = Buffered(queueSearchReport) \cup {}
      BY <1>5
    <3>2. QED
      BY <1>1, <1>5, <3>1, QueueMoves DEF SearchInv
  <2>2. {} \ {} = {}
    OBVIOUS
  <2>3. QED
    BY <2>1, <2>2
<1>7. Apart(inserting \cup out) /\ UNION (inserting \cup out) = (UNION inserting) \cup (UNION out)
  <2>1. Apart(inserting) /\ Apart(out) /\ (UNION inserting) \cap (UNION out) = {}
    BY <1>1, <1>2, <1>5 DEF SearchInv, OnWay, PassesOn
  <2>2. QED
    BY <2>1, MoreGroups
<1>8. TypesInv' /\ UsageInv'
  BY <1>1, <1>2, <1>3, <1>4
  DEF TypesInv, PassesOn, UsageInv, Buffered, SameTenant, SameUser
<1>9. SearchInv'
  <2>1. \A g \in ToSet(p.items) \cup inserting' : SameTenant(g)'
    BY <1>1, <1>2, <1>3 DEF SearchInv, PassesOn, SameTenant
  <2>2. ApartIn(p.items)
    BY <1>2 DEF PassesOn
  <2>3. QED
    BY <1>2, <1>3, <1>4, <1>6, <1>7, <2>1, <2>2 DEF SearchInv, Buffered
<1>10. QED
  BY <1>1, <1>3, <1>8, <1>9 DEF IInv

LEMMA InsertEndsKeepsIInv ==
  ASSUME IInv, NEW g \in inserting, InsertEnds(g)
  PROVE  IInv'
<1>1. TypesInv /\ UsageInv /\ SearchInv
  BY DEF IInv
<1>2. /\ inserting' = inserting \ {g}
      /\ log' = log /\ queue' = queue /\ queueSearchReport' = queueSearchReport
      /\ queueUsageReport' = queueUsageReport /\ eventLogs' = eventLogs
      /\ creating' = creating /\ calling' = calling /\ usageReport' = usageReport
      /\ usageLost' = usageLost /\ crashes' = crashes
  BY DEF InsertEnds, queues
<1>3. \/ searchReport' = searchReport \cup g /\ searchLost' = searchLost
      \/ searchReport' = searchReport /\ searchLost' = searchLost \cup g
  BY DEF InsertEnds
<1>4. Events' = Events
  BY <1>2 DEF Events
<1>5. Apart(inserting \ {g}) /\ UNION (inserting \ {g}) = (UNION inserting) \ g
      /\ g \subseteq UNION inserting
  BY <1>1, WithoutGroup DEF SearchInv
<1>6. OnWay(Events, ToSet(queue.items), {}, Buffered(queueSearchReport),
            (UNION inserting) \ g, searchReport', searchLost')
  <2>1. OnWay(Events, ToSet(queue.items), {}, Buffered(queueSearchReport),
              UNION inserting, searchReport, searchLost)
    BY <1>1 DEF SearchInv
  <2>2. PICK K, R, L : /\ K = UNION inserting /\ R = searchReport /\ L = searchLost
                       /\ g \subseteq K
    BY <1>5
  <2>3. PICK A, C, U : /\ A = ToSet(queue.items) /\ C = {}
                       /\ U = Buffered(queueSearchReport)
    OBVIOUS
  <2>4. OnWay(Events, A, C, U, K, R, L)
    BY <2>1, <2>2, <2>3
  <2>5. OnWay(Events, A, C, U, K \ g, R \cup g, L) /\ OnWay(Events, A, C, U, K \ g, R, L \cup g)
    BY <2>2, <2>4, StatementMoves
  <2>6. QED
    BY <1>3, <2>2, <2>3, <2>5
<1>7. TypesInv' /\ UsageInv'
  BY <1>1, <1>2, <1>4 DEF TypesInv, UsageInv, Buffered, SameTenant, SameUser
<1>8. SearchInv'
  <2>1. \A h \in ToSet(queueSearchReport'.items) \cup inserting' : SameTenant(h)'
    BY <1>1, <1>2 DEF SearchInv, SameTenant
  <2>2. QED
    BY <1>1, <1>2, <1>4, <1>5, <1>6, <2>1 DEF SearchInv, Buffered
<1>9. QED
  BY <1>1, <1>2, <1>7, <1>8 DEF IInv

LEMMA CrashKeepsIInv ==
  ASSUME IInv, Crash
  PROVE  IInv'
<1>1. TypesInv /\ UsageInv /\ SearchInv
  BY DEF IInv
<1>2. /\ queue' = NewQueue /\ queueSearchReport' = NewQueue /\ queueUsageReport' = NewQueue
      /\ creating' = {} /\ inserting' = {} /\ calling' = {} /\ log' = log
      /\ crashes' = crashes + 1 /\ crashes < MaxCrashes
  BY DEF Crash
<1>3. Events' = Events
  BY <1>2 DEF Events
<1>4. PICK created \in SUBSET creating : eventLogs' = eventLogs \cup UNION created
  BY DEF Crash
<1>5. PICK inserted \in SUBSET inserting :
        /\ searchReport' = searchReport \cup UNION inserted
        /\ searchLost' = searchLost \cup ToSet(queue.items) \cup Buffered(queueSearchReport)
                           \cup UNION (inserting \ inserted)
  BY DEF Crash
<1>6. PICK called \in SUBSET calling :
        /\ usageReport' = usageReport \cup UNION called
        /\ usageLost' = usageLost \cup ToSet(queue.items) \cup (UNION creating)
                          \cup Buffered(queueUsageReport) \cup UNION (calling \ called)
  BY DEF Crash
<1>7. /\ NewQueue \in QueueOf(Nat) /\ NewQueue \in QueueOf(SUBSET Nat) /\ NewQueue.items = <<>>
      /\ DOMAIN <<>> = {} /\ ToSet(<<>>) = {}
  BY NewQueueType DEF ToSet
<1>8. TypesInv'
  BY <1>1, <1>2, <1>7, EventAssumption DEF TypesInv
<1>9. IsInjective(queue'.items) /\ ApartIn(queueUsageReport'.items)
      /\ ApartIn(queueSearchReport'.items)
  BY <1>2, <1>7 DEF IsInjective, ApartIn
<1>10. /\ ToSet(queue'.items) = {} /\ ToSet(queueUsageReport'.items) = {}
       /\ ToSet(queueSearchReport'.items) = {}
  BY <1>2, <1>7
<1>11. UsageInv'
  <2>1. UNION (calling \ called) = (UNION calling) \ (UNION called)
        /\ UNION called \subseteq UNION calling
    BY <1>1, WithoutGroups DEF UsageInv
  <2>2. OnWay(Events, {}, {}, {}, {}, usageReport \cup UNION called,
              usageLost \cup ToSet(queue.items) \cup (UNION creating)
                \cup Buffered(queueUsageReport) \cup ((UNION calling) \ (UNION called)))
    <3>1. OnWay(Events, ToSet(queue.items), UNION creating, Buffered(queueUsageReport),
                UNION calling, usageReport, usageLost)
      BY <1>1 DEF UsageInv
    <3>2. PICK ER, EL : ER = usageReport /\ EL = usageLost
      OBVIOUS
    <3>3. PICK EK, ED : EK = UNION calling /\ ED = UNION called
      OBVIOUS
    <3>4. ED \subseteq EK
      BY <2>1, <3>3
    <3>5. PICK EA, EC, EU :
            /\ EA = ToSet(queue.items) /\ EC = UNION creating
            /\ EU = Buffered(queueUsageReport)
      OBVIOUS
    <3>6. OnWay(Events, EA, EC, EU, EK, ER, EL)
      BY <3>1, <3>2, <3>5, <3>3
    <3>7. OnWay(Events, {}, {}, {}, {}, ER \cup ED, EL \cup EA \cup EC \cup EU \cup (EK \ ED))
      BY <3>6, <3>4, CrashMoves
    <3>8. QED
      BY <3>2, <3>5, <3>7, <3>3
  <2>3. usageReport' \subseteq eventLogs'
    BY <1>1, <1>4, <1>6, <2>1 DEF UsageInv
  <2>4. eventLogs' \subseteq Events
    BY <1>1, <1>4 DEF UsageInv, OnWay
  <2>5. UNION {} = {} /\ Apart({})
    BY DEF Apart
  <2>6. OnWay(Events', ToSet(queue'.items), UNION creating', Buffered(queueUsageReport'),
              UNION calling', usageReport', usageLost')
    BY <1>2, <1>3, <1>6, <1>10, <2>1, <2>2, <2>5 DEF Buffered
  <2>7. QED
    BY <1>2, <1>3, <1>9, <1>10, <2>3, <2>4, <2>5, <2>6 DEF UsageInv, Buffered
<1>12. SearchInv'
  <2>1. UNION (inserting \ inserted) = (UNION inserting) \ (UNION inserted)
        /\ UNION inserted \subseteq UNION inserting
    BY <1>1, WithoutGroups DEF SearchInv
  <2>2. OnWay(Events, {}, {}, {}, {}, searchReport \cup UNION inserted,
              searchLost \cup ToSet(queue.items) \cup {}
                \cup Buffered(queueSearchReport) \cup ((UNION inserting) \ (UNION inserted)))
    <3>1. OnWay(Events, ToSet(queue.items), {}, Buffered(queueSearchReport),
                UNION inserting, searchReport, searchLost)
      BY <1>1 DEF SearchInv
    <3>2. PICK ER, EL : ER = searchReport /\ EL = searchLost
      OBVIOUS
    <3>3. PICK EK, ED : EK = UNION inserting /\ ED = UNION inserted
      OBVIOUS
    <3>4. ED \subseteq EK
      BY <2>1, <3>3
    <3>5. PICK EA, EC, EU :
            /\ EA = ToSet(queue.items) /\ EC = {}
            /\ EU = Buffered(queueSearchReport)
      OBVIOUS
    <3>6. OnWay(Events, EA, EC, EU, EK, ER, EL)
      BY <3>1, <3>2, <3>5, <3>3
    <3>7. OnWay(Events, {}, {}, {}, {}, ER \cup ED, EL \cup EA \cup EC \cup EU \cup (EK \ ED))
      BY <3>6, <3>4, CrashMoves
    <3>8. QED
      BY <3>2, <3>5, <3>7, <3>3
  <2>3. UNION {} = {} /\ Apart({})
    BY DEF Apart
  <2>4. searchLost' = searchLost \cup ToSet(queue.items) \cup {}
                        \cup Buffered(queueSearchReport) \cup ((UNION inserting) \ (UNION inserted))
    BY <1>5, <2>1
  <2>5. OnWay(Events', ToSet(queue'.items), {}, Buffered(queueSearchReport'),
              UNION inserting', searchReport', searchLost')
    BY <1>2, <1>3, <1>5, <1>10, <2>2, <2>3, <2>4 DEF Buffered
  <2>6. QED
    BY <1>2, <1>9, <1>10, <2>3, <2>5 DEF SearchInv, Buffered
<1>13. QED
  BY <1>8, <1>9, <1>11, <1>12 DEF IInv

LEMMA StepKeepsIInv == IInv /\ [Next]_vars => IInv'
<1>1. SUFFICES ASSUME IInv, [Next]_vars PROVE IInv'
  OBVIOUS
<1>2. CASE \E a \in Accounts : LogEvent(a)
  BY <1>1, <1>2, LogEventKeepsIInv
<1>3. CASE Timeout
  BY <1>1, <1>3, MasterTimeoutKeepsIInv, UsageTimeoutKeepsIInv, SearchTimeoutKeepsIInv
  DEF Timeout
<1>4. CASE Database
  <2>1. CASE \E g \in creating : CreateLands(g) \/ CreateFails(g)
    BY <1>1, <2>1, CreateLandsKeepsIInv, CreateFailsKeepsIInv
  <2>2. CASE \E c \in calling : CallEnds(c)
    BY <1>1, <2>2, CallEndsKeepsIInv
  <2>3. CASE \E g \in inserting : InsertEnds(g)
    BY <1>1, <2>3, InsertEndsKeepsIInv
  <2>4. QED
    BY <1>4, <2>1, <2>2, <2>3 DEF Database
<1>5. CASE Crash
  BY <1>1, <1>5, CrashKeepsIInv
<1>6. CASE UNCHANGED vars
  BY <1>1, <1>6 DEF vars, queues, tables, IInv, TypesInv, UsageInv, SearchInv, Buffered, Events,
     SameTenant, SameUser
<1>7. QED
  BY <1>1, <1>2, <1>3, <1>4, <1>5, <1>6 DEF Next

(* The inductive invariant: what is where on the two ways, and whose.      *)
THEOREM PipelineInvariant == Spec => []IInv
BY InitIInv, StepKeepsIInv, PTL DEF Spec

(* Whatever fails and whenever the server goes down, each event is at      *)
(* exactly one place of the way to each report, for every size of the      *)
(* queues and any number of events, tenants and crashes.                   *)
THEOREM EventsCountedOnce == Spec => []CountedOnce
<1>1. IInv => CountedOnce
  BY IInvImpliesCountedOnce
<1>2. QED
  BY <1>1, PipelineInvariant, PTL

(* No statement mixes tenants and no call mixes users.                     *)
THEOREM TenantsStayApart == Spec => []TenantsApart
<1>1. IInv => TenantsApart
  BY IInvImpliesTenantsApart
<1>2. QED
  BY <1>1, PipelineInvariant, PTL
-----------------------------------------------------------------------------
(* The usage report.  A sum's recursive definition has a value, for every  *)
(* number of terms.                                                        *)
SumFrom(f, r, n) == r = [k \in 0 .. n |-> IF k = 0 THEN 0 ELSE r[k - 1] + f[k]]

LEMMA SumExists ==
  ASSUME NEW f, NEW n \in Nat
  PROVE  \E r : SumFrom(f, r, n)
<1> DEFINE P == { m \in Nat : \E r : SumFrom(f, r, m) }
<1>1. 0 \in P
  <2> DEFINE r == [k \in 0 .. 0 |-> 0]
  <2>1. SumFrom(f, r, 0)
    BY DEF SumFrom
  <2>2. QED
    BY <2>1
<1>2. ASSUME NEW m \in P PROVE m + 1 \in P
  <2>1. PICK r : SumFrom(f, r, m)
    OBVIOUS
  <2> DEFINE s == [k \in 0 .. m + 1 |-> IF k = m + 1 THEN r[m] + f[m + 1] ELSE r[k]]
  <2>2. m \in Nat /\ (m + 1) - 1 = m /\ m + 1 # 0
    OBVIOUS
  <2>3. \A k \in 0 .. m : r[k] = IF k = 0 THEN 0 ELSE r[k - 1] + f[k]
    BY <2>1 DEF SumFrom
  <2>4. ASSUME NEW k \in 0 .. m + 1
        PROVE  s[k] = IF k = 0 THEN 0 ELSE s[k - 1] + f[k]
    <3>1. CASE k = m + 1
      BY <2>2, <3>1
    <3>2. CASE k # m + 1
      <4>1. k \in 0 .. m /\ s[k] = r[k]
        BY <2>2, <3>2
      <4>2. k # 0 => s[k - 1] = r[k - 1]
        BY <2>2, <4>1
      <4>3. QED
        BY <2>3, <4>1, <4>2
    <3>3. QED
      BY <3>1, <3>2
  <2>5. SumFrom(f, s, m + 1)
    BY <2>4 DEF SumFrom
  <2>6. QED
    BY <2>2, <2>5
<1>3. P = Nat
  <2> HIDE DEF P
  <2>1. P \in SUBSET Nat
    BY DEF P
  <2>2. QED
    BY <1>1, <1>2, <2>1, SetInduction
<1>4. QED
  BY <1>3

(* The partial sums that lead to a sum of naturals.                        *)
PartialSums(f, r, n) ==
  /\ \A k \in 0 .. n : r[k] \in Nat
  /\ r[0] = 0
  /\ \A k \in 1 .. n : r[k] = r[k - 1] + f[k]

LEMMA SumHasParts ==
  ASSUME NEW n \in Nat, NEW f \in [1 .. n -> Nat]
  PROVE  \E r : PartialSums(f, r, n) /\ SumOf(f, n) = r[n]
<1> DEFINE r == CHOOSE r : SumFrom(f, r, n)
<1>1. SumFrom(f, r, n)
  BY SumExists
<1>2. SumOf(f, n) = r[n]
  BY DEF SumOf, SumFrom
<1> HIDE DEF r
<1>3. \A k \in 0 .. n : r[k] = IF k = 0 THEN 0 ELSE r[k - 1] + f[k]
  BY <1>1 DEF SumFrom
<1>4. r[0] = 0 /\ \A k \in 1 .. n : r[k] = r[k - 1] + f[k]
  BY <1>3
<1> DEFINE P == { k \in Nat : k <= n => r[k] \in Nat }
<1>5. 0 \in P
  BY <1>4
<1>6. ASSUME NEW k \in P PROVE k + 1 \in P
  <2>1. CASE k + 1 <= n
    <3>1. k + 1 \in 1 .. n /\ k <= n /\ (k + 1) - 1 = k
      BY <2>1
    <3>2. r[k + 1] = r[k] + f[k + 1]
      BY <1>4, <3>1
    <3>3. r[k] \in Nat /\ f[k + 1] \in Nat
      BY <3>1
    <3>4. QED
      BY <3>2, <3>3
  <2>2. QED
    BY <2>1
<1>7. P = Nat
  <2> HIDE DEF P
  <2>1. P \in SUBSET Nat
    BY DEF P
  <2>2. QED
    BY <1>5, <1>6, <2>1, SetInduction
<1>8. \A k \in 0 .. n : r[k] \in Nat
  <2>1. TAKE k \in 0 .. n
  <2>2. k \in P
    BY <1>7
  <2>3. QED
    BY <2>2
<1>9. PartialSums(f, r, n)
  BY <1>4, <1>8 DEF PartialSums
<1>10. QED
  BY <1>2, <1>9

LEMMA SumIsNat ==
  ASSUME NEW n \in Nat, NEW f \in [1 .. n -> Nat]
  PROVE  SumOf(f, n) \in Nat
BY SumHasParts DEF PartialSums

(* A sum grows by what one of its terms grows; zeros after it add nothing. *)
TermMoves(f, n, g, m, c, d) ==
  /\ \A k \in 1 .. n : g[k] = IF k = c THEN f[k] + d ELSE f[k]
  /\ \A k \in (n + 1) .. m : g[k] = 0

LEMMA SumMoves ==
  ASSUME NEW n \in Nat, NEW m \in Nat, n <= m,
         NEW f \in [1 .. n -> Nat], NEW g \in [1 .. m -> Nat],
         NEW c \in 1 .. m, NEW d \in Nat, c \in 1 .. n \/ d = 0,
         TermMoves(f, n, g, m, c, d)
  PROVE  SumOf(g, m) = SumOf(f, n) + d
<1>1. PICK r : PartialSums(f, r, n) /\ SumOf(f, n) = r[n]
  BY SumHasParts
<1>2. PICK s : PartialSums(g, s, m) /\ SumOf(g, m) = s[m]
  BY SumHasParts
<1> DEFINE P == { k \in Nat : k <= m => s[k] = (IF k <= n THEN r[k] ELSE r[n])
                                               + (IF c <= k THEN d ELSE 0) }
<1>3. 0 \in P
  BY <1>1, <1>2 DEF PartialSums
<1>4. ASSUME NEW k \in P PROVE k + 1 \in P
  <2>1. SUFFICES ASSUME k + 1 <= m
                 PROVE  s[k + 1] = (IF k + 1 <= n THEN r[k + 1] ELSE r[n])
                                   + (IF c <= k + 1 THEN d ELSE 0)
    OBVIOUS
  <2>2. k \in Nat /\ k \in 0 .. m /\ k + 1 \in 1 .. m /\ (k + 1) - 1 = k
    BY <2>1
  <2>3. s[k + 1] = s[k] + g[k + 1]
    BY <1>2, <2>2 DEF PartialSums
  <2>4. s[k] = (IF k <= n THEN r[k] ELSE r[n]) + (IF c <= k THEN d ELSE 0)
    BY <2>2
  <2>5. CASE k + 1 <= n
    <3>1. k + 1 \in 1 .. n /\ k <= n /\ k \in 0 .. n
      BY <2>2, <2>5
    <3>2. r[k + 1] = r[k] + f[k + 1] /\ r[k] \in Nat
      BY <1>1, <2>2, <3>1 DEF PartialSums
    <3>3. f[k + 1] \in Nat /\ g[k + 1] = IF k + 1 = c THEN f[k + 1] + d ELSE f[k + 1]
      BY <3>1 DEF TermMoves
    <3>4. QED
      BY <2>2, <2>3, <2>4, <2>5, <3>1, <3>2, <3>3
  <2>6. CASE ~(k + 1 <= n)
    <3>1. k + 1 \in (n + 1) .. m /\ n <= k
      BY <2>2, <2>6
    <3>2. g[k + 1] = 0
      BY <3>1 DEF TermMoves
    <3>3. r[n] \in Nat /\ (k <= n => k = n)
      BY <1>1, <2>2, <3>1 DEF PartialSums
    <3>4. QED
      BY <2>2, <2>3, <2>4, <2>6, <3>1, <3>2, <3>3
  <2>7. QED
    BY <2>5, <2>6
<1>5. P = Nat
  <2> HIDE DEF P
  <2>1. P \in SUBSET Nat
    BY DEF P
  <2>2. QED
    BY <1>3, <1>4, <2>1, SetInduction
<1>6. s[m] = (IF m <= n THEN r[m] ELSE r[n]) + (IF c <= m THEN d ELSE 0)
  <2>1. m \in P
    BY <1>5
  <2>2. QED
    BY <2>1
<1>7. (IF m <= n THEN r[m] ELSE r[n]) = r[n] /\ c <= m
  OBVIOUS
<1>8. QED
  BY <1>1, <1>2, <1>6, <1>7

(* The states of a call, and what calls cs added to a counter of a report. *)
Counters == {"searches", "other"}
CallStates ==
  [pc : {"failed"}] \cup [pc : {"started", "done"}, data : Usage]
    \cup [pc : {"selected"}, data : Usage, row : Nat, old : Row]

OfReport(v, u) == v.user = u.user /\ v.day = u.day

AddedBy(cs, u, counter) ==
  [c \in DOMAIN cs |->
     IF cs[c].pc = "done" /\ OfReport(cs[c].data, u) THEN cs[c].data[counter] ELSE 0]

TotalBy(cs, u, counter) == SumOf(AddedBy(cs, u, counter), Len(cs))

RowsOf(tab, u) == { i \in DOMAIN tab : OfReport(tab[i], u) }

LEMMA UsageIsRow ==
  ASSUME NEW u \in Usage
  PROVE  /\ u \in Row
         /\ \A counter \in Counters : u[counter] \in Nat
<1>1. PICK v \in Users, d \in Days, n \in Counts :
        u = [user |-> v, day |-> d, searches |-> n[1], other |-> n[2],
             lastSearch |-> n[1] > 0]
  BY DEF Usage
<1>2. n[1] \in Nat /\ n[2] \in Nat
  BY BoundAssumption
<1>3. (n[1] > 0) \in BOOLEAN
  OBVIOUS
<1>4. u \in Row
  BY <1>1, <1>2, <1>3 DEF Row
<1>5. u["searches"] = n[1] /\ u["other"] = n[2]
  BY <1>1
<1>6. QED
  BY <1>2, <1>4, <1>5 DEF Counters

LEMMA CallParts ==
  ASSUME NEW s \in CallStates
  PROVE  /\ s.pc \in {"failed", "started", "selected", "done"}
         /\ s.pc # "failed" => s.data \in Usage
         /\ s.pc = "selected" => s.row \in Nat /\ s.old \in Row
BY DEF CallStates

LEMMA AddedType ==
  ASSUME NEW cs \in Seq(CallStates), NEW u, NEW counter \in Counters
  PROVE  Len(cs) \in Nat /\ AddedBy(cs, u, counter) \in [1 .. Len(cs) -> Nat]
<1>1. Len(cs) \in Nat /\ DOMAIN cs = 1 .. Len(cs)
  OBVIOUS
<1>2. ASSUME NEW c \in DOMAIN cs, cs[c].pc = "done"
      PROVE  cs[c].data[counter] \in Nat
  BY <1>2, CallParts, UsageIsRow
<1>3. QED
  BY <1>1, <1>2 DEF AddedBy

LEMMA TotalIsNat ==
  ASSUME NEW cs \in Seq(CallStates), NEW u, NEW counter \in Counters
  PROVE  TotalBy(cs, u, counter) \in Nat
BY AddedType, SumIsNat DEF TotalBy

LEMMA TotalOfSameReport ==
  ASSUME NEW cs, NEW u, NEW v, OfReport(u, v), NEW counter
  PROVE  TotalBy(cs, u, counter) = TotalBy(cs, v, counter)
<1>1. AddedBy(cs, u, counter) = AddedBy(cs, v, counter)
  BY DEF AddedBy, OfReport
<1>2. QED
  BY <1>1 DEF TotalBy

(* One call moves on, or a new one comes: the totals grow by what it adds  *)
(* when it commits.                                                        *)
Contribution(s, u, counter) ==
  IF s.pc = "done" /\ OfReport(s.data, u) THEN s.data[counter] ELSE 0

LEMMA TotalMoves ==
  ASSUME NEW cs \in Seq(CallStates), NEW ds \in Seq(CallStates), Len(cs) <= Len(ds),
         NEW c \in DOMAIN ds,
         c \in DOMAIN cs => cs[c].pc # "done",
         c \notin DOMAIN cs => ds[c].pc # "done",
         \A b \in DOMAIN cs \ {c} : ds[b] = cs[b],
         \A b \in DOMAIN ds \ DOMAIN cs : ds[b].pc # "done",
         NEW u, NEW counter \in Counters
  PROVE  /\ Contribution(ds[c], u, counter) \in Nat
         /\ TotalBy(ds, u, counter)
              = TotalBy(cs, u, counter) + Contribution(ds[c], u, counter)
<1> DEFINE f == AddedBy(cs, u, counter)
           g == AddedBy(ds, u, counter)
           d == Contribution(ds[c], u, counter)
<1>1. /\ Len(cs) \in Nat /\ f \in [1 .. Len(cs) -> Nat]
      /\ Len(ds) \in Nat /\ g \in [1 .. Len(ds) -> Nat]
  BY AddedType
<1>2. DOMAIN cs = 1 .. Len(cs) /\ DOMAIN ds = 1 .. Len(ds)
  OBVIOUS
<1>3. \A b \in DOMAIN cs : f[b] = Contribution(cs[b], u, counter)
  BY DEF AddedBy, Contribution
<1>4. \A b \in DOMAIN ds : g[b] = Contribution(ds[b], u, counter)
  BY DEF AddedBy, Contribution
<1>5. \A s : s.pc # "done" => Contribution(s, u, counter) = 0
  BY DEF Contribution
<1> HIDE DEF f, g
<1>6. d = g[c]
  BY <1>4
<1> HIDE DEF d
<1>7. d \in Nat /\ c \in 1 .. Len(ds)
  BY <1>1, <1>2, <1>6
<1>8. c \in 1 .. Len(cs) \/ d = 0
  BY <1>2, <1>4, <1>5, <1>6
<1>9. ASSUME NEW b \in 1 .. Len(cs)
      PROVE  g[b] = IF b = c THEN f[b] + d ELSE f[b]
  <2>1. b \in DOMAIN cs /\ b \in DOMAIN ds
    BY <1>1, <1>2
  <2>2. CASE b = c
    <3>1. f[b] = 0
      BY <1>3, <1>5, <2>1, <2>2
    <3>2. QED
      BY <1>6, <1>7, <2>2, <3>1
  <2>3. CASE b # c
    BY <1>3, <1>4, <2>1, <2>3
  <2>4. QED
    BY <2>2, <2>3
<1>10. \A b \in (Len(cs) + 1) .. Len(ds) : g[b] = 0
  <2>1. TAKE b \in (Len(cs) + 1) .. Len(ds)
  <2>2. b \in DOMAIN ds \ DOMAIN cs
    BY <1>1, <1>2
  <2>3. QED
    BY <1>4, <1>5, <2>2
<1>11. SumOf(g, Len(ds)) = SumOf(f, Len(cs)) + d
  <2> DEFINE n == Len(cs)
             m == Len(ds)
  <2>1. n \in Nat /\ m \in Nat /\ n <= m /\ f \in [1 .. n -> Nat] /\ g \in [1 .. m -> Nat]
    BY <1>1
  <2>2. TermMoves(f, n, g, m, c, d)
    BY <1>9, <1>10 DEF TermMoves
  <2>3. c \in 1 .. m /\ d \in Nat /\ (c \in 1 .. n \/ d = 0)
    BY <1>7, <1>8
  <2> HIDE DEF n, m
  <2>4. SumOf(g, m) = SumOf(f, n) + d
    BY <2>1, <2>2, <2>3, SumMoves
  <2>5. QED
    BY <2>4 DEF n, m
<1>12. TotalBy(ds, u, counter) = SumOf(g, Len(ds)) /\ TotalBy(cs, u, counter) = SumOf(f, Len(cs))
  BY DEF f, g, TotalBy
<1>13. d = Contribution(ds[c], u, counter)
  BY DEF d
<1>14. QED
  BY <1>7, <1>11, <1>12, <1>13

(* While a call is selected, what it read is still what its row holds: the *)
(* lock keeps others from it.                                              *)
StillReads(tab, cs) ==
  \A c \in DOMAIN cs :
    cs[c].pc = "selected" /\ cs[c].row # NoRow =>
      /\ cs[c].row \in DOMAIN tab
      /\ OfReport(tab[cs[c].row], cs[c].data)
      /\ cs[c].old = tab[cs[c].row]

RowsAddUp(tab, cs) ==
  \A i \in DOMAIN tab, counter \in Counters :
    /\ tab[i][counter] <= TotalBy(cs, tab[i], counter)
    /\ RowsOf(tab, tab[i]) = {i} => tab[i][counter] = TotalBy(cs, tab[i], counter)

(* Nothing was added to a report that has no row.                          *)
NoRowNoCall(tab, cs) ==
  \A u \in Row, counter \in Counters :
    RowsOf(tab, u) = {} => TotalBy(cs, u, counter) = 0

ReportIInv ==
  /\ table \in Seq(Row)
  /\ call \in Seq(CallStates)
  /\ \A c \in DOMAIN call : call[c].pc = "selected" => call[c].row \in 0 .. Len(table)
  /\ StillReads(table, call)
  /\ RowsAddUp(table, call)
  /\ NoRowNoCall(table, call)

LEMMA TotalsAgree ==
  ASSUME NEW u, NEW counter
  PROVE  Total(u, counter) = TotalBy(call, u, counter)
<1>1. Added(u, counter) = AddedBy(call, u, counter)
  BY DEF Added, AddedBy, Committed, OfReport
<1>2. QED
  BY <1>1 DEF Total, TotalBy

LEMMA RowCounters ==
  ASSUME NEW r \in Row, NEW counter \in Counters
  PROVE  r[counter] \in Nat
BY DEF Row, Counters

LEMMA ReportIInvImpliesCallsAddUp == ReportIInv => CallsAddUp
<1>1. SUFFICES ASSUME ReportIInv PROVE CallsAddUp
  OBVIOUS
<1>2. ASSUME NEW c \in DOMAIN call
      PROVE  \/ call[c] = [pc |-> "failed"]
             \/ call[c] \in [pc : {"started", "done"}, data : Usage]
             \/ call[c] \in [pc : {"selected"}, data : Usage, row : 0 .. Len(table),
                             old : Row]
  <2>1. call[c] \in CallStates
    BY <1>1 DEF ReportIInv
  <2>2. CASE call[c] \in [pc : {"failed"}]
    BY <2>2
  <2>3. CASE call[c] \in [pc : {"selected"}, data : Usage, row : Nat, old : Row]
    <3>1. call[c].row \in 0 .. Len(table)
      BY <1>1, <2>3 DEF ReportIInv
    <3>2. QED
      BY <2>3, <3>1
  <2>4. QED
    BY <2>1, <2>2, <2>3 DEF CallStates
<1>3. ReportTypeOK
  BY <1>1, <1>2 DEF ReportTypeOK, ReportIInv
<1>4. ASSUME NEW i \in DOMAIN table, NEW counter \in {"searches", "other"}
      PROVE  /\ table[i][counter] <= Total(table[i], counter)
             /\ Reports(table[i]) = {i} => table[i][counter] = Total(table[i], counter)
  <2>1. Reports(table[i]) = RowsOf(table, table[i])
    BY DEF Reports, SameReport, RowsOf, OfReport
  <2>2. QED
    BY <1>1, <2>1, TotalsAgree DEF ReportIInv, RowsAddUp, Counters
<1>5. QED
  BY <1>3, <1>4 DEF CallsAddUp

LEMMA InitReportIInv == ReportInit => ReportIInv
<1>1. SUFFICES ASSUME ReportInit PROVE ReportIInv
  OBVIOUS
<1>2. table = <<>> /\ call = <<>> /\ Len(<<>>) = 0 /\ DOMAIN <<>> = {}
  BY <1>1 DEF ReportInit
<1>3. ASSUME NEW u, NEW counter \in Counters PROVE TotalBy(<<>>, u, counter) = 0
  <2> DEFINE f == AddedBy(<<>>, u, counter)
  <2>1. f \in [1 .. 0 -> Nat]
    <3>1. <<>> \in Seq(CallStates) /\ Len(<<>>) = 0
      OBVIOUS
    <3>2. QED
      BY <3>1, AddedType
  <2>2. SumOf(f, 0) = 0
    <3> HIDE DEF f
    <3>1. PICK r : PartialSums(f, r, 0) /\ SumOf(f, 0) = r[0]
      BY <2>1, SumHasParts
    <3>2. QED
      BY <3>1 DEF PartialSums
  <2>3. QED
    BY <1>2, <2>2 DEF TotalBy
<1>4. StillReads(<<>>, <<>>) /\ RowsAddUp(<<>>, <<>>)
  BY <1>2 DEF StillReads, RowsAddUp
<1>5. NoRowNoCall(<<>>, <<>>)
  BY <1>3 DEF NoRowNoCall
<1>6. QED
  BY <1>2, <1>4, <1>5 DEF ReportIInv

(* Steps that leave the table alone and commit nothing.                    *)
LEMMA NothingAdded ==
  ASSUME ReportIInv, NEW ds \in Seq(CallStates), Len(call) <= Len(ds),
         NEW c \in DOMAIN ds, ds[c].pc # "done",
         c \in DOMAIN call => call[c].pc # "done",
         \A b \in DOMAIN call \ {c} : ds[b] = call[b],
         \A b \in DOMAIN ds \ DOMAIN call : b = c
  PROVE  RowsAddUp(table, ds) /\ NoRowNoCall(table, ds)
<1>1. ASSUME NEW u, NEW counter \in Counters
      PROVE  TotalBy(ds, u, counter) = TotalBy(call, u, counter)
  <2>1. Contribution(ds[c], u, counter) = 0
    BY DEF Contribution
  <2>2. call \in Seq(CallStates)
    BY DEF ReportIInv
  <2>3. TotalBy(ds, u, counter)
          = TotalBy(call, u, counter) + Contribution(ds[c], u, counter)
    BY <2>2, TotalMoves
  <2>4. QED
    BY <2>1, <2>2, <2>3, TotalIsNat
<1>2. QED
  BY <1>1 DEF ReportIInv, RowsAddUp, NoRowNoCall

LEMMA StartKeepsReportIInv ==
  ASSUME ReportIInv, NEW u \in Usage, Start(u)
  PROVE  ReportIInv'
<1> DEFINE s == [pc |-> "started", data |-> u]
           n == Len(call) + 1
<1>1. table' = table /\ call' = Append(call, s)
  BY DEF Start
<1>2. s \in CallStates /\ s.pc = "started"
  BY DEF CallStates
<1>3. table \in Seq(Row) /\ call \in Seq(CallStates)
  BY DEF ReportIInv
<1> HIDE DEF s
<1>4. /\ call' \in Seq(CallStates)
      /\ Len(call) <= Len(call')
      /\ DOMAIN call' = DOMAIN call \cup {n} /\ n \notin DOMAIN call
      /\ call'[n] = s
      /\ \A b \in DOMAIN call : call'[b] = call[b]
  BY <1>1, <1>2, <1>3
<1> HIDE DEF n
<1>5. RowsAddUp(table, call') /\ NoRowNoCall(table, call')
  BY <1>2, <1>4, NothingAdded
<1>6. StillReads(table, call')
  BY <1>2, <1>4 DEF ReportIInv, StillReads
<1>7. \A c \in DOMAIN call' : call'[c].pc = "selected" => call'[c].row \in 0 .. Len(table)
  BY <1>2, <1>4 DEF ReportIInv
<1>8. QED
  BY <1>1, <1>3, <1>4, <1>5, <1>6, <1>7 DEF ReportIInv

(* A call that moves on without writing and, if it has selected, holds     *)
(* what its row says.                                                      *)
LEMMA MoveKeepsReportIInv ==
  ASSUME ReportIInv, NEW c \in DOMAIN call, NEW s \in CallStates,
         call[c].pc # "done", s.pc # "done",
         call' = [call EXCEPT ![c] = s], table' = table,
         s.pc = "selected" => /\ s.row \in 0 .. Len(table)
                              /\ s.row # NoRow => /\ s.row \in DOMAIN table
                                                  /\ OfReport(table[s.row], s.data)
                                                  /\ s.old = table[s.row]
  PROVE  ReportIInv'
<1>1. table \in Seq(Row) /\ call \in Seq(CallStates)
  BY DEF ReportIInv
<1>2. /\ call' \in Seq(CallStates)
      /\ Len(call) <= Len(call')
      /\ DOMAIN call' = DOMAIN call
      /\ call'[c] = s
      /\ \A b \in DOMAIN call \ {c} : call'[b] = call[b]
  BY <1>1
<1>3. RowsAddUp(table, call') /\ NoRowNoCall(table, call')
  BY <1>2, NothingAdded
<1>4. StillReads(table, call')
  <2>1. SUFFICES ASSUME NEW b \in DOMAIN call', call'[b].pc = "selected",
                        call'[b].row # NoRow
                 PROVE  /\ call'[b].row \in DOMAIN table
                        /\ OfReport(table[call'[b].row], call'[b].data)
                        /\ call'[b].old = table[call'[b].row]
    BY DEF StillReads
  <2>2. CASE b = c
    BY <1>2, <2>1, <2>2
  <2>3. CASE b # c
    BY <1>2, <2>1, <2>3 DEF ReportIInv, StillReads
  <2>4. QED
    BY <2>2, <2>3
<1>5. ASSUME NEW b \in DOMAIN call', call'[b].pc = "selected"
      PROVE  call'[b].row \in 0 .. Len(table)
  <2>1. CASE b = c
    BY <1>2, <1>5, <2>1
  <2>2. CASE b # c
    BY <1>2, <1>5, <2>2 DEF ReportIInv
  <2>3. QED
    BY <2>1, <2>2
<1>6. QED
  BY <1>1, <1>2, <1>3, <1>4, <1>5 DEF ReportIInv

LEMMA SelectKeepsReportIInv ==
  ASSUME ReportIInv, NEW c \in DOMAIN call, Select(c)
  PROVE  ReportIInv'
<1> DEFINE u == call[c].data
<1>1. call[c].pc = "started" /\ table' = table
  BY DEF Select
<1>2. u \in Usage /\ table \in Seq(Row) /\ u \in Row
  BY <1>1, CallParts, UsageIsRow DEF ReportIInv
<1>3. PICK i \in IF Reports(u) = {} THEN {NoRow} ELSE Reports(u) \ LockedByOther(c) :
        call' = [call EXCEPT ![c] = [pc |-> "selected", data |-> u, row |-> i,
                                     old |-> IF i = NoRow THEN u ELSE table[i]]]
  BY DEF Select
<1> DEFINE s == [pc |-> "selected", data |-> u, row |-> i,
                 old |-> IF i = NoRow THEN u ELSE table[i]]
<1>4. i \in 0 .. Len(table) /\ (i # NoRow => i \in DOMAIN table /\ OfReport(table[i], u))
  BY <1>2, <1>3 DEF Reports, SameReport, OfReport, NoRow
<1>5. s \in CallStates
  <2>1. i \in Nat
    BY <1>2, <1>4
  <2>2. (IF i = NoRow THEN u ELSE table[i]) \in Row
    BY <1>2, <1>4
  <2>3. QED
    BY <1>2, <2>1, <2>2 DEF CallStates
<1>6. call' = [call EXCEPT ![c] = s]
  BY <1>3
<1>7. /\ s.pc = "selected" /\ s.row = i /\ s.data = u
      /\ s.row # NoRow => s.old = table[i]
  OBVIOUS
<1> HIDE DEF s
<1>8. QED
  BY <1>1, <1>4, <1>5, <1>6, <1>7, MoveKeepsReportIInv

LEMMA FailureKeepsReportIInv ==
  ASSUME ReportIInv, NEW c \in DOMAIN call, call[c].pc # "done",
         call' = Failed(c), table' = table
  PROVE  ReportIInv'
<1> DEFINE s == [pc |-> "failed"]
<1>1. s \in CallStates /\ s.pc = "failed"
  BY DEF CallStates
<1>2. call' = [call EXCEPT ![c] = s]
  BY DEF Failed
<1> HIDE DEF s
<1>3. QED
  BY <1>1, <1>2, MoveKeepsReportIInv

(* A commit adds its counts to the totals of its report and to no other.   *)
LEMMA CommitAdds ==
  ASSUME ReportIInv, NEW c \in DOMAIN call, call[c].pc = "selected", call' = Done(c)
  PROVE  /\ call' \in Seq(CallStates)
         /\ \A b \in DOMAIN call' : call'[b].pc = "selected" =>
              b \in DOMAIN call \ {c} /\ call'[b] = call[b]
         /\ \A u : \A counter \in Counters :
              TotalBy(call', u, counter)
                = TotalBy(call, u, counter)
                    + IF OfReport(call[c].data, u) THEN call[c].data[counter] ELSE 0
<1> DEFINE s == [pc |-> "done", data |-> call[c].data]
<1>1. call \in Seq(CallStates) /\ call[c].data \in Usage
  BY CallParts DEF ReportIInv
<1>2. s \in CallStates /\ s.pc = "done" /\ s.data = call[c].data
  BY <1>1 DEF CallStates
<1>3. call' = [call EXCEPT ![c] = s]
  BY DEF Done
<1> HIDE DEF s
<1>4. /\ call' \in Seq(CallStates)
      /\ Len(call) = Len(call') /\ DOMAIN call' = DOMAIN call
      /\ Len(call) <= Len(call')
      /\ call'[c] = s
      /\ \A b \in DOMAIN call \ {c} : call'[b] = call[b]
  BY <1>1, <1>2, <1>3
<1>5. \A b \in DOMAIN call' : call'[b].pc = "selected" =>
        b \in DOMAIN call \ {c} /\ call'[b] = call[b]
  BY <1>2, <1>4
<1>6. ASSUME NEW u, NEW counter \in Counters
      PROVE  TotalBy(call', u, counter)
               = TotalBy(call, u, counter)
                   + IF OfReport(call[c].data, u) THEN call[c].data[counter] ELSE 0
  <2>1. TotalBy(call', u, counter)
          = TotalBy(call, u, counter) + Contribution(call'[c], u, counter)
    BY <1>1, <1>4, TotalMoves
  <2>2. Contribution(call'[c], u, counter)
          = IF OfReport(call[c].data, u) THEN call[c].data[counter] ELSE 0
    BY <1>2, <1>4 DEF Contribution
  <2>3. QED
    BY <2>1, <2>2
<1>7. QED
  BY <1>4, <1>5, <1>6

LEMMA InsertKeepsReportIInv ==
  ASSUME ReportIInv, NEW c \in DOMAIN call, Insert(c)
  PROVE  ReportIInv'
<1> DEFINE u == call[c].data
           n == Len(table) + 1
<1>1. call[c].pc = "selected" /\ table' = Append(table, u) /\ call' = Done(c)
  BY DEF Insert
<1>2. /\ table \in Seq(Row) /\ u \in Row /\ call \in Seq(CallStates)
      /\ \A counter \in Counters : u[counter] \in Nat
  BY <1>1, CallParts, UsageIsRow DEF ReportIInv
<1>3. /\ call' \in Seq(CallStates)
      /\ \A b \in DOMAIN call' : call'[b].pc = "selected" =>
           b \in DOMAIN call \ {c} /\ call'[b] = call[b]
      /\ \A v : \A counter \in Counters :
           TotalBy(call', v, counter)
             = TotalBy(call, v, counter) + IF OfReport(u, v) THEN u[counter] ELSE 0
  BY <1>1, CommitAdds
<1> HIDE DEF u
<1>4. /\ table' \in Seq(Row) /\ Len(table) \in Nat /\ Len(table') = n
      /\ DOMAIN table' = DOMAIN table \cup {n} /\ n \notin DOMAIN table
      /\ table'[n] = u
      /\ \A i \in DOMAIN table : table'[i] = table[i]
  BY <1>1, <1>2
<1>5. \A b \in DOMAIN call' : call'[b].pc = "selected" => call'[b].row \in 0 .. Len(table')
  BY <1>3, <1>4 DEF ReportIInv
<1> HIDE DEF n
<1>6. StillReads(table', call')
  BY <1>3, <1>4 DEF ReportIInv, StillReads
<1>7. \A v : RowsOf(table', v) = RowsOf(table, v) \cup IF OfReport(u, v) THEN {n} ELSE {}
  BY <1>4 DEF RowsOf
<1>8. \A v : \A counter \in Counters : TotalBy(call, v, counter) \in Nat
  BY <1>2, TotalIsNat
<1>9. RowsAddUp(table', call')
  <2>1. SUFFICES ASSUME NEW i \in DOMAIN table', NEW counter \in Counters
                 PROVE  /\ table'[i][counter] <= TotalBy(call', table'[i], counter)
                        /\ RowsOf(table', table'[i]) = {i} =>
                             table'[i][counter] = TotalBy(call', table'[i], counter)
    BY DEF RowsAddUp
  <2>2. CASE i = n
    <3>1. OfReport(u, u) /\ table'[i] = u
      BY <1>4, <2>2 DEF OfReport
    <3>2. TotalBy(call', u, counter) = TotalBy(call, u, counter) + u[counter]
      BY <1>3, <3>1
    <3>3. RowsOf(table', u) = {i} => RowsOf(table, u) = {}
      BY <1>4, <1>7, <2>2 DEF RowsOf
    <3>4. RowsOf(table, u) = {} => TotalBy(call, u, counter) = 0
      BY <1>2 DEF ReportIInv, NoRowNoCall
    <3>5. u[counter] \in Nat /\ TotalBy(call, u, counter) \in Nat
      BY <1>2, <1>8
    <3>6. QED
      BY <3>1, <3>2, <3>3, <3>4, <3>5
  <2>3. CASE i # n
    <3>1. i \in DOMAIN table /\ table'[i] = table[i]
      BY <1>4, <2>1, <2>3
    <3> DEFINE v == table[i]
    <3>2. v \in Row
      BY <1>2, <3>1
    <3>3. /\ v[counter] <= TotalBy(call, v, counter)
          /\ RowsOf(table, v) = {i} => v[counter] = TotalBy(call, v, counter)
      BY <3>1 DEF ReportIInv, RowsAddUp
    <3>4. v[counter] \in Nat
      BY <3>2, RowCounters
    <3> HIDE DEF v
    <3>5. CASE OfReport(u, v)
      <4>1. RowsOf(table', v) # {i}
        BY <1>7, <2>3, <3>5
      <4>2. TotalBy(call', v, counter) = TotalBy(call, v, counter) + u[counter]
        BY <1>3, <3>5
      <4>3. u[counter] \in Nat /\ TotalBy(call, v, counter) \in Nat
        BY <1>2, <1>8
      <4>4. v[counter] <= TotalBy(call', v, counter)
        BY <3>3, <3>4, <4>2, <4>3
      <4>5. QED
        BY <3>1, <4>1, <4>4 DEF v
    <3>6. CASE ~OfReport(u, v)
      <4>1. RowsOf(table', v) = RowsOf(table, v)
        BY <1>7, <3>6
      <4>2. TotalBy(call', v, counter) = TotalBy(call, v, counter) + 0
        BY <1>3, <3>6
      <4>3. TotalBy(call', v, counter) = TotalBy(call, v, counter)
        BY <1>8, <4>2
      <4>4. QED
        BY <3>1, <3>3, <4>1, <4>3 DEF v
    <3>7. QED
      BY <3>5, <3>6
  <2>4. QED
    BY <2>2, <2>3
<1>10. NoRowNoCall(table', call')
  <2>1. SUFFICES ASSUME NEW v \in Row, NEW counter \in Counters, RowsOf(table', v) = {}
                 PROVE  TotalBy(call', v, counter) = 0
    BY DEF NoRowNoCall
  <2>2. RowsOf(table, v) = {} /\ ~OfReport(u, v)
    BY <1>7, <2>1
  <2>3. TotalBy(call, v, counter) = 0
    BY <2>2 DEF ReportIInv, NoRowNoCall
  <2>4. TotalBy(call', v, counter) = TotalBy(call, v, counter) + 0
    BY <1>3, <2>2
  <2>5. QED
    BY <2>3, <2>4
<1>11. QED
  BY <1>3, <1>4, <1>5, <1>6, <1>9, <1>10 DEF ReportIInv

LEMMA UpdateKeepsReportIInv ==
  ASSUME ReportIInv, NEW c \in DOMAIN call, Update(c)
  PROVE  ReportIInv'
<1> DEFINE u == call[c].data
           old == call[c].old
           row == call[c].row
           new(i) == [table[i] EXCEPT !.searches = old.searches + u.searches,
                                      !.other = old.other + u.other]
<1>1. /\ call[c].pc = "selected" /\ row # NoRow /\ call' = Done(c)
      /\ Reports(u) \cap LockedByOther(c) = {}
      /\ table' = [i \in DOMAIN table |-> IF SameReport(i, u) THEN new(i) ELSE table[i]]
  BY DEF Update, OldIsNotNull
<1>2. /\ table \in Seq(Row) /\ call \in Seq(CallStates)
      /\ u \in Usage /\ old \in Row
      /\ \A counter \in Counters : u[counter] \in Nat /\ old[counter] \in Nat
  <2>1. table \in Seq(Row) /\ call \in Seq(CallStates)
    BY DEF ReportIInv
  <2>2. u \in Usage /\ old \in Row
    <3>1. call[c] \in CallStates
      BY <2>1
    <3>2. call[c].pc = "selected"
      BY <1>1
    <3>3. QED
      BY <3>1, <3>2, CallParts
  <2>3. QED
    BY <2>1, <2>2, UsageIsRow, RowCounters
<1>3. row \in DOMAIN table /\ OfReport(table[row], u) /\ old = table[row]
  BY <1>1 DEF ReportIInv, StillReads
<1>4. /\ call' \in Seq(CallStates)
      /\ \A b \in DOMAIN call' : call'[b].pc = "selected" =>
           b \in DOMAIN call \ {c} /\ call'[b] = call[b]
      /\ \A v : \A counter \in Counters :
           TotalBy(call', v, counter)
             = TotalBy(call, v, counter) + IF OfReport(u, v) THEN u[counter] ELSE 0
  BY <1>1, CommitAdds
<1>5. ASSUME NEW i \in DOMAIN table
      PROVE  /\ new(i) \in Row
             /\ OfReport(new(i), table[i])
             /\ \A counter \in Counters : new(i)[counter] = old[counter] + u[counter]
  <2>1. table[i] \in Row
    BY <1>2
  <2>2. /\ old.searches + u.searches \in Nat /\ old.other + u.other \in Nat
    <3>1. /\ old["searches"] \in Nat /\ old["other"] \in Nat
          /\ u["searches"] \in Nat /\ u["other"] \in Nat
      BY <1>2 DEF Counters
    <3>2. QED
      BY <3>1
  <2>3. PICK a, b \in Nat : a = old.searches + u.searches /\ b = old.other + u.other
    BY <2>2
  <2>4. [table[i] EXCEPT !.searches = a, !.other = b] \in Row
    BY <2>1 DEF Row
  <2>5. new(i) = [table[i] EXCEPT !.searches = a, !.other = b]
    BY <2>3
  <2>6. /\ new(i).user = table[i].user /\ new(i).day = table[i].day
        /\ new(i)["searches"] = a /\ new(i)["other"] = b
    BY <2>1, <2>5 DEF Row
  <2>7. QED
    BY <2>3, <2>4, <2>5, <2>6 DEF OfReport, Counters
<1> HIDE DEF u, old, row, new
<1>6. /\ DOMAIN table' = DOMAIN table
      /\ \A i \in DOMAIN table :
           table'[i] = IF OfReport(table[i], u) THEN new(i) ELSE table[i]
  BY <1>1 DEF SameReport, OfReport
<1>7. table' \in Seq(Row) /\ Len(table') = Len(table)
  <2>1. DOMAIN table = 1 .. Len(table) /\ Len(table) \in Nat
    BY <1>2
  <2>2. \A i \in DOMAIN table : table'[i] \in Row
    BY <1>2, <1>5, <1>6
  <2>3. table' = [i \in 1 .. Len(table) |-> table'[i]]
    BY <1>1, <2>1
  <2>4. table' \in [1 .. Len(table) -> Row]
    BY <2>1, <2>2, <2>3
  <2>5. QED
    BY <1>6, <2>1, <2>4
<1>8. \A i \in DOMAIN table : OfReport(table'[i], table[i])
  BY <1>5, <1>6 DEF OfReport
<1>9. \A v : RowsOf(table', v) = RowsOf(table, v)
  BY <1>6, <1>8 DEF RowsOf, OfReport
<1>10. \A b \in DOMAIN call' : call'[b].pc = "selected" => call'[b].row \in 0 .. Len(table')
  BY <1>4, <1>7 DEF ReportIInv
<1>11. StillReads(table', call')
  <2>1. SUFFICES ASSUME NEW b \in DOMAIN call', call'[b].pc = "selected",
                        call'[b].row # NoRow
                 PROVE  /\ call'[b].row \in DOMAIN table'
                        /\ OfReport(table'[call'[b].row], call'[b].data)
                        /\ call'[b].old = table'[call'[b].row]
    BY DEF StillReads
  <2>2. b \in DOMAIN call \ {c} /\ call'[b] = call[b]
    BY <1>4, <2>1
  <2>3. /\ call[b].row \in DOMAIN table
        /\ OfReport(table[call[b].row], call[b].data)
        /\ call[b].old = table[call[b].row]
    BY <2>1, <2>2 DEF ReportIInv, StillReads
  <2>4. call[b].row \in LockedByOther(c)
    BY <2>1, <2>2 DEF LockedByOther, Locked
  <2>5. call[b].row \notin Reports(u)
    BY <1>1, <2>4
  <2>6. table'[call[b].row] = table[call[b].row]
    BY <1>6, <2>3, <2>5 DEF Reports, SameReport, OfReport
  <2>7. QED
    BY <1>6, <2>2, <2>3, <2>6
<1>12. RowsAddUp(table', call')
  <2>1. SUFFICES ASSUME NEW i \in DOMAIN table, NEW counter \in Counters
                 PROVE  /\ table'[i][counter] <= TotalBy(call', table'[i], counter)
                        /\ RowsOf(table', table'[i]) = {i} =>
                             table'[i][counter] = TotalBy(call', table'[i], counter)
    BY <1>6 DEF RowsAddUp
  <2>2. PICK v : v = table[i]
    OBVIOUS
  <2>3. /\ v[counter] <= TotalBy(call, v, counter)
        /\ RowsOf(table, v) = {i} => v[counter] = TotalBy(call, v, counter)
    BY <2>2 DEF ReportIInv, RowsAddUp
  <2>4. TotalBy(call', table'[i], counter) = TotalBy(call', v, counter)
    BY <1>8, <2>2, TotalOfSameReport
  <2>5. RowsOf(table', table'[i]) = RowsOf(table, v)
    <3>1. RowsOf(table', table'[i]) = RowsOf(table, table'[i])
      BY <1>9
    <3>2. OfReport(table'[i], v)
      BY <1>8, <2>2
    <3>3. QED
      BY <3>1, <3>2 DEF RowsOf, OfReport
  <2>6. TotalBy(call', v, counter)
          = TotalBy(call, v, counter) + IF OfReport(u, v) THEN u[counter] ELSE 0
    BY <1>4
  <2>7. TotalBy(call, v, counter) \in Nat
    BY <1>2, TotalIsNat
  <2>8. CASE OfReport(v, u)
    <3>1. table'[i] = new(i) /\ OfReport(u, v)
      BY <1>6, <2>2, <2>8 DEF OfReport
    <3>2. table'[i][counter] = old[counter] + u[counter]
      BY <1>5, <3>1
    <3>3. OfReport(table[row], v)
      BY <1>3, <2>8 DEF OfReport
    <3>4. TotalBy(call, table[row], counter) = TotalBy(call, v, counter)
      BY <3>3, TotalOfSameReport
    <3>5. old[counter] <= TotalBy(call, v, counter)
      BY <1>3, <3>4 DEF ReportIInv, RowsAddUp
    <3>6. RowsOf(table, v) = {i} => old = v
      <4>1. row \in RowsOf(table, v)
        BY <1>3, <3>3 DEF RowsOf
      <4>2. QED
        BY <1>3, <2>2, <4>1
    <3>7. TotalBy(call', v, counter) = TotalBy(call, v, counter) + u[counter]
      BY <2>6, <3>1
    <3>8. u[counter] \in Nat /\ old[counter] \in Nat
      BY <1>2
    <3>9. table'[i][counter] <= TotalBy(call', v, counter)
      BY <2>7, <3>2, <3>5, <3>7, <3>8
    <3>10. RowsOf(table, v) = {i} => table'[i][counter] = TotalBy(call', v, counter)
      BY <2>3, <3>2, <3>6, <3>7
    <3>11. QED
      BY <2>4, <2>5, <3>9, <3>10
  <2>9. CASE ~OfReport(v, u)
    <3>1. table'[i] = v /\ ~OfReport(u, v)
      BY <1>6, <2>2, <2>9 DEF OfReport
    <3>2. TotalBy(call', v, counter) = TotalBy(call, v, counter) + 0
      BY <2>6, <3>1
    <3>3. TotalBy(call', v, counter) = TotalBy(call, v, counter)
      BY <2>7, <3>2
    <3>4. QED
      BY <2>3, <2>4, <2>5, <3>1, <3>3
  <2>10. QED
    BY <2>8, <2>9
<1>13. NoRowNoCall(table', call')
  <2>1. SUFFICES ASSUME NEW v \in Row, NEW counter \in Counters, RowsOf(table', v) = {}
                 PROVE  TotalBy(call', v, counter) = 0
    BY DEF NoRowNoCall
  <2>2. RowsOf(table, v) = {}
    BY <1>9, <2>1
  <2>3. ~OfReport(u, v)
    BY <1>3, <2>2 DEF RowsOf, OfReport
  <2>4. TotalBy(call, v, counter) = 0
    BY <2>2 DEF ReportIInv, NoRowNoCall
  <2>5. TotalBy(call', v, counter) = TotalBy(call, v, counter) + 0
    BY <1>4, <2>3
  <2>6. QED
    BY <2>4, <2>5
<1>14. QED
  BY <1>4, <1>7, <1>10, <1>11, <1>12, <1>13 DEF ReportIInv

LEMMA ReportStepKeepsIInv == ReportIInv /\ [ReportNext]_reportVars => ReportIInv'
<1>1. SUFFICES ASSUME ReportIInv, [ReportNext]_reportVars PROVE ReportIInv'
  OBVIOUS
<1>2. CASE \E u \in Usage : Start(u)
  BY <1>1, <1>2, StartKeepsReportIInv
<1>3. CASE \E c \in DOMAIN call : Step(c) \/ LoseConnection(c)
  <2>1. PICK c \in DOMAIN call : Step(c) \/ LoseConnection(c)
    BY <1>3
  <2>2. CASE Select(c)
    BY <1>1, <2>2, SelectKeepsReportIInv
  <2>3. CASE Update(c)
    BY <1>1, <2>3, UpdateKeepsReportIInv
  <2>4. CASE Insert(c)
    BY <1>1, <2>4, InsertKeepsReportIInv
  <2>5. CASE AbortDeadlock(c)
    BY <1>1, <2>5, FailureKeepsReportIInv DEF AbortDeadlock, Waits
  <2>6. CASE LoseConnection(c)
    BY <1>1, <2>6, FailureKeepsReportIInv DEF LoseConnection
  <2>7. QED
    BY <2>1, <2>2, <2>3, <2>4, <2>5, <2>6 DEF Step
<1>4. CASE UNCHANGED reportVars
  BY <1>1, <1>4 DEF reportVars, ReportIInv
<1>5. QED
  BY <1>1, <1>2, <1>3, <1>4 DEF ReportNext

(* While a user has one report for a day, it is what the committed calls   *)
(* passed, and no report is ever more than that: for any users, days and   *)
(* counts, any number of concurrent calls, lost connections and deadlocks. *)
THEOREM ReportsAddUp == ReportSpec => []CallsAddUp
<1>1. ReportSpec => []ReportIInv
  BY InitReportIInv, ReportStepKeepsIInv, PTL DEF ReportSpec
<1>2. QED
  BY <1>1, ReportIInvImpliesCallsAddUp, PTL
=============================================================================
