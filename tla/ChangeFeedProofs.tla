--------------------------- MODULE ChangeFeedProofs ---------------------------
(***************************************************************************)
(* What ChangeFeed promises, for any number of documents, calls, clients,  *)
(* filters, any page limit and any bound on changes and clock: the domains *)
(* of its variables, pages that cover each document once, and clients that *)
(* subscribed and caught up and know the latest of all that was announced. *)
(*                                                                         *)
(* The first part is about pages alone: the order of (updated_at, doc_id)  *)
(* is strict and total, so a list of rows in that order exists, and a page *)
(* is the rows after the cursor up to its own last one. The second is the  *)
(* inductive invariant: what a client does not know of is owed to it by a  *)
(* call on its way to its events, or is on a page to come.                 *)
(***************************************************************************)
EXTENDS ChangeFeed, FiniteSetTheorems, SequenceTheorems, WellFoundedInduction, TLAPS

(* ---- Pages ------------------------------------------------------------------ *)

\* A set of numbers has a least one.
LEMMA LeastNat ==
  ASSUME NEW T, T \subseteq Nat, T # {}
  PROVE  \E n \in T : \A m \in T : n <= m
<1> DEFINE R == OpToRel(<, Nat)
<1>1. IsWellFoundedOn(R, Nat)
  BY NatLessThanWellFounded, Zenon
<1> HIDE DEF R
<1>2. \E n \in T : \A m \in T : ~(<<m, n>> \in R)
  BY <1>1, WFMin, Zenon
<1>3. PICK n \in T : \A m \in T : ~(<<m, n>> \in R)
  BY <1>2
<1>4. ASSUME NEW m \in T
      PROVE  n <= m
  <2>1. m \in Nat /\ n \in Nat
    OBVIOUS
  <2>2. m < n => <<m, n>> \in R
    BY <2>1, Zenon DEF OpToRel, R
  <2>3. ~(m < n)
    BY <1>3, <2>2, Zenon
  <2> QED
    BY <2>1, <2>3
<1> QED
  BY <1>4

USE DocsAssumption, FiltersAssumption, LimitAssumption, BoundsAssumption, CallsAssumption

Points == Int \X Int

\* SQLite's order of (updated_at, doc_id).
LEMMA AfterIsOrder ==
  ASSUME NEW x \in Points, NEW y \in Points, NEW z \in Points
  PROVE  /\ ~After(x, x)
         /\ After(x, y) => ~After(y, x)
         /\ After(x, y) \/ After(y, x) \/ x = y
         /\ After(x, y) /\ After(y, z) => After(x, z)
         /\ After(x, y) /\ ~After(z, y) => After(x, z)
BY DEF After, Points

\* Two rows never have the same key.
LEMMA KeysDiffer ==
  ASSUME rows \in [Docs -> Row], NEW d \in Docs, NEW e \in Docs
  PROVE  Key(d) \in Points /\ (Key(d) = Key(e) => d = e) /\ Key(d)[1] \in Nat
BY DEF Key, Points, Row, Times

\* Sets of documents are finite.
LEMMA CardNat == ASSUME NEW D \in SUBSET Docs PROVE IsFiniteSet(D) /\ Cardinality(D) \in Nat
BY FS_Subset, FS_CardinalityType

\* An enumeration of D, which lists each of its documents once.
LEMMA Enumerates ==
  ASSUME NEW D \in SUBSET Docs, NEW list \in [1..Cardinality(D) -> D],
         \A i, j \in 1..Cardinality(D) : i # j => list[i] # list[j]
  PROVE  /\ list \in Seq(D) /\ Len(list) = Cardinality(D)
         /\ \A d \in D : \E i \in 1..Cardinality(D) : list[i] = d
<1> DEFINE n == Cardinality(D)
<1>1. n \in Nat /\ IsFiniteSet(D)
  BY CardNat
<1>2. list \in Injection(1..n, D)
  BY DEF Injection, IsInjective
<1>3. IsFiniteSet(1..n) /\ Cardinality(1..n) = n
  BY <1>1, FS_Interval
<1>4. list \in Surjection(1..n, D)
  BY <1>1, <1>2, <1>3, FS_Injection
<1>5. \A d \in D : \E i \in 1..n : list[i] = d
  BY <1>4 DEF Surjection
<1>6. list \in Seq(D) /\ Len(list) = n
  BY <1>1
<1> QED
  BY <1>5, <1>6

\* A document put into a sorted list at its place leaves it sorted.
LEMMA Inserted ==
  ASSUME rows \in [Docs -> Row], NEW D \in SUBSET Docs, NEW x \in Docs, x \notin D,
         NEW n \in Nat, NEW s \in [1..n -> D], \A i, j \in 1..n : i # j => s[i] # s[j], Sorted(s)
  PROVE  \E t \in [1..n + 1 -> D \union {x}] :
           /\ \A i, j \in 1..n + 1 : i # j => t[i] # t[j]
           /\ Sorted(t)
<1> DEFINE Later == {i \in 1..n : After(Key(s[i]), Key(x))}
<1>1. PICK k \in 1..n + 1 : /\ k # n + 1 => k \in Later
                            /\ \A i \in Later : k <= i
  <2>1. CASE Later = {}
    <3>1. n + 1 \in 1..n + 1
      OBVIOUS
    <3> QED
      BY <2>1, <3>1
  <2>2. CASE Later # {}
    <3>1. Later \subseteq Nat
      OBVIOUS
    <3> HIDE DEF Later
    <3>2. \E k \in Later : \A i \in Later : k <= i
      BY <2>2, <3>1, LeastNat
    <3> USE DEF Later
    <3> QED
      BY <3>2
  <2> QED
    BY <2>1, <2>2
<1>2. \A i \in 1..n : s[i] \in Docs /\ Key(s[i]) \in Points /\ Key(x) \in Points
  BY KeysDiffer
<1>3. \A i \in 1..n : i < k => ~After(Key(s[i]), Key(x))
  BY <1>1
<1>4. \A i, j \in 1..n : i < j => After(Key(s[j]), Key(s[i]))
  <2> SUFFICES ASSUME NEW i \in 1..n, NEW j \in 1..n, i < j
               PROVE  After(Key(s[j]), Key(s[i]))
    OBVIOUS
  <2>1. ~After(Key(s[i]), Key(s[j]))
    BY DEF Sorted
  <2>2. s[i] # s[j]
    OBVIOUS
  <2>3. Key(s[i]) # Key(s[j])
    BY <1>2, <2>2, KeysDiffer
  <2> QED
    BY <1>2, <2>1, <2>3, AfterIsOrder
<1>5. ASSUME NEW i \in 1..n, k <= i
      PROVE  After(Key(s[i]), Key(x))
  <2>1. k \in Later
    BY <1>1, <1>5
  <2>2. k = i \/ After(Key(s[i]), Key(s[k]))
    BY <1>4, <1>5
  <2> QED
    BY <2>1, <2>2, <1>2, AfterIsOrder
<1> DEFINE t == [i \in 1..n + 1 |-> IF i < k THEN s[i] ELSE IF i = k THEN x ELSE s[i - 1]]
<1>6. t \in [1..n + 1 -> D \union {x}]
  OBVIOUS
<1>7. \A i, j \in 1..n + 1 : i # j => t[i] # t[j]
  <2> SUFFICES ASSUME NEW i \in 1..n + 1, NEW j \in 1..n + 1, i < j
               PROVE  t[i] # t[j]
    OBVIOUS
  <2>1. t[j] = (IF j < k THEN s[j] ELSE IF j = k THEN x ELSE s[j - 1])
    OBVIOUS
  <2>2. t[i] = (IF i < k THEN s[i] ELSE IF i = k THEN x ELSE s[i - 1])
    OBVIOUS
  <2> QED
    BY <2>1, <2>2
<1>8. ASSUME NEW i \in 1..n + 1, NEW j \in 1..n + 1, i < j
      PROVE  ~After(Key(t[i]), Key(t[j]))
  <2>1. t[j] = (IF j < k THEN s[j] ELSE IF j = k THEN x ELSE s[j - 1])
    OBVIOUS
  <2>2. t[i] = (IF i < k THEN s[i] ELSE IF i = k THEN x ELSE s[i - 1])
    OBVIOUS
  <2>3. CASE j < k
    BY <1>8, <2>1, <2>2, <2>3 DEF Sorted
  <2>4. CASE j = k
    BY <1>8, <2>1, <2>2, <2>4, <1>3
  <2>5. CASE j > k /\ i < k
    <3>1. i \in 1..n /\ j - 1 \in 1..n /\ k <= j - 1
      BY <2>5
    <3>2. CASE i = j - 1
      BY <3>1, <3>2, <2>5
    <3>3. CASE i < j - 1
      BY <3>1, <3>3, <2>1, <2>2, <2>5 DEF Sorted
    <3> QED
      BY <3>1, <3>2, <3>3, <1>8
  <2>6. CASE j > k /\ i = k
    <3>1. j - 1 \in 1..n /\ k <= j - 1
      BY <2>6
    <3>2. After(Key(s[j - 1]), Key(x))
      BY <3>1, <1>5
    <3> QED
      BY <3>1, <3>2, <2>1, <2>2, <2>6, <1>2, AfterIsOrder
  <2>7. CASE j > k /\ i > k
    <3>1. i - 1 \in 1..n /\ j - 1 \in 1..n /\ i - 1 < j - 1
      BY <2>7, <1>8
    <3> QED
      BY <3>1, <2>1, <2>2, <2>7 DEF Sorted
  <2> QED
    BY <2>3, <2>4, <2>5, <2>6, <2>7
<1>9. Sorted(t)
  BY <1>6, <1>8 DEF Sorted
<1> QED
  BY <1>6, <1>7, <1>9

\* Every set of documents can be listed in order: otherwise take one without
\* such a list that is as small as possible, and a document out of it.
LEMMA SortedExists ==
  ASSUME rows \in [Docs -> Row], NEW D \in SUBSET Docs
  PROVE  \E list \in SetToSeqs(D) : Sorted(list)
<1> DEFINE Listable(E) == \E list \in SetToSeqs(E) : Sorted(list)
           Bad == {n \in Nat : \E E \in SUBSET Docs : Cardinality(E) = n /\ ~Listable(E)}
<1>1. SUFFICES Bad = {}
  BY CardNat
<1>2. SUFFICES ASSUME Bad # {} PROVE FALSE
  OBVIOUS
<1>3. PICK n \in Bad : \A m \in Bad : n <= m
  BY <1>2, LeastNat
<1>4. PICK E \in SUBSET Docs : Cardinality(E) = n /\ ~Listable(E)
  BY <1>3
<1>5. n \in Nat /\ IsFiniteSet(E)
  BY <1>4, CardNat
<1>6. CASE E = {}
  <2>1. Cardinality(E) = 0
    BY <1>6, FS_EmptySet
  <2>2. <<>> \in [1..0 -> E]
    BY <1>6
  <2>3. <<>> \in SetToSeqs(E)
    BY <2>1, <2>2 DEF SetToSeqs
  <2>4. Sorted(<<>>)
    BY DEF Sorted
  <2> QED
    BY <2>3, <2>4, <1>4
<1>7. CASE E # {}
  <2>1. PICK x \in E : TRUE
    BY <1>7
  <2>2. Cardinality(E \ {x}) = n - 1
    BY <1>4, <1>5, <2>1, FS_RemoveElement
  <2>3. n - 1 \in Nat
    BY <2>2, CardNat
  <2>4. Listable(E \ {x})
    <3>1. n - 1 \notin Bad
      BY <1>3, <2>3
    <3> QED
      BY <2>2, <2>3, <3>1
  <2>5. PICK s \in SetToSeqs(E \ {x}) : Sorted(s)
    BY <2>4
  <2>6. s \in [1..n - 1 -> E \ {x}] /\ \A i, j \in 1..n - 1 : i # j => s[i] # s[j]
    BY <2>2, <2>5 DEF SetToSeqs
  <2>7. \E t \in [1..(n - 1) + 1 -> (E \ {x}) \union {x}] :
          /\ \A i, j \in 1..(n - 1) + 1 : i # j => t[i] # t[j]
          /\ Sorted(t)
    BY <2>1, <2>3, <2>5, <2>6, Inserted
  <2>8. (n - 1) + 1 = n /\ (E \ {x}) \union {x} = E
    BY <1>5, <2>1
  <2>9. \E t \in [1..n -> E] : (\A i, j \in 1..n : i # j => t[i] # t[j]) /\ Sorted(t)
    BY <2>7, <2>8
  <2> QED
    BY <2>9, <1>4 DEF SetToSeqs
<1> QED
  BY <1>6, <1>7

\* A page of the code's query: all that is after the cursor, or the first of it.
LEMMA PageIs ==
  ASSUME rows \in [Docs -> Row], NEW cursor
  PROVE  /\ PageOf(Listed(cursor)) \in Seq(Found(cursor))
         /\ ~HasMore(Listed(cursor)) => ToSet(PageOf(Listed(cursor))) = Found(cursor)
         /\ HasMore(Listed(cursor)) =>
              /\ Last(PageOf(Listed(cursor))) \in Found(cursor)
              /\ ToSet(PageOf(Listed(cursor))) =
                   {d \in Found(cursor) : ~After(Key(d), Key(Last(PageOf(Listed(cursor)))))}
<1> DEFINE F == Found(cursor)
           n == Cardinality(F)
           order == CHOOSE list \in SetToSeqs(F) : Sorted(list)
           list == Listed(cursor)
           page == PageOf(list)
<1>1. F \in SUBSET Docs /\ n \in Nat
  BY CardNat DEF Found
<1>2. order \in SetToSeqs(F) /\ Sorted(order)
  BY <1>1, SortedExists
<1>3. list = SubSeq(order, 1, IF Len(order) <= PageLimit THEN Len(order) ELSE PageLimit + 1)
  BY DEF Listed
<1>4. order \in [1..n -> F] /\ \A i, j \in 1..n : i # j => order[i] # order[j]
  BY <1>2 DEF SetToSeqs
<1> HIDE DEF F, order
<1>5. /\ order \in Seq(F) /\ Len(order) = n
      /\ \A d \in F : \E i \in 1..n : order[i] = d
  BY <1>1, <1>4, Enumerates
<1>6. DOMAIN order = 1..n
  BY <1>4
<1>9. \A i, j \in 1..n : i < j => ~After(Key(order[i]), Key(order[j]))
  BY <1>2, <1>6 DEF Sorted
<1>7. CASE n <= PageLimit
  <2>1. list = order
    BY <1>3, <1>5, <1>7
  <2>2. ~HasMore(list) /\ page = order
    BY <2>1, <1>5, <1>7 DEF HasMore, PageOf
  <2>3. ToSet(order) = F
    BY <1>4, <1>5, <1>6 DEF ToSet
  <2> QED
    BY <2>2, <2>3, <1>5 DEF F
<1>8. CASE n > PageLimit
  <2>1. list = SubSeq(order, 1, PageLimit + 1)
    BY <1>3, <1>5, <1>8
  <2>2. list \in Seq(F) /\ Len(list) = PageLimit + 1 /\ \A i \in 1..PageLimit + 1 : list[i] = order[i]
    BY <1>5, <1>8, <2>1
  <2>3. HasMore(list) /\ page = SubSeq(list, 1, PageLimit)
    BY <2>2 DEF HasMore, PageOf
  <2>4. page \in Seq(F) /\ Len(page) = PageLimit /\ \A i \in 1..PageLimit : page[i] = order[i]
    BY <2>2, <2>3
  <2>5. Last(page) = order[PageLimit] /\ Last(page) \in F
    BY <2>4, <1>4, <1>8 DEF Last
  <2>6. ToSet(page) = {order[i] : i \in 1..PageLimit}
    BY <2>4 DEF ToSet
  <2> HIDE DEF n, list, page
  <2>11. PageLimit \in 1..n
    BY <1>1, <1>8 DEF n
  <2>7. \A d \in F : Key(d) \in Points /\ d \in Docs
    BY <1>1, KeysDiffer
  <2>8. ASSUME NEW d \in F
        PROVE  d \in ToSet(page) <=> ~After(Key(d), Key(Last(page)))
    <3>1. PICK i \in 1..n : order[i] = d
      BY <1>5
    <3>2. CASE i < PageLimit
      <4>1. ~After(Key(d), Key(Last(page)))
        BY <1>9, <2>5, <2>11, <3>1, <3>2
      <4> QED
        BY <4>1, <2>6, <3>1, <3>2
    <3>3. CASE i = PageLimit
      <4>1. ~After(Key(d), Key(Last(page)))
        BY <2>5, <2>7, <3>1, <3>3, AfterIsOrder
      <4> QED
        BY <4>1, <2>6, <3>1, <3>3
    <3>4. CASE i > PageLimit
      <4>1. ~After(Key(Last(page)), Key(d))
        BY <1>9, <2>5, <2>11, <3>1, <3>4
      <4>2. d # Last(page)
        BY <1>4, <2>5, <2>11, <3>1, <3>4
      <4>3. Key(d) # Key(Last(page))
        BY <2>5, <2>7, <4>2, KeysDiffer
      <4>4. After(Key(d), Key(Last(page)))
        BY <2>5, <2>7, <4>1, <4>3, AfterIsOrder
      <4>5. \A j \in 1..PageLimit : j \in 1..n /\ j # i
        BY <1>1, <2>11, <3>4
      <4>6. \A j \in 1..PageLimit : order[j] # d
        BY <1>4, <3>1, <4>5
      <4>7. d \notin ToSet(page)
        BY <2>6, <4>6
      <4> QED
        BY <4>4, <4>7
    <3> QED
      BY <3>2, <3>3, <3>4, <1>1
  <2>9. ToSet(page) \subseteq F
    BY <2>4, <2>6
  <2>10. ToSet(page) = {d \in F : ~After(Key(d), Key(Last(page)))}
    BY <2>8, <2>9
  <2> QED
    BY <2>3, <2>4, <2>5, <2>10 DEF F, list, page
<1> QED
  BY <1>1, <1>7, <1>8

\* SetToSeq lists a set.
LEMMA SetToSeqIs ==
  ASSUME NEW D \in SUBSET Docs
  PROVE  /\ SetToSeq(D) \in [1..Cardinality(D) -> D] /\ SetToSeq(D) \in SeqOf(Docs, Cardinality(Docs))
         /\ SetToSeq(D) \in Seq(D) /\ Len(SetToSeq(D)) = Cardinality(D)
         /\ ToSet(SetToSeq(D)) = D
<1> DEFINE n == Cardinality(D)
           list == SetToSeq(D)
<1>1. n \in Nat /\ IsFiniteSet(D) /\ n <= Cardinality(Docs) /\ Cardinality(Docs) \in Nat
  BY CardNat, FS_Subset
<1>2. \E f \in [1..n -> D] : IsInjective(f)
  <2>1. ExistsBijection(1..n, D)
    BY <1>1, FS_CardinalityType
  <2> QED
    BY <2>1 DEF ExistsBijection, Bijection, Injection
<1>3. list \in [1..n -> D] /\ IsInjective(list)
  BY <1>2 DEF SetToSeq
<1> HIDE DEF list
<1>4. \A i, j \in 1..n : i # j => list[i] # list[j]
  BY <1>3 DEF IsInjective
<1>5. /\ list \in Seq(D) /\ Len(list) = n
      /\ \A d \in D : \E i \in 1..n : list[i] = d
  BY <1>3, <1>4, Enumerates
<1>6. ToSet(list) = D
  BY <1>3, <1>5 DEF ToSet
<1>7. list \in SeqOf(Docs, Cardinality(Docs))
  <2>1. list \in [1..n -> Docs]
    BY <1>3
  <2>2. n \in 0..Cardinality(Docs)
    BY <1>1
  <2> QED
    BY <2>1, <2>2 DEF SeqOf
<1> QED
  BY <1>3, <1>5, <1>6, <1>7 DEF list

(* ---- The inductive invariant ------------------------------------------------ *)

\* A call still owes session s an event of d: it has yet to commit, or to offer
\* one to the sessions that will be registered then, or to s among the rest.
Owed(c, d, s) ==
  \/ c.pc \in {"index", "commit"} /\ c.kind # "noop" /\ d \in c.done
  \/ /\ c.pc = "notify"
     /\ \/ d \in ToSet(Tail(c.events))
        \/ d = Head(c.events) /\ (c.walking => s \in c.to)

Pending(d, s) == \E w \in Calls : Owed(call[w], d, s)

\* What a call is at each stage. The one that puts rows has the lock, and room
\* for the changes it has yet to make.
CallShape ==
  \A w \in Calls :
    /\ call[w].pc \in {"index", "commit"} <=> lock = w
    /\ call[w].pc = "index" => call[w].kind # "none" /\ changes + Cardinality(call[w].todo) <= MaxChanges
    /\ call[w].pc # "notify" => ~call[w].walking
    /\ ~call[w].walking => call[w].to = {}
    /\ call[w].pc = "notify" => call[w].events # <<>> /\ ToSet(call[w].events) \subseteq call[w].done

\* Who polls or knows anything is registered and can be notified; a chain began
\* in the past, and starts from the beginning; only one that counts hears of anything.
SessionShape ==
  \A s \in Clients :
    /\ Registered(s) => session[s].notifier
    /\ session[s].polling \/ session[s].current => Registered(s)
    /\ session[s].both => session[s].polling
    /\ session[s].since <= changes
    /\ ~session[s].polling => session[s].cursor = Start /\ session[s].emitted = [d \in Docs |-> 0]
    /\ ~session[s].both => session[s].unheard = {}

\* A client that caught up knows each document, or is still to hear of it.
CaughtUp ==
  \A s \in Clients : session[s].current =>
    \A d \in session[s].sub \ quiet : known[s][d] = Content(d) \/ Pending(d, s)

\* A client that is catching up is still to hear of a document, or will find it
\* on a page to come, or found it as it is, or will take it for gone rightly.
CatchingUp ==
  \A s \in Clients : session[s].both =>
    \A d \in session[s].sub \ quiet :
      \/ Pending(d, s)
      \/ Live(d) /\ After(Key(d), session[s].cursor)
      \/ Live(d) /\ d \notin session[s].unheard /\ known[s][d] = Content(d)
      \/ ~Live(d) /\ (d \in session[s].unheard \/ known[s][d] = Gone)

Shape == TypeOK /\ CallShape /\ SessionShape
Inv == Shape /\ PagesCoverOnce /\ CaughtUp /\ CatchingUp

(* ---- Records ------------------------------------------------------------------ *)

\* The events of a call are a short enough sequence of documents.
LEMMA SeqOfIs ==
  ASSUME NEW n \in Nat, NEW x
  PROVE  x \in SeqOf(Docs, n) <=> x \in Seq(Docs) /\ Len(x) <= n
<1>1. ASSUME x \in SeqOf(Docs, n) PROVE x \in Seq(Docs) /\ Len(x) <= n
  <2>1. PICK m \in 0..n : x \in [1..m -> Docs]
    BY <1>1 DEF SeqOf
  <2> QED
    BY <2>1
<1>2. ASSUME x \in Seq(Docs), Len(x) <= n PROVE x \in SeqOf(Docs, n)
  <2>1. x \in [1..Len(x) -> Docs] /\ Len(x) \in 0..n
    BY <1>2
  <2>2. [1..Len(x) -> Docs] \in {[1..m -> Docs] : m \in 0..n}
    BY <2>1
  <2> QED
    BY <2>1, <2>2, Zenon DEF SeqOf
<1> QED
  BY <1>1, <1>2

\* The call that is not there.
LEMMA NoCallIs == NoCall \in CallRecords
<1>1. <<>> \in SeqOf(Docs, Cardinality(Docs))
  <2>1. Cardinality(Docs) \in Nat
    BY CardNat
  <2>2. <<>> \in Seq(Docs) /\ Len(<<>>) = 0
    BY EmptySeq
  <2>3. Len(<<>>) <= Cardinality(Docs)
    BY <2>1, <2>2
  <2> QED
    BY <2>1, <2>2, <2>3, SeqOfIs, Zenon
<1> QED
  BY <1>1 DEF NoCall, CallRecords

\* What is left of a call when the event at its head is done.
LEMMA EventDoneIs ==
  ASSUME NEW c \in CallRecords, c.events # <<>>
  PROVE  /\ EventDone(c) \in CallRecords
         /\ \/ EventDone(c) = NoCall /\ Tail(c.events) = <<>>
            \/ /\ EventDone(c).pc = c.pc /\ EventDone(c).kind = c.kind
               /\ EventDone(c).todo = c.todo /\ EventDone(c).done = c.done
               /\ EventDone(c).events = Tail(c.events) /\ Tail(c.events) # <<>>
               /\ EventDone(c).to = {} /\ ~EventDone(c).walking
         /\ ToSet(c.events) = {Head(c.events)} \union ToSet(Tail(c.events))
         /\ Head(c.events) \in Docs
<1> DEFINE e == c.events
<1>1. Cardinality(Docs) \in Nat
  BY CardNat
<1>2. e \in SeqOf(Docs, Cardinality(Docs))
  BY DEF CallRecords
<1>3. e \in Seq(Docs) /\ Len(e) <= Cardinality(Docs) /\ e # <<>>
  BY <1>1, <1>2, SeqOfIs
<1> HIDE DEF e
<1>4. /\ Head(e) \in Docs /\ Head(e) = e[1]
      /\ Tail(e) \in Seq(Docs) /\ Len(Tail(e)) = Len(e) - 1
      /\ Len(e) \in Nat \ {0} /\ DOMAIN e = 1..Len(e)
      /\ \A i \in 1..Len(e) - 1 : Tail(e)[i] = e[i + 1]
  BY <1>3, HeadTailProperties, EmptySeq, LenProperties
<1>5. Tail(e) \in SeqOf(Docs, Cardinality(Docs))
  <2>1. Len(Tail(e)) <= Cardinality(Docs)
    BY <1>1, <1>3, <1>4
  <2> QED
    BY <1>1, <1>4, <2>1, SeqOfIs, Zenon
<1>6. ToSet(e) = {Head(e)} \union ToSet(Tail(e))
  <2>1. DOMAIN Tail(e) = 1..Len(e) - 1
    BY <1>4, LenProperties
  <2>2. \A i \in 1..Len(e) : i = 1 \/ i - 1 \in 1..Len(e) - 1
    BY <1>4
  <2>3. \A i \in 1..Len(e) - 1 : i + 1 \in 1..Len(e)
    BY <1>4
  <2>4. ToSet(e) = {e[i] : i \in 1..Len(e)} /\ ToSet(Tail(e)) = {Tail(e)[i] : i \in 1..Len(e) - 1}
    BY <1>4, <2>1 DEF ToSet
  <2>5. ASSUME NEW d \in ToSet(e)
        PROVE  d \in {Head(e)} \union ToSet(Tail(e))
    <3>1. PICK i \in 1..Len(e) : d = e[i]
      BY <2>4
    <3>2. i = 1 \/ (i - 1 \in 1..Len(e) - 1 /\ Tail(e)[i - 1] = e[(i - 1) + 1] /\ (i - 1) + 1 = i)
      BY <1>4, <2>2
    <3> QED
      BY <1>4, <2>4, <3>1, <3>2
  <2>6. ASSUME NEW d \in {Head(e)} \union ToSet(Tail(e))
        PROVE  d \in ToSet(e)
    <3>1. 1 \in 1..Len(e)
      BY <1>4
    <3> QED
      BY <1>4, <2>3, <2>4, <3>1
  <2> QED
    BY <2>5, <2>6
<1>7. CASE Len(e) = 1
  <2>0. ~(Len(Tail(e)) \in Nat \ {0})
    BY <1>4, <1>7
  <2>1. Tail(e) = <<>>
    BY <1>4, <2>0, EmptySeq, Zenon
  <2>2. EventDone(c) = NoCall
    BY <1>7 DEF EventDone, e
  <2> QED
    BY <2>1, <2>2, <1>4, <1>6, NoCallIs DEF e
<1>8. CASE Len(e) # 1
  <2>1. Tail(e) # <<>>
    BY <1>4, <1>8, EmptySeq
  <2>2. EventDone(c) = [c EXCEPT !.walking = FALSE, !.to = {}, !.events = Tail(e)]
    BY <1>8 DEF EventDone, e
  <2>3. EventDone(c) \in CallRecords
    BY <1>5, <2>2 DEF CallRecords
  <2> QED
    BY <1>4, <1>6, <2>1, <2>2, <2>3 DEF e, CallRecords
<1> QED
  BY <1>7, <1>8

\* Sessions that begin, end, are renewed or come to the end of a chain.
LEMMA SessionsTyped ==
  ASSUME NEW r \in SessionRecords
  PROVE  /\ NewSession \in SessionRecords /\ ClosedSession \in SessionRecords
         /\ ChainEnds(r) \in SessionRecords
         /\ \A f \in Filters : [r EXCEPT !.sub = f, !.both = FALSE, !.unheard = {}, !.current = FALSE] \in SessionRecords
<1>1. /\ Start \in Keys \union {Start} /\ [d \in Docs |-> 0] \in [Docs -> 0..2] /\ 0 \in 0..MaxChanges
      /\ "not yet" \in {"not yet", "open", "closed"} /\ "closed" \in {"not yet", "open", "closed"}
      /\ {} \subseteq Docs
  OBVIOUS
<1>2. NewSession \in SessionRecords
  BY <1>1 DEF SessionRecords, NewSession, Nobody
<1>3. ClosedSession \in SessionRecords
  BY <1>1, <1>2 DEF SessionRecords, ClosedSession
<1>4. ChainEnds(r) \in SessionRecords
  BY <1>1 DEF SessionRecords, ChainEnds
<1> QED
  BY <1>1, <1>2, <1>3, <1>4 DEF SessionRecords

\* What a client can read of a document.
LEMMA ContentIs ==
  ASSUME rows \in [Docs -> Row], NEW d \in Docs
  PROVE  Content(d) \in 0..MaxChanges
<1>1. rows[d].content \in 0..MaxChanges
  BY DEF Row
<1> QED
  BY <1>1 DEF Content, Gone

\* The call that puts rows has room for another change.
LEMMA Room ==
  ASSUME TypeOK, CallShape, NEW w \in Calls, NEW d \in call[w].todo, call[w].pc = "index"
  PROVE  /\ changes + 1 \in 0..MaxChanges
         /\ changes + 1 + Cardinality(call[w].todo \ {d}) <= MaxChanges
         /\ Cardinality(call[w].todo \ {d}) \in Nat
<1>1. call[w].todo \in SUBSET Docs
  BY DEF TypeOK, CallRecords
<1>2. IsFiniteSet(call[w].todo) /\ Cardinality(call[w].todo) \in Nat
  BY <1>1, CardNat
<1>3. Cardinality(call[w].todo \ {d}) = Cardinality(call[w].todo) - 1
  BY <1>2, FS_RemoveElement
<1>4. Cardinality(call[w].todo \ {d}) \in Nat
  BY <1>1, CardNat
<1>5. changes + Cardinality(call[w].todo) <= MaxChanges /\ changes \in Nat
  BY DEF CallShape, TypeOK
<1> QED
  BY <1>2, <1>3, <1>4, <1>5

\* How often a chain returned a document.
LEMMA CountedTyped ==
  ASSUME NEW s \in Clients, session[s] \in SessionRecords, NEW P
  PROVE  Counted(s, P) \in [Docs -> 0..2]
<1>1. \A d \in Docs : session[s].emitted[d] \in 0..2
  BY DEF SessionRecords
<1> QED
  BY <1>1 DEF Counted

\* A session that starts anew.
LEMMA RenewedTyped ==
  ASSUME TypeOK, NEW s \in Clients, NEW r \in SessionRecords, Renewed(s, r)
  PROVE  TypeOK'
BY DEF TypeOK, Renewed, Server, Gone

\* The types hold after every step.
LEMMA Typed ==
  ASSUME TypeOK, CallShape, SessionShape, [Next]_vars
  PROVE  TypeOK'
<1> USE DEF TypeOK
<1>1. ASSUME NEW w \in Calls, NEW kind \in {"write", "delete", "noop"}, NEW D \in SUBSET Docs,
             Begin(w, kind, D)
      PROVE  TypeOK'
  <2>1. call[w] \in CallRecords
    OBVIOUS
  <2>2. [call[w] EXCEPT !.pc = "index", !.kind = kind, !.todo = D] \in CallRecords
    BY <2>1 DEF CallRecords
  <2> QED
    BY <1>1, <2>2 DEF Begin
<1>2. ASSUME NEW w \in Calls, NEW d \in Docs, Index(w, d)
      PROVE  TypeOK'
  <2>1. rows' \in [Docs -> Row]
    <3>1. call[w].kind = "write" => Put(d) \in Row
      BY <1>2, Room DEF Index, Put, Row, Times
    <3>2. call[w].kind = "delete" => \A r \in Unlisted(d) : r \in Row
      <4>1. rows[d] \in Row /\ NoRow \in Row
        BY DEF NoRow, Row, Times, Gone
      <4> QED
        BY <4>1 DEF Unlisted, Row
    <3>3. call[w].kind \in {"write", "delete", "noop"}
      BY <1>2 DEF Index, CallShape, CallRecords
    <3>4. CASE call[w].kind = "write"
      BY <1>2, <3>1, <3>4 DEF Index
    <3>5. CASE call[w].kind = "delete"
      BY <1>2, <3>2, <3>5 DEF Index
    <3>6. CASE call[w].kind = "noop"
      BY <1>2, <3>6 DEF Index
    <3> QED
      BY <3>3, <3>4, <3>5, <3>6
  <2>2. changes' \in 0..MaxChanges
    BY <1>2, Room DEF Index
  <2>3. call' \in [Calls -> CallRecords]
    <3>1. call[w] \in CallRecords
      OBVIOUS
    <3>2. \A D, E \in SUBSET Docs, p \in {"idle", "index", "commit", "notify"} :
            [[[call[w] EXCEPT !.todo = D] EXCEPT !.done = E] EXCEPT !.pc = p] \in CallRecords
      BY <3>1 DEF CallRecords
    <3>3. /\ call[w].todo \ {d} \in SUBSET Docs /\ call[w].done \union {d} \in SUBSET Docs
          /\ (IF call[w].todo = {d} THEN "commit" ELSE call[w].pc) \in {"idle", "index", "commit", "notify"}
      BY <3>1 DEF CallRecords
    <3>4. call' = [call EXCEPT ![w] =
                     [[[call[w] EXCEPT !.todo = call[w].todo \ {d}] EXCEPT !.done = call[w].done \union {d}]
                        EXCEPT !.pc = IF call[w].todo = {d} THEN "commit" ELSE call[w].pc]]
      BY <1>2 DEF Index
    <3> QED
      BY <3>2, <3>3, <3>4
  <2> QED
    BY <1>2, <2>1, <2>2, <2>3 DEF Index
<1>3. ASSUME NEW w \in Calls, Commit(w)
      PROVE  TypeOK'
  <2>1. call[w] \in CallRecords /\ NoCall \in CallRecords
    BY NoCallIs
  <2>2. call[w].done \in SUBSET Docs
    BY <2>1 DEF CallRecords
  <2>3. SetToSeq(Announced(w)) \in SeqOf(Docs, Cardinality(Docs))
    BY <2>2, SetToSeqIs DEF Announced
  <2>4. [call[w] EXCEPT !.pc = "notify", !.events = SetToSeq(Announced(w))] \in CallRecords
    BY <2>1, <2>3 DEF CallRecords
  <2>5. call' \in [Calls -> CallRecords]
    BY <1>3, <2>1, <2>4 DEF Commit
  <2>6. quiet' \subseteq Docs
    BY <1>3, <2>2 DEF Commit
  <2> QED
    BY <1>3, <2>5, <2>6 DEF Commit
<1>4. ASSUME NEW w \in Calls, Walk(w)
      PROVE  TypeOK'
  <2>1. call[w] \in CallRecords /\ EventDone(call[w]) \in CallRecords
    BY <1>4, EventDoneIs DEF Walk, CallShape
  <2>2. \A to \in SUBSET Clients : [call[w] EXCEPT !.walking = TRUE, !.to = to] \in CallRecords
    BY <2>1 DEF CallRecords
  <2>3. {s \in Clients : Registered(s)} \in SUBSET Clients
    OBVIOUS
  <2>4. call' \in [Calls -> CallRecords]
    BY <1>4, <2>1, <2>2, <2>3 DEF Walk
  <2> QED
    BY <1>4, <2>4 DEF Walk
<1>5. ASSUME NEW w \in Calls, NEW s \in Clients, Deliver(w, s)
      PROVE  TypeOK'
  <2>1. call[w] \in CallRecords /\ EventDone(call[w]) \in CallRecords
    BY <1>5, EventDoneIs DEF Deliver, CallShape
  <2>2. [call[w] EXCEPT !.to = @ \ {s}] \in CallRecords
    BY <2>1 DEF CallRecords
  <2>3. call' \in [Calls -> CallRecords]
    <3>1. call' = [call EXCEPT ![w] = IF call[w].to = {s} THEN EventDone(call[w])
                                      ELSE [call[w] EXCEPT !.to = call[w].to \ {s}]]
      BY <1>5 DEF Deliver
    <3> QED
      BY <3>1, <2>1, <2>2
  <2>4. \A D : Read(s, D) \in [Docs -> 0..MaxChanges]
    BY ContentIs DEF Read
  <2>5. \A D : [session[s] EXCEPT !.unheard = @ \ D] \in SessionRecords
    <3>1. session[s] \in SessionRecords
      OBVIOUS
    <3> QED
      BY <3>1 DEF SessionRecords
  <2>6. known' \in [Clients -> [Docs -> 0..MaxChanges]] /\ session' \in [Clients -> SessionRecords]
    <3> DEFINE D == {Head(call[w].events)}
               r == [session[s] EXCEPT !.unheard = @ \ D]
               k == Read(s, D)
    <3>1. CASE known' = known /\ session' = session
      BY <3>1
    <3>2. CASE known' = [known EXCEPT ![s] = k] /\ session' = [session EXCEPT ![s] = r]
      <4>1. k \in [Docs -> 0..MaxChanges] /\ r \in SessionRecords
        BY <2>4, <2>5
      <4> HIDE DEF k, r
      <4> QED
        BY <3>2, <4>1
    <3>3. (known' = known /\ session' = session) \/
          (known' = [known EXCEPT ![s] = k] /\ session' = [session EXCEPT ![s] = r])
      BY <1>5 DEF Deliver
    <3> QED
      BY <3>1, <3>2, <3>3
  <2> QED
    BY <1>5, <2>3, <2>6 DEF Deliver
<1>6. ASSUME NEW s \in Clients, Open(s)
      PROVE  TypeOK'
  <2>2. session[s] \in SessionRecords
    OBVIOUS
  <2>1. [session[s] EXCEPT !.open = "open", !.notifier = TRUE] \in SessionRecords
    BY <2>2 DEF SessionRecords
  <2> QED
    BY <1>6, <2>1, RenewedTyped DEF Open
<1>7. ASSUME NEW s \in Clients, Unsubscribe(s)
      PROVE  TypeOK'
  <2>2. session[s] \in SessionRecords
    OBVIOUS
  <2>1. WithFilter(s, Nobody) \in SessionRecords
    BY <2>2 DEF SessionRecords, WithFilter, Nobody
  <2> QED
    BY <1>7, <2>1, RenewedTyped DEF Unsubscribe
<1>8. ASSUME NEW s \in Clients, Close(s)
      PROVE  TypeOK'
  <2>2. session[s] \in SessionRecords
    OBVIOUS
  <2>3. ClosedSession \in SessionRecords
    BY <2>2, SessionsTyped
  <2>1. \A left \in BOOLEAN : [ClosedSession EXCEPT !.notifier = left] \in SessionRecords
    BY <2>3 DEF SessionRecords
  <2> QED
    BY <1>8, <2>1, RenewedTyped DEF Close
<1>9. ASSUME NEW s \in Clients, NEW f \in Filters, Subscribe(s, f)
      PROVE  TypeOK'
  <2>1. WithFilter(s, f) \in SessionRecords
    BY SessionsTyped DEF WithFilter
  <2> QED
    BY <1>9, <2>1, RenewedTyped DEF Subscribe
<1>10. ASSUME NEW s \in Clients, StartChain(s)
       PROVE  TypeOK'
  <2>1. session[s] \in SessionRecords /\ Docs \subseteq Docs
    OBVIOUS
  <2>2. [session[s] EXCEPT !.polling = TRUE, !.since = changes, !.both = session[s].sub # Nobody,
                           !.unheard = IF session[s].sub # Nobody THEN Docs ELSE {}] \in SessionRecords
    BY <2>1 DEF SessionRecords
  <2> QED
    BY <1>10, <2>2 DEF StartChain, Server
<1>11. ASSUME NEW s \in Clients, Poll(s)
       PROVE  TypeOK'
  <2> DEFINE list   == Listed(session[s].cursor)
             page   == PageOf(list)
             silent == session[s].unheard \ ToSet(page)
  <2>1. session[s] \in SessionRecords
    OBVIOUS
  <2>2. \A D : Read(s, D) \in [Docs -> 0..MaxChanges] /\ Gone \in 0..MaxChanges
    BY ContentIs DEF Read, Gone
  <2>3. CASE HasMore(list)
    <3>1. Last(page) \in Docs
      BY <2>3, PageIs DEF Found
    <3>2. Key(Last(page)) \in Keys
      BY <3>1 DEF Key, Keys, Row
    <3>3. Counted(s, ToSet(page)) \in [Docs -> 0..2]
      BY <2>1, CountedTyped
    <3>4. [session[s] EXCEPT !.cursor = Key(Last(page)), !.unheard = silent,
                             !.emitted = Counted(s, ToSet(page))] \in SessionRecords
      BY <2>1, <3>2, <3>3 DEF SessionRecords
    <3> HIDE DEF list, page, silent
    <3>6. /\ session' = [session EXCEPT ![s] =
                [session[s] EXCEPT !.cursor = Key(Last(page)), !.unheard = silent,
                                   !.emitted = Counted(s, ToSet(page))]]
          /\ known' = [known EXCEPT ![s] = Read(s, ToSet(page))]
      BY <1>11, <2>3 DEF Poll, list, page, silent
    <3>5. session' \in [Clients -> SessionRecords] /\ known' \in [Clients -> [Docs -> 0..MaxChanges]]
      BY <2>2, <3>4, <3>6
    <3> QED
      BY <1>11, <3>5 DEF Poll, Server
  <2>4. CASE ~HasMore(list)
    <3>1. ChainEnds(session[s]) \in SessionRecords
      BY <2>1, SessionsTyped
    <3> HIDE DEF list, page, silent
    <3>3. /\ session' = [session EXCEPT ![s] = ChainEnds(session[s])]
          /\ known' = [known EXCEPT ![s] =
                       [d \in Docs |-> IF d \in silent THEN Gone ELSE Read(s, ToSet(page))[d]]]
      BY <1>11, <2>4 DEF Poll, list, page, silent
    <3>2. session' \in [Clients -> SessionRecords] /\ known' \in [Clients -> [Docs -> 0..MaxChanges]]
      BY <2>2, <3>1, <3>3
    <3> QED
      BY <1>11, <3>2 DEF Poll, Server
  <2> QED
    BY <2>3, <2>4
<1>12. ASSUME NEW d \in Docs, Reindex(d)
       PROVE  TypeOK'
  <2>1. Put(d) \in Row /\ NoRow \in Row
    BY <1>12 DEF Reindex, Put, NoRow, Gone, Row, Times
  <2> QED
    BY <1>12, <2>1 DEF Reindex
<1>13. CASE Tick
  BY <1>13 DEF Tick, Times
<1>14. CASE Crash
  <2>1. NoCall \in CallRecords
    BY NoCallIs
  <2>2. \A w \in Calls : call[w].done \subseteq Docs
    BY DEF CallRecords
  <2>3. quiet' \subseteq Docs
    <3>1. quiet' = quiet \union UNION {call[w].done : w \in Calls} /\ quiet \subseteq Docs
      BY <1>14 DEF Crash
    <3>2. UNION {call[w].done : w \in Calls} \subseteq Docs
      <4>1. ASSUME NEW d \in UNION {call[w].done : w \in Calls}
            PROVE  d \in Docs
        <5>1. PICK w \in Calls : d \in call[w].done
          BY <4>1
        <5> QED
          BY <2>2, <5>1
      <4> QED
        BY <4>1
    <3> QED
      BY <3>1, <3>2
  <2>4. call' \in [Calls -> CallRecords]
    BY <1>14, <2>1 DEF Crash
  <2>5. ClosedSession \in SessionRecords
    <3>1. CASE Clients = {}
      BY <1>14, <3>1 DEF Crash
    <3>2. CASE Clients # {}
      <4>1. PICK s \in Clients : TRUE
        BY <3>2
      <4>2. session[s] \in SessionRecords
        OBVIOUS
      <4> QED
        BY <4>2, SessionsTyped
    <3> QED
      BY <3>1, <3>2
  <2>6. session' \in [Clients -> SessionRecords] /\ known' \in [Clients -> [Docs -> 0..MaxChanges]]
    BY <1>14, <2>5 DEF Crash, Gone
  <2> QED
    BY <1>14, <2>3, <2>4, <2>6 DEF Crash
<1>15. CASE UNCHANGED vars
  BY <1>15 DEF vars
<1> QED
  BY <1>1, <1>2, <1>3, <1>4, <1>5, <1>6, <1>7, <1>8, <1>9, <1>10, <1>11, <1>12, <1>13,
     <1>14, <1>15 DEF Next, CallStep, SessionStep

\* What CallShape says of one call.
Shaped(c, holds, n) ==
  /\ c.pc \in {"index", "commit"} <=> holds
  /\ c.pc = "index" => c.kind # "none" /\ n + Cardinality(c.todo) <= MaxChanges
  /\ c.pc # "notify" => ~c.walking
  /\ ~c.walking => c.to = {}
  /\ c.pc = "notify" => c.events # <<>> /\ ToSet(c.events) \subseteq c.done

\* The call whose turn it was is as it should be, the others are as they were.
LEMMA ShapedIs ==
  ASSUME CallShape, NEW w \in Calls, NEW c, call \in [Calls -> CallRecords], lock \in Calls \union {Free},
         call' = [call EXCEPT ![w] = c],
         Shaped(c, lock' = w, changes'),
         lock = lock' \/ (lock = Free /\ lock' = w) \/ (lock = w /\ lock' = Free),
         changes' = changes \/ lock = w
  PROVE  CallShape'
<1>1. ASSUME NEW v \in Calls, v # w
      PROVE  Shaped(call'[v], lock' = v, changes')
  <2>1. call'[v] = call[v] /\ (lock' = v <=> lock = v)
    BY <1>1
  <2>2. Shaped(call[v], lock = v, changes)
    BY DEF CallShape, Shaped
  <2>3. changes' = changes \/ call[v].pc # "index"
    BY <1>1, <2>2 DEF Shaped
  <2> QED
    BY <2>1, <2>2, <2>3 DEF Shaped
<1>2. Shaped(call'[w], lock' = w, changes')
  <2>1. call'[w] = c
    OBVIOUS
  <2> QED
    BY <2>1 DEF Shaped
<1> QED
  BY <1>1, <1>2 DEF Shaped, CallShape

\* Done with an event, a call is as it should be.
LEMMA EventDoneShaped ==
  ASSUME NEW c \in CallRecords, NEW holds, NEW n, Shaped(c, holds, n), c.pc = "notify"
  PROVE  Shaped(EventDone(c), holds, n)
<1>1. c.events # <<>> /\ ToSet(c.events) \subseteq c.done /\ ~holds
  BY DEF Shaped
<1>2. CASE EventDone(c) = NoCall
  BY <1>1, <1>2 DEF Shaped, NoCall
<1>3. CASE EventDone(c) # NoCall
  BY <1>1, <1>3, EventDoneIs DEF Shaped
<1> QED
  BY <1>2, <1>3

\* The calls keep their shape in every step.
LEMMA CallsShaped ==
  ASSUME TypeOK, CallShape, SessionShape, [Next]_vars
  PROVE  CallShape'
<1>1. ASSUME NEW w \in Calls, NEW kind \in {"write", "delete", "noop"}, NEW D \in SUBSET Docs,
             Begin(w, kind, D)
      PROVE  CallShape'
  <2> DEFINE c == [call[w] EXCEPT !.pc = "index", !.kind = kind, !.todo = D]
  <2>1. call[w] \in CallRecords /\ Shaped(call[w], lock = w, changes)
    BY DEF CallShape, Shaped, TypeOK
  <2>2. /\ c.pc = "index" /\ c.kind = kind /\ c.todo = D /\ c.walking = call[w].walking /\ c.to = call[w].to
    BY <2>1 DEF CallRecords
  <2>3. call' = [call EXCEPT ![w] = c] /\ lock = Free /\ lock' = w /\ changes' = changes /\ call[w].pc = "idle"
        /\ changes + Cardinality(D) <= MaxChanges
    BY <1>1 DEF Begin
  <2> HIDE DEF c
  <2>4. Shaped(c, lock' = w, changes')
    BY <2>1, <2>2, <2>3 DEF Shaped
  <2> QED
    BY <2>3, <2>4, ShapedIs DEF TypeOK
<1>2. ASSUME NEW w \in Calls, NEW d \in Docs, Index(w, d)
      PROVE  CallShape'
  <2> DEFINE c == [[[call[w] EXCEPT !.todo = call[w].todo \ {d}] EXCEPT !.done = call[w].done \union {d}]
                     EXCEPT !.pc = IF call[w].todo = {d} THEN "commit" ELSE call[w].pc]
  <2>1. call[w] \in CallRecords /\ Shaped(call[w], lock = w, changes)
    BY DEF CallShape, Shaped, TypeOK
  <2>2. /\ c.pc = (IF call[w].todo = {d} THEN "commit" ELSE call[w].pc)
        /\ c.kind = call[w].kind /\ c.todo = call[w].todo \ {d}
        /\ c.walking = call[w].walking /\ c.to = call[w].to
    BY <2>1 DEF CallRecords
  <2>3. call' = [call EXCEPT ![w] = c] /\ lock' = lock /\ call[w].pc = "index" /\ d \in call[w].todo
    BY <1>2 DEF Index, TypeOK
  <2>4. changes' = changes \/ changes' = changes + 1
    BY <1>2 DEF Index
  <2> HIDE DEF c
  <2>5. lock = w
    BY <2>1, <2>3 DEF Shaped
  <2>6. changes' + Cardinality(c.todo) <= MaxChanges
    <3>1. changes \in Nat /\ Cardinality(call[w].todo \ {d}) \in Nat
          /\ changes + 1 + Cardinality(call[w].todo \ {d}) <= MaxChanges
      BY <2>3, Room DEF TypeOK
    <3> QED
      BY <2>2, <2>4, <3>1
  <2>7. Shaped(c, lock' = w, changes')
    BY <2>1, <2>2, <2>3, <2>5, <2>6 DEF Shaped
  <2> QED
    BY <2>3, <2>5, <2>7, ShapedIs DEF TypeOK
<1>3. ASSUME NEW w \in Calls, Commit(w)
      PROVE  CallShape'
  <2> DEFINE c == [call[w] EXCEPT !.pc = "notify", !.events = SetToSeq(Announced(w))]
  <2>1. call[w] \in CallRecords /\ Shaped(call[w], lock = w, changes) /\ call[w].done \in SUBSET Docs
    BY DEF CallShape, Shaped, TypeOK, CallRecords
  <2>2. /\ c.pc = "notify" /\ c.events = SetToSeq(Announced(w)) /\ c.done = call[w].done
        /\ c.walking = call[w].walking /\ c.to = call[w].to
    BY <2>1 DEF CallRecords
  <2>3. /\ call' = [call EXCEPT ![w] = NoCall] \/ (Announced(w) # {} /\ call' = [call EXCEPT ![w] = c])
        /\ lock' = Free /\ changes' = changes /\ call[w].pc = "commit"
    BY <1>3 DEF Commit
  <2> HIDE DEF c
  <2>4. lock = w /\ ~(lock' = w)
    BY <2>1, <2>3 DEF Shaped
  <2>5. Shaped(NoCall, lock' = w, changes')
    BY <2>4 DEF Shaped, NoCall
  <2>6. Announced(w) # {} => Shaped(c, lock' = w, changes')
    <3>1. SUFFICES ASSUME Announced(w) # {} PROVE Shaped(c, lock' = w, changes')
      OBVIOUS
    <3>2. ToSet(c.events) = call[w].done /\ call[w].done # {}
      BY <2>1, <2>2, <3>1, SetToSeqIs DEF Announced
    <3>3. c.events # <<>>
      BY <3>2 DEF ToSet
    <3> QED
      BY <2>1, <2>2, <2>3, <2>4, <3>2, <3>3 DEF Shaped
  <2> QED
    BY <2>3, <2>4, <2>5, <2>6, ShapedIs DEF TypeOK
<1>4. ASSUME NEW w \in Calls, Walk(w)
      PROVE  CallShape'
  <2> DEFINE c == [call[w] EXCEPT !.walking = TRUE, !.to = {s \in Clients : Registered(s)}]
  <2>1. call[w] \in CallRecords /\ Shaped(call[w], lock = w, changes)
    BY DEF CallShape, Shaped, TypeOK
  <2>2. /\ c.pc = call[w].pc /\ c.events = call[w].events /\ c.done = call[w].done /\ c.walking
        /\ c.kind = call[w].kind /\ c.todo = call[w].todo
    BY <2>1 DEF CallRecords
  <2>3. /\ call' = [call EXCEPT ![w] = EventDone(call[w])] \/ call' = [call EXCEPT ![w] = c]
        /\ lock' = lock /\ changes' = changes /\ call[w].pc = "notify"
    BY <1>4 DEF Walk
  <2>4. Shaped(EventDone(call[w]), lock' = w, changes')
    BY <2>1, <2>3, EventDoneShaped
  <2> HIDE DEF c
  <2>5. Shaped(c, lock' = w, changes')
    BY <2>1, <2>2, <2>3 DEF Shaped
  <2> QED
    BY <2>3, <2>4, <2>5, ShapedIs DEF TypeOK
<1>5. ASSUME NEW w \in Calls, NEW s \in Clients, Deliver(w, s)
      PROVE  CallShape'
  <2> DEFINE c == [call[w] EXCEPT !.to = call[w].to \ {s}]
  <2>1. call[w] \in CallRecords /\ Shaped(call[w], lock = w, changes)
    BY DEF CallShape, Shaped, TypeOK
  <2>2. /\ c.pc = call[w].pc /\ c.events = call[w].events /\ c.done = call[w].done /\ c.walking = call[w].walking
        /\ c.kind = call[w].kind /\ c.todo = call[w].todo
    BY <2>1 DEF CallRecords
  <2>3. /\ call' = [call EXCEPT ![w] = EventDone(call[w])] \/ call' = [call EXCEPT ![w] = c]
        /\ lock' = lock /\ changes' = changes /\ s \in call[w].to
    BY <1>5 DEF Deliver
  <2>6. call[w].pc = "notify" /\ call[w].walking
    BY <2>1, <2>3 DEF Shaped
  <2>4. Shaped(EventDone(call[w]), lock' = w, changes')
    BY <2>1, <2>3, <2>6, EventDoneShaped
  <2> HIDE DEF c
  <2>5. Shaped(c, lock' = w, changes')
    BY <2>1, <2>2, <2>3, <2>6 DEF Shaped
  <2> QED
    BY <2>3, <2>4, <2>5, ShapedIs DEF TypeOK
<1>6. ASSUME NEW s \in Clients, Open(s)
      PROVE  CallShape'
  BY <1>6 DEF Open, Renewed, Server, CallShape
<1>7. ASSUME NEW s \in Clients, Unsubscribe(s)
      PROVE  CallShape'
  BY <1>7 DEF Unsubscribe, Renewed, Server, CallShape
<1>8. ASSUME NEW s \in Clients, Close(s)
      PROVE  CallShape'
  BY <1>8 DEF Close, Renewed, Server, CallShape
<1>9. ASSUME NEW s \in Clients, NEW f \in Filters, Subscribe(s, f)
      PROVE  CallShape'
  BY <1>9 DEF Subscribe, Renewed, Server, CallShape
<1>10. ASSUME NEW s \in Clients, StartChain(s)
       PROVE  CallShape'
  BY <1>10 DEF StartChain, Server, CallShape
<1>11. ASSUME NEW s \in Clients, Poll(s)
       PROVE  CallShape'
  BY <1>11 DEF Poll, Server, CallShape
<1>12. ASSUME NEW d \in Docs, Reindex(d)
       PROVE  CallShape'
  <2>1. \A w \in Calls : call[w].pc # "index"
    BY <1>12 DEF Reindex, CallShape
  <2> QED
    BY <1>12, <2>1 DEF Reindex, CallShape
<1>13. CASE Tick
  BY <1>13 DEF Tick, CallShape
<1>14. CASE Crash
  <2>1. \A w \in Calls : call'[w] = NoCall /\ lock' # w
    BY <1>14 DEF Crash
  <2> QED
    BY <2>1 DEF CallShape, NoCall
<1>15. CASE UNCHANGED vars
  BY <1>15 DEF vars, CallShape
<1> QED
  BY <1>1, <1>2, <1>3, <1>4, <1>5, <1>6, <1>7, <1>8, <1>9, <1>10, <1>11, <1>12, <1>13,
     <1>14, <1>15 DEF Next, CallStep, SessionStep

\* No chain began later than now.
LEMMA SinceGrows ==
  ASSUME TypeOK, TypeOK', SessionShape, changes' >= changes, session' = session
  PROVE  SessionShape'
<1>1. ASSUME NEW s \in Clients
      PROVE  session[s].since <= changes'
  <2>1. session[s] \in SessionRecords /\ changes \in Int /\ changes' \in Int
    BY DEF TypeOK
  <2>2. session[s].since <= changes /\ session[s].since \in Int
    <3>1. session[s].since <= changes
      BY DEF SessionShape
    <3>2. session[s].since \in 0..MaxChanges
      BY <2>1 DEF SessionRecords
    <3> QED
      BY <3>1, <3>2
  <2> QED
    BY <2>1, <2>2
<1> QED
  BY <1>1 DEF SessionShape, Registered

\* What SessionShape says of one session.
Sound(r, n) ==
  /\ r.open = "open" => r.notifier
  /\ r.polling \/ r.current => r.open = "open"
  /\ r.both => r.polling
  /\ r.since <= n
  /\ ~r.polling => r.cursor = Start /\ r.emitted = [d \in Docs |-> 0]
  /\ ~r.both => r.unheard = {}

\* SessionShape says it of every session.
LEMMA SoundIs ==
  /\ SessionShape <=> \A s \in Clients : Sound(session[s], changes)
  /\ SessionShape' <=> \A s \in Clients : Sound(session'[s], changes')
<1>1. SessionShape <=> \A s \in Clients : Sound(session[s], changes)
  BY Zenon DEF SessionShape, Sound, Registered
<1>2. SessionShape' <=> \A s \in Clients : Sound(session'[s], changes')
  BY Zenon DEF SessionShape, Sound, Registered
<1> QED
  BY <1>1, <1>2

\* A step of one session.
LEMMA OneSound ==
  ASSUME TypeOK, SessionShape, NEW s \in Clients, NEW r, session' = [session EXCEPT ![s] = r],
         changes' = changes, Sound(r, changes)
  PROVE  SessionShape'
<1>1. \A v \in Clients : session'[v] = IF v = s THEN r ELSE session[v]
  BY DEF TypeOK
<1> QED
  BY <1>1, SoundIs

\* So do the sessions.
LEMMA SessionsShaped ==
  ASSUME TypeOK, TypeOK', SessionShape, [Next]_vars
  PROVE  SessionShape'
<1>1. ASSUME NEW w \in Calls, NEW kind \in {"write", "delete", "noop"}, NEW D \in SUBSET Docs,
             Begin(w, kind, D)
      PROVE  SessionShape'
  BY <1>1 DEF Begin, SessionShape, Registered
<1>2. ASSUME NEW w \in Calls, NEW d \in Docs, Index(w, d)
      PROVE  SessionShape'
  <2>1. changes' >= changes /\ session' = session
    BY <1>2 DEF Index, TypeOK
  <2> QED
    BY <2>1, SinceGrows
<1>3. ASSUME NEW w \in Calls, Commit(w)
      PROVE  SessionShape'
  BY <1>3 DEF Commit, SessionShape, Registered
<1>4. ASSUME NEW w \in Calls, Walk(w)
      PROVE  SessionShape'
  BY <1>4 DEF Walk, SessionShape, Registered
<1>5. ASSUME NEW w \in Calls, NEW s \in Clients, Deliver(w, s)
      PROVE  SessionShape'
  <2>1. /\ changes' = changes
        /\ session' = session \/ session' = [session EXCEPT ![s].unheard = @ \ {Head(call[w].events)}]
    BY <1>5 DEF Deliver
  <2>2. session[s] \in SessionRecords
    BY DEF TypeOK
  <2>3. CASE session' = session
    BY <2>1, <2>3 DEF SessionShape, Registered
  <2>4. CASE session' = [session EXCEPT ![s].unheard = @ \ {Head(call[w].events)}]
    <3> DEFINE r == [session[s] EXCEPT !.unheard = @ \ {Head(call[w].events)}]
    <3>1. /\ r.open = session[s].open /\ r.polling = session[s].polling /\ r.since = session[s].since
          /\ r.notifier = session[s].notifier /\ r.current = session[s].current /\ r.both = session[s].both
          /\ r.cursor = session[s].cursor /\ r.emitted = session[s].emitted
          /\ r.unheard \subseteq session[s].unheard
      BY <2>2 DEF SessionRecords
    <3>2. session' = [session EXCEPT ![s] = r]
      BY <2>4
    <3> HIDE DEF r
    <3>3. Sound(r, changes)
      BY <3>1, SoundIs DEF Sound
    <3> QED
      BY <2>1, <3>2, <3>3, OneSound
  <2> QED
    BY <2>1, <2>3, <2>4
<1>6. ASSUME NEW s \in Clients, Open(s)
      PROVE  SessionShape'
  <2> DEFINE r == [session[s] EXCEPT !.open = "open", !.notifier = TRUE]
  <2>1. session[s] \in SessionRecords /\ Sound(session[s], changes)
    BY SoundIs DEF TypeOK
  <2>2. /\ r.polling = session[s].polling /\ r.since = session[s].since /\ r.current = session[s].current
        /\ r.both = session[s].both /\ r.cursor = session[s].cursor /\ r.emitted = session[s].emitted
        /\ r.open = "open" /\ r.notifier /\ r.unheard = session[s].unheard
    BY <2>1 DEF SessionRecords
  <2>3. session' = [session EXCEPT ![s] = r] /\ changes' = changes
    BY <1>6 DEF Open, Renewed, Server
  <2> HIDE DEF r
  <2>4. Sound(r, changes)
    BY <2>1, <2>2 DEF Sound
  <2> QED
    BY <2>3, <2>4, OneSound
<1>7. ASSUME NEW s \in Clients, Unsubscribe(s)
      PROVE  SessionShape'
  <2> DEFINE r == WithFilter(s, Nobody)
  <2>1. session[s] \in SessionRecords /\ Sound(session[s], changes)
    BY SoundIs DEF TypeOK
  <2>2. /\ r.open = session[s].open /\ r.polling = session[s].polling /\ r.since = session[s].since
        /\ r.notifier = session[s].notifier /\ ~r.current /\ ~r.both
        /\ r.cursor = session[s].cursor /\ r.emitted = session[s].emitted /\ r.unheard = {}
    BY <2>1 DEF SessionRecords, WithFilter
  <2>3. session' = [session EXCEPT ![s] = r] /\ changes' = changes
    BY <1>7 DEF Unsubscribe, Renewed, Server
  <2> HIDE DEF r
  <2>4. Sound(r, changes)
    BY <2>1, <2>2 DEF Sound
  <2> QED
    BY <2>3, <2>4, OneSound
<1>8. ASSUME NEW s \in Clients, Close(s)
      PROVE  SessionShape'
  <2>1. PICK left \in BOOLEAN : Renewed(s, [ClosedSession EXCEPT !.notifier = left])
    BY <1>8 DEF Close
  <2> DEFINE r == [ClosedSession EXCEPT !.notifier = left]
  <2>2. r.open = "closed" /\ ~r.polling /\ ~r.current /\ ~r.both /\ r.since = 0 /\ r.cursor = Start
        /\ r.emitted = [d \in Docs |-> 0] /\ r.unheard = {}
    BY DEF ClosedSession, NewSession
  <2>3. session' = [session EXCEPT ![s] = r] /\ changes' = changes /\ changes \in Nat
    BY <2>1 DEF Renewed, Server, TypeOK
  <2> HIDE DEF r
  <2>4. Sound(r, changes)
    BY <2>2, <2>3 DEF Sound
  <2> QED
    BY <2>3, <2>4, OneSound
<1>9. ASSUME NEW s \in Clients, NEW f \in Filters, Subscribe(s, f)
      PROVE  SessionShape'
  <2> DEFINE r == WithFilter(s, f)
  <2>1. session[s] \in SessionRecords /\ Sound(session[s], changes)
    BY SoundIs DEF TypeOK
  <2>2. /\ r.open = session[s].open /\ r.polling = session[s].polling /\ r.since = session[s].since
        /\ r.notifier = session[s].notifier /\ ~r.current /\ ~r.both
        /\ r.cursor = session[s].cursor /\ r.emitted = session[s].emitted /\ r.unheard = {}
    BY <2>1 DEF SessionRecords, WithFilter
  <2>3. session' = [session EXCEPT ![s] = r] /\ changes' = changes
    BY <1>9 DEF Subscribe, Renewed, Server
  <2> HIDE DEF r
  <2>4. Sound(r, changes)
    BY <2>1, <2>2 DEF Sound
  <2> QED
    BY <2>3, <2>4, OneSound
<1>10. ASSUME NEW s \in Clients, StartChain(s)
       PROVE  SessionShape'
  <2>1. session[s] \in SessionRecords
    BY DEF TypeOK
  <2> DEFINE r == [session[s] EXCEPT !.polling = TRUE, !.since = changes, !.both = session[s].sub # Nobody,
                                     !.unheard = IF session[s].sub # Nobody THEN Docs ELSE {}]
  <2>2. /\ r.open = session[s].open /\ r.polling /\ r.since = changes /\ r.notifier = session[s].notifier
        /\ r.current = session[s].current /\ (~r.both => r.unheard = {})
    BY <2>1 DEF SessionRecords
  <2>3. session' = [session EXCEPT ![s] = r] /\ changes' = changes /\ changes \in Nat /\ Registered(s)
    BY <1>10 DEF StartChain, Server, TypeOK
  <2> HIDE DEF r
  <2>5. Sound(session[s], changes)
    BY SoundIs
  <2>4. Sound(r, changes)
    BY <2>2, <2>3, <2>5 DEF Sound, Registered
  <2> QED
    BY <2>3, <2>4, OneSound
<1>11. ASSUME NEW s \in Clients, Poll(s)
       PROVE  SessionShape'
  <2> DEFINE list == Listed(session[s].cursor)
             page == PageOf(list)
             r == [session[s] EXCEPT !.cursor = Key(Last(page)), !.unheard = session[s].unheard \ ToSet(page),
                                     !.emitted = Counted(s, ToSet(page))]
             e == ChainEnds(session[s])
  <2>1. session[s] \in SessionRecords
    BY DEF TypeOK
  <2>2. /\ r.open = session[s].open /\ r.polling = session[s].polling /\ r.since = session[s].since
        /\ r.notifier = session[s].notifier /\ r.current = session[s].current
        /\ r.both = session[s].both /\ r.unheard \subseteq session[s].unheard
    BY <2>1 DEF SessionRecords
  <2>3. /\ e.open = session[s].open /\ ~e.polling /\ e.since = 0 /\ e.notifier = session[s].notifier
        /\ ~e.both /\ e.cursor = Start /\ e.emitted = [d \in Docs |-> 0] /\ e.unheard = {}
    BY <2>1 DEF SessionRecords, ChainEnds
  <2>4. /\ session' = [session EXCEPT ![s] = r] \/ session' = [session EXCEPT ![s] = e]
        /\ changes' = changes /\ changes \in Nat /\ session[s].polling
    BY <1>11 DEF Poll, Server, TypeOK
  <2> HIDE DEF r, e
  <2>5. Sound(session[s], changes)
    BY SoundIs
  <2>6. Sound(r, changes) /\ Sound(e, changes)
    BY <2>2, <2>3, <2>4, <2>5 DEF Sound
  <2> QED
    BY <2>4, <2>6, OneSound
<1>12. ASSUME NEW d \in Docs, Reindex(d)
       PROVE  SessionShape'
  <2>1. changes' >= changes /\ session' = session
    BY <1>12 DEF Reindex, TypeOK
  <2> QED
    BY <2>1, SinceGrows
<1>13. CASE Tick
  BY <1>13 DEF Tick, SessionShape, Registered
<1>14. CASE Crash
  <2>1. /\ \A s \in Clients : session'[s] = IF Registered(s) THEN ClosedSession ELSE session[s]
        /\ changes' = changes /\ changes \in Nat
    BY <1>14 DEF Crash, TypeOK
  <2>2. LET r == ClosedSession
        IN r.open = "closed" /\ ~r.polling /\ ~r.current /\ ~r.both /\ r.since = 0 /\ r.cursor = Start
           /\ r.emitted = [d \in Docs |-> 0] /\ r.unheard = {}
    BY DEF ClosedSession, NewSession
  <2>3. Sound(ClosedSession, changes)
    BY <2>1, <2>2 DEF Sound
  <2>4. \A s \in Clients : Sound(session'[s], changes')
    BY <2>1, <2>3, SoundIs
  <2> QED
    BY <2>4, SoundIs
<1>15. CASE UNCHANGED vars
  BY <1>15 DEF vars, SessionShape, Registered
<1> QED
  BY <1>1, <1>2, <1>3, <1>4, <1>5, <1>6, <1>7, <1>8, <1>9, <1>10, <1>11, <1>12, <1>13,
     <1>14, <1>15 DEF Next, CallStep, SessionStep

\* What PagesCoverOnce says of one session.
Covered(r) ==
  r.polling =>
    \A d \in Docs : (Live(d) /\ rows[d].content <= r.since) =>
      r.emitted[d] = IF After(Key(d), r.cursor) THEN 0 ELSE 1

\* PagesCoverOnce says it of every session.
LEMMA CoveredIs ==
  ASSUME NEW s \in Clients, PagesCoverOnce
  PROVE  Covered(session[s])
BY DEF PagesCoverOnce, Covered

\* A step of one session.
LEMMA OneCovered ==
  ASSUME TypeOK, PagesCoverOnce, NEW s \in Clients, NEW r,
         session' = [session EXCEPT ![s] = r], rows' = rows, Covered(r)
  PROVE  PagesCoverOnce'
<1>1. ASSUME NEW v \in Clients
      PROVE  session'[v] = IF v = s THEN r ELSE session[v]
  BY DEF TypeOK
<1>2. \A v \in Clients : Covered(session'[v])
  BY <1>1, CoveredIs
<1>3. \A d \in Docs : Live(d)' = Live(d) /\ Key(d)' = Key(d)
  BY DEF Live, Key
<1> QED
  BY <1>2, <1>3 DEF PagesCoverOnce, Covered

\* A step that changes rows: a document that is there is the same, or newer
\* than any chain.
LEMMA RowsCovered ==
  ASSUME TypeOK, TypeOK', SessionShape, PagesCoverOnce, session' = session,
         \A d \in Docs : rows'[d] = rows[d] \/ ~Live(d)' \/ rows'[d].content = changes + 1
  PROVE  PagesCoverOnce'
<1> SUFFICES ASSUME NEW s \in Clients, session[s].polling, NEW d \in Docs,
                    Live(d)', rows'[d].content <= session[s].since
             PROVE  session[s].emitted[d] = IF After(Key(d)', session[s].cursor) THEN 0 ELSE 1
  BY DEF PagesCoverOnce, After
<1>1. session[s] \in SessionRecords /\ changes \in Nat
  BY DEF TypeOK
<1>2. session[s].since \in Nat
  <2>1. session[s].since \in 0..MaxChanges
    BY <1>1 DEF SessionRecords
  <2> QED
    BY <2>1
<1>3. session[s].since <= changes
  BY DEF SessionShape
<1>4. rows'[d] = rows[d]
  <2>1. rows'[d] = rows[d] \/ rows'[d].content = changes + 1
    BY DEF Live
  <2> QED
    BY <1>1, <1>2, <1>3, <2>1
<1>5. Live(d) /\ Key(d)' = Key(d) /\ rows[d].content <= session[s].since
  BY <1>4 DEF Live, Key
<1> QED
  BY <1>5 DEF PagesCoverOnce

\* What Index does to the rows.
LEMMA IndexRows ==
  ASSUME TypeOK, CallShape, NEW w \in Calls, NEW d \in Docs, Index(w, d)
  PROVE  /\ \A e \in Docs : e # d => rows'[e] = rows[e]
         /\ \/ call[w].kind = "noop" /\ rows' = rows
            \/ call[w].kind # "noop" /\ (~Live(d)' \/ rows'[d].content = changes + 1)
<1>1. rows \in [Docs -> Row] /\ call[w] \in CallRecords
  BY DEF TypeOK
<1>2. call[w].kind \in {"write", "delete", "noop"}
  BY <1>1 DEF Index, CallShape, CallRecords
<1>3. CASE call[w].kind = "write"
  <2>1. rows' = [rows EXCEPT ![d] = Put(d)]
    BY <1>3 DEF Index
  <2> QED
    BY <1>1, <1>3, <2>1 DEF Put
<1>4. CASE call[w].kind = "delete"
  <2>1. PICK r \in Unlisted(d) : rows' = [rows EXCEPT ![d] = r]
    BY <1>4 DEF Index
  <2>2. rows[d] \in Row
    BY <1>1
  <2>3. r.content = Gone \/ r.deleted = TRUE
    <3>1. CASE r = [rows[d] EXCEPT !.deleted = TRUE, !.updated = clock]
      BY <2>2, <3>1 DEF Row
    <3>2. CASE r = NoRow
      BY <3>2 DEF NoRow
    <3> QED
      BY <3>1, <3>2 DEF Unlisted
  <2> QED
    BY <1>1, <1>4, <2>1, <2>3 DEF Live
<1>5. CASE call[w].kind = "noop"
  BY <1>5 DEF Index
<1> QED
  BY <1>2, <1>3, <1>4, <1>5

\* What Reindex does.
LEMMA ReindexRows ==
  ASSUME TypeOK, NEW d \in Docs, Reindex(d)
  PROVE  /\ \A e \in Docs : e # d => rows'[e] = rows[e]
         /\ ~Live(d)' \/ rows'[d].content = changes + 1
<1>1. rows \in [Docs -> Row]
  BY DEF TypeOK
<1>2. PICK r \in {Put(d), NoRow} : rows' = [rows EXCEPT ![d] = r]
  BY DEF Reindex
<1>3. r.content = Gone \/ r.content = changes + 1
  BY DEF Put, NoRow
<1> QED
  BY <1>1, <1>2, <1>3 DEF Live

\* Every row is after the beginning.
LEMMA AfterStart ==
  ASSUME rows \in [Docs -> Row], NEW d \in Docs
  PROVE  After(Key(d), Start)
BY KeysDiffer DEF After, Start

\* The pages of a chain cover each document once, whatever happens between them.
LEMMA PagesKept ==
  ASSUME TypeOK, TypeOK', CallShape, SessionShape, PagesCoverOnce, [Next]_vars
  PROVE  PagesCoverOnce'
<1>1. ASSUME NEW w \in Calls, NEW kind \in {"write", "delete", "noop"}, NEW D \in SUBSET Docs,
             Begin(w, kind, D)
      PROVE  PagesCoverOnce'
  BY <1>1, RowsCovered DEF Begin
<1>2. ASSUME NEW w \in Calls, NEW d \in Docs, Index(w, d)
      PROVE  PagesCoverOnce'
  <2>1. \A e \in Docs : rows'[e] = rows[e] \/ ~Live(e)' \/ rows'[e].content = changes + 1
    BY <1>2, IndexRows
  <2>2. session' = session
    BY <1>2 DEF Index
  <2> QED
    BY <2>1, <2>2, RowsCovered
<1>3. ASSUME NEW w \in Calls, Commit(w)
      PROVE  PagesCoverOnce'
  BY <1>3, RowsCovered DEF Commit
<1>4. ASSUME NEW w \in Calls, Walk(w)
      PROVE  PagesCoverOnce'
  BY <1>4, RowsCovered DEF Walk
<1>5. ASSUME NEW w \in Calls, NEW s \in Clients, Deliver(w, s)
      PROVE  PagesCoverOnce'
  <2>1. CASE session' = session
    BY <1>5, <2>1 DEF Deliver, PagesCoverOnce, Live, Key, After
  <2>2. CASE session' # session
    <3> DEFINE r == [session[s] EXCEPT !.unheard = @ \ {Head(call[w].events)}]
    <3>1. session' = [session EXCEPT ![s] = r] /\ rows' = rows
      BY <1>5, <2>2 DEF Deliver
    <3>2. session[s] \in SessionRecords /\ Covered(session[s])
      BY CoveredIs DEF TypeOK
    <3>3. r.polling = session[s].polling /\ r.since = session[s].since /\ r.cursor = session[s].cursor
          /\ r.emitted = session[s].emitted
      BY <3>2 DEF SessionRecords
    <3> HIDE DEF r
    <3>4. Covered(r)
      BY <3>2, <3>3 DEF Covered
    <3> QED
      BY <3>1, <3>4, OneCovered
  <2> QED
    BY <2>1, <2>2
<1>6. ASSUME NEW s \in Clients, Open(s)
      PROVE  PagesCoverOnce'
  <2> DEFINE r == [session[s] EXCEPT !.open = "open", !.notifier = TRUE]
  <2>1. session' = [session EXCEPT ![s] = r] /\ rows' = rows
    BY <1>6 DEF Open, Renewed, Server
  <2>2. session[s] \in SessionRecords /\ Covered(session[s]) /\ Sound(session[s], changes)
    BY CoveredIs, SoundIs DEF TypeOK
  <2>3. r.polling = session[s].polling
    BY <2>2 DEF SessionRecords, WithFilter
  <2> HIDE DEF r
  <2>4. Covered(r)
    BY <1>6, <2>2, <2>3 DEF Covered, Sound, Open, Registered
  <2> QED
    BY <2>1, <2>4, OneCovered
<1>7. ASSUME NEW s \in Clients, Unsubscribe(s)
      PROVE  PagesCoverOnce'
  <2> DEFINE r == WithFilter(s, Nobody)
  <2>1. session' = [session EXCEPT ![s] = r] /\ rows' = rows
    BY <1>7 DEF Unsubscribe, Renewed, Server
  <2>2. session[s] \in SessionRecords /\ Covered(session[s]) /\ Sound(session[s], changes)
    BY CoveredIs, SoundIs DEF TypeOK
  <2>3. r.polling = session[s].polling /\ r.since = session[s].since /\ r.cursor = session[s].cursor
        /\ r.emitted = session[s].emitted
    BY <2>2 DEF SessionRecords, WithFilter
  <2> HIDE DEF r
  <2>4. Covered(r)
    BY <1>7, <2>2, <2>3 DEF Covered, Sound, Unsubscribe, Registered
  <2> QED
    BY <2>1, <2>4, OneCovered
<1>8. ASSUME NEW s \in Clients, Close(s)
      PROVE  PagesCoverOnce'
  <2>1. PICK left \in BOOLEAN : Renewed(s, [ClosedSession EXCEPT !.notifier = left])
    BY <1>8 DEF Close
  <2> DEFINE r == [ClosedSession EXCEPT !.notifier = left]
  <2>2. Covered(r)
    BY DEF ClosedSession, NewSession, Covered
  <2>3. session' = [session EXCEPT ![s] = r] /\ rows' = rows
    BY <2>1 DEF Renewed, Server
  <2> QED
    BY <2>2, <2>3, OneCovered
<1>9. ASSUME NEW s \in Clients, NEW f \in Filters, Subscribe(s, f)
      PROVE  PagesCoverOnce'
  <2> DEFINE r == WithFilter(s, f)
  <2>1. session' = [session EXCEPT ![s] = r] /\ rows' = rows
    BY <1>9 DEF Subscribe, Renewed, Server
  <2>2. session[s] \in SessionRecords /\ Covered(session[s]) /\ Sound(session[s], changes)
    BY CoveredIs, SoundIs DEF TypeOK
  <2>3. r.polling = session[s].polling /\ r.since = session[s].since /\ r.cursor = session[s].cursor
        /\ r.emitted = session[s].emitted
    BY <2>2 DEF SessionRecords, WithFilter
  <2> HIDE DEF r
  <2>4. Covered(r)
    BY <1>9, <2>2, <2>3 DEF Covered, Sound, Subscribe, Registered
  <2> QED
    BY <2>1, <2>4, OneCovered
<1>10. ASSUME NEW s \in Clients, StartChain(s)
       PROVE  PagesCoverOnce'
  <2> DEFINE r == [session[s] EXCEPT !.polling = TRUE, !.since = changes, !.both = session[s].sub # Nobody,
                                     !.unheard = IF session[s].sub # Nobody THEN Docs ELSE {}]
  <2>1. session' = [session EXCEPT ![s] = r] /\ rows' = rows
    BY <1>10 DEF StartChain, Server
  <2>2. session[s] \in SessionRecords /\ Sound(session[s], changes)
    BY SoundIs DEF TypeOK
  <2>3. r.cursor = session[s].cursor /\ r.emitted = session[s].emitted
    BY <2>2 DEF SessionRecords
  <2> HIDE DEF r
  <2>4. r.cursor = Start /\ r.emitted = [d \in Docs |-> 0]
    BY <1>10, <2>2, <2>3 DEF StartChain, Sound
  <2>5. Covered(r)
    BY <2>4, AfterStart DEF Covered, TypeOK
  <2> QED
    BY <2>1, <2>5, OneCovered
<1>11. ASSUME NEW s \in Clients, Poll(s)
       PROVE  PagesCoverOnce'
  <2> DEFINE cursor == session[s].cursor
             list   == Listed(cursor)
             page   == PageOf(list)
             r == [session[s] EXCEPT !.cursor = Key(Last(page)), !.unheard = session[s].unheard \ ToSet(page),
                                     !.emitted = Counted(s, ToSet(page))]
             e == ChainEnds(session[s])
  <2>1. session[s] \in SessionRecords /\ Covered(session[s])
    BY CoveredIs DEF TypeOK
  <2>2. /\ r.polling = session[s].polling /\ r.since = session[s].since
        /\ r.cursor = Key(Last(page)) /\ r.emitted = Counted(s, ToSet(page))
    BY <2>1 DEF SessionRecords
  <2>3. ~e.polling
    BY <2>1 DEF SessionRecords, ChainEnds
  <2>4. /\ (HasMore(list) /\ session' = [session EXCEPT ![s] = r]) \/ session' = [session EXCEPT ![s] = e]
        /\ rows' = rows /\ session[s].polling
    BY <1>11 DEF Poll, Server
  <2> HIDE DEF r, e
  <2>5. Covered(e)
    BY <2>3 DEF Covered
  <2>6. ASSUME HasMore(list)
        PROVE  Covered(r)
    <3>1. SUFFICES ASSUME NEW d \in Docs, Live(d), rows[d].content <= session[s].since
                   PROVE  Counted(s, ToSet(page))[d] = IF After(Key(d), Key(Last(page))) THEN 0 ELSE 1
      BY <2>2 DEF Covered
    <3>2. session[s].emitted[d] = IF After(Key(d), cursor) THEN 0 ELSE 1
      BY <2>1, <2>4, <3>1 DEF Covered
    <3>3. /\ d \in ToSet(page) <=> After(Key(d), cursor) /\ ~After(Key(d), Key(Last(page)))
          /\ After(Key(Last(page)), cursor) /\ Last(page) \in Docs
      <4>1. rows \in [Docs -> Row]
        BY DEF TypeOK
      <4>2. Last(page) \in Found(cursor) /\ ToSet(page) = {x \in Found(cursor) : ~After(Key(x), Key(Last(page)))}
        BY <2>6, <4>1, PageIs
      <4> HIDE DEF page
      <4> QED
        BY <3>1, <4>2 DEF Found
    <3>4. Counted(s, ToSet(page))[d] =
            IF d \in ToSet(page) /\ session[s].emitted[d] < 2 THEN session[s].emitted[d] + 1 ELSE session[s].emitted[d]
      BY <3>1 DEF Counted, Untouched
    <3>5. cursor \in Points /\ Key(d) \in Points /\ Key(Last(page)) \in Points
      <4>1. cursor \in Keys \union {Start}
        BY <2>1 DEF SessionRecords
      <4>2. cursor \in Points
        <5>1. Keys \subseteq Points
          <6>1. Times \subseteq Int /\ Docs \subseteq Int
            BY DEF Times
          <6> QED
            BY <6>1 DEF Keys, Points
        <5>2. Start \in Points
          BY DEF Start, Points
        <5> QED
          BY <4>1, <5>1, <5>2
      <4> QED
        BY <3>3, <4>2, KeysDiffer DEF TypeOK
    <3> HIDE DEF page, list, cursor
    <3>6. ~After(Key(d), cursor) => ~After(Key(d), Key(Last(page)))
      BY <3>3, <3>5, AfterIsOrder
    <3> QED
      BY <3>2, <3>3, <3>4, <3>6
  <2> QED
    BY <2>4, <2>5, <2>6, OneCovered
<1>12. ASSUME NEW d \in Docs, Reindex(d)
       PROVE  PagesCoverOnce'
  <2>1. \A e \in Docs : rows'[e] = rows[e] \/ ~Live(e)' \/ rows'[e].content = changes + 1
    BY <1>12, ReindexRows
  <2>2. session' = session
    BY <1>12 DEF Reindex
  <2> QED
    BY <2>1, <2>2, RowsCovered
<1>13. CASE Tick
  BY <1>13, RowsCovered DEF Tick
<1>14. CASE Crash
  <2>1. \A s \in Clients : session'[s] = IF Registered(s) THEN ClosedSession ELSE session[s]
    BY <1>14 DEF Crash
  <2>2. ~ClosedSession.polling
    BY DEF ClosedSession, NewSession
  <2>3. \A s \in Clients : ~Registered(s) => ~session[s].polling
    BY DEF SessionShape
  <2> QED
    BY <2>1, <2>2, <2>3 DEF PagesCoverOnce
<1>15. CASE UNCHANGED vars
  BY <1>15, RowsCovered DEF vars
<1> QED
  BY <1>1, <1>2, <1>3, <1>4, <1>5, <1>6, <1>7, <1>8, <1>9, <1>10, <1>11, <1>12, <1>13,
     <1>14, <1>15 DEF Next, CallStep, SessionStep

(* ---- What is known ------------------------------------------------------------ *)

\* A step of the server that tells nobody anything, seen by a registered session
\* and a document: an event is due, or nothing changed.
Quietly(d, s) ==
  \/ Pending(d, s)'
  \/ d \notin quiet /\ ~Pending(d, s) /\ rows'[d] = rows[d]

\* A call's step that leaves owed what was.
LEMMA StillPending ==
  ASSUME TypeOK, NEW w \in Calls, NEW c, call' = [call EXCEPT ![w] = c], NEW d, NEW s,
         Owed(call[w], d, s) => Owed(c, d, s)
  PROVE  Pending(d, s) => Pending(d, s)'
<1> SUFFICES ASSUME NEW v \in Calls, Owed(call[v], d, s)
             PROVE  \E u \in Calls : Owed(call'[u], d, s)
  BY DEF Pending, Owed
<1>1. call'[v] = IF v = w THEN c ELSE call[v]
  BY DEF TypeOK
<1> QED
  BY <1>1

\* A call that owes an event makes it pending.
LEMMA NowPending ==
  ASSUME TypeOK, NEW w \in Calls, NEW c, call' = [call EXCEPT ![w] = c], NEW d, NEW s, Owed(c, d, s)
  PROVE  Pending(d, s)'
<1>1. call'[w] = c
  BY DEF TypeOK
<1> QED
  BY <1>1 DEF Pending, Owed

\* Once every session that can hear of the head has, only the tail is owed.
LEMMA EventDoneOwes ==
  ASSUME NEW c \in CallRecords, c.pc = "notify", c.events # <<>>, NEW d, NEW s,
         Owed(c, d, s), d = Head(c.events) => d \in ToSet(Tail(c.events))
  PROVE  Owed(EventDone(c), d, s)
<1> DEFINE e == EventDone(c)
<1>1. d \in ToSet(Tail(c.events))
  BY DEF Owed
<1>2. Tail(c.events) # <<>>
  BY <1>1 DEF ToSet
<1>3. /\ e \in CallRecords /\ e.pc = "notify" /\ e.events = Tail(c.events) /\ e.events # <<>>
      /\ ~e.walking
  BY <1>2, EventDoneIs
<1>4. ToSet(e.events) = {Head(e.events)} \union ToSet(Tail(e.events))
  BY <1>3, EventDoneIs
<1> QED
  BY <1>1, <1>3, <1>4 DEF Owed

\* A call that begins owes nothing new.
LEMMA BeginQuietly ==
  ASSUME TypeOK, CallShape, NEW w \in Calls, NEW kind, NEW D, Begin(w, kind, D), NEW d \in Docs, NEW s, d \notin quiet'
  PROVE  Quietly(d, s)
<1> DEFINE c == [call[w] EXCEPT !.pc = "index", !.kind = kind, !.todo = D]
<1>1. call' = [call EXCEPT ![w] = c] /\ call[w].pc = "idle" /\ rows' = rows /\ quiet' = quiet
  BY DEF Begin
<1>2. ~Owed(call[w], d, s)
  BY <1>1 DEF Owed
<1> HIDE DEF c
<1>3. Pending(d, s) => Pending(d, s)'
  BY <1>1, <1>2, StillPending
<1> QED
  BY <1>1, <1>3 DEF Quietly

\* A call that put a row owes its event.
LEMMA IndexQuietly ==
  ASSUME TypeOK, CallShape, NEW w \in Calls, NEW x \in Docs, Index(w, x), NEW d \in Docs, NEW s, d \notin quiet'
  PROVE  Quietly(d, s)
<1> DEFINE c == [[[call[w] EXCEPT !.todo = call[w].todo \ {x}] EXCEPT !.done = call[w].done \union {x}]
                     EXCEPT !.pc = IF call[w].todo = {x} THEN "commit" ELSE call[w].pc]
<1>1. call[w] \in CallRecords
  BY DEF TypeOK
<1>2. /\ c.pc = (IF call[w].todo = {x} THEN "commit" ELSE call[w].pc)
      /\ c.kind = call[w].kind /\ c.done = call[w].done \union {x}
  BY <1>1 DEF CallRecords
<1>3. call' = [call EXCEPT ![w] = c] /\ call[w].pc = "index" /\ quiet' = quiet
  BY DEF Index, TypeOK
<1> HIDE DEF c
<1>4. c.pc \in {"index", "commit"}
  BY <1>2, <1>3
<1>5. Owed(call[w], d, s) => Owed(c, d, s)
  BY <1>2, <1>3, <1>4 DEF Owed
<1>6. Pending(d, s) => Pending(d, s)'
  BY <1>3, <1>5, StillPending
<1>7. CASE rows'[d] = rows[d]
  BY <1>3, <1>6, <1>7 DEF Quietly
<1>8. CASE rows'[d] # rows[d]
  <2>1. d = x /\ call[w].kind # "noop"
    BY <1>8, IndexRows
  <2>2. Owed(c, d, s)
    BY <1>2, <1>4, <2>1 DEF Owed
  <2> QED
    BY <1>3, <2>2, NowPending DEF Quietly
<1> QED
  BY <1>7, <1>8

\* What a commit put on its way is due, what a failed one did is quiet.
LEMMA CommitQuietly ==
  ASSUME TypeOK, CallShape, NEW w \in Calls, Commit(w), NEW d \in Docs, NEW s, d \notin quiet'
  PROVE  Quietly(d, s)
<1> DEFINE c == [call[w] EXCEPT !.pc = "notify", !.events = SetToSeq(Announced(w))]
<1>1. call[w] \in CallRecords /\ call[w].done \in SUBSET Docs
  BY DEF TypeOK, CallRecords
<1>2. /\ c.pc = "notify" /\ c.events = SetToSeq(Announced(w)) /\ c.walking = call[w].walking
  BY <1>1 DEF CallRecords
<1>3. call[w].pc = "commit" /\ rows' = rows
  BY DEF Commit
<1>4. Owed(call[w], d, s) => call[w].kind # "noop" /\ d \in call[w].done
  BY <1>3 DEF Owed
<1>5. ~call[w].walking
  BY <1>3 DEF CallShape
<1>6. CASE Announced(w) # {} /\ call' = [call EXCEPT ![w] = c] /\
           quiet' = IF call[w].kind = "noop" THEN quiet ELSE quiet \ call[w].done
  <2>1. c.events # <<>> /\ ToSet(c.events) = call[w].done /\ c.events \in Seq(Docs)
    <3>1. ToSet(c.events) = call[w].done /\ c.events \in Seq(call[w].done)
      BY <1>1, <1>2, SetToSeqIs DEF Announced
    <3>2. c.events # <<>>
      BY <1>6, <3>1 DEF ToSet, Announced
    <3> QED
      BY <1>1, <3>1, <3>2
  <2>2. c \in CallRecords
    <3>1. SetToSeq(Announced(w)) \in SeqOf(Docs, Cardinality(Docs))
      BY <1>1, SetToSeqIs DEF Announced
    <3> QED
      BY <1>1, <3>1 DEF CallRecords
  <2>3. ToSet(c.events) = {Head(c.events)} \union ToSet(Tail(c.events))
    BY <2>1, <2>2, EventDoneIs
  <2> HIDE DEF c
  <2>4. d \in call[w].done => Owed(c, d, s)
    BY <1>2, <1>5, <2>1, <2>3 DEF Owed
  <2>5. d \in call[w].done => Pending(d, s)'
    BY <1>6, <2>4, NowPending
  <2>6. d \notin call[w].done => d \notin quiet
    BY <1>6
  <2>7. Pending(d, s) => Pending(d, s)'
    BY <1>4, <1>6, <2>4, StillPending
  <2> QED
    BY <1>3, <2>5, <2>6, <2>7 DEF Quietly
<1>7. CASE /\ call' = [call EXCEPT ![w] = NoCall]
           /\ \/ Announced(w) = {}
                 /\ quiet' = (IF call[w].kind = "noop" THEN quiet ELSE quiet \ call[w].done)
              \/ quiet' = (IF call[w].kind = "noop" THEN quiet ELSE quiet \union call[w].done)
  <2>1. d \notin quiet /\ ~Owed(call[w], d, s)
    BY <1>4, <1>7 DEF Announced
  <2>2. Pending(d, s) => Pending(d, s)'
    BY <1>7, <2>1, StillPending
  <2> QED
    BY <1>3, <2>1, <2>2 DEF Quietly
<1> QED
  BY <1>6, <1>7 DEF Commit

\* A walk takes every registered session.
LEMMA WalkQuietly ==
  ASSUME TypeOK, CallShape, NEW w \in Calls, Walk(w), NEW d \in Docs, NEW s \in Clients, Registered(s), d \notin quiet'
  PROVE  Quietly(d, s)
<1> DEFINE c == [call[w] EXCEPT !.walking = TRUE, !.to = {t \in Clients : Registered(t)}]
<1>1. call[w] \in CallRecords
  BY DEF TypeOK
<1>2. c.pc = call[w].pc /\ c.kind = call[w].kind /\ c.done = call[w].done /\ c.events = call[w].events /\ s \in c.to
  BY <1>1 DEF CallRecords
<1>3. call' = [call EXCEPT ![w] = c] /\ rows' = rows /\ quiet' = quiet
  BY DEF Walk
<1> HIDE DEF c
<1>4. Owed(call[w], d, s) => Owed(c, d, s)
  BY <1>2 DEF Owed
<1>5. Pending(d, s) => Pending(d, s)'
  BY <1>3, <1>4, StillPending
<1> QED
  BY <1>3, <1>5 DEF Quietly

\* What a reindex changes is quiet.
LEMMA ReindexQuietly ==
  ASSUME TypeOK, NEW x \in Docs, Reindex(x), NEW d \in Docs, NEW s, d \notin quiet'
  PROVE  Quietly(d, s)
<1>1. d # x /\ d \notin quiet /\ call' = call
  BY DEF Reindex
<1>2. rows'[d] = rows[d]
  BY <1>1, ReindexRows
<1>3. Pending(d, s) => Pending(d, s)'
  BY <1>1 DEF Pending, Owed
<1> QED
  BY <1>1, <1>2, <1>3 DEF Quietly

\* What a session knows survives such a step.
LEMMA QuietStep ==
  ASSUME TypeOK, SessionShape, CaughtUp, CatchingUp, session' = session, known' = known,
         \A s \in Clients, d \in Docs : Registered(s) /\ d \notin quiet' => Quietly(d, s)
  PROVE  CaughtUp' /\ CatchingUp'
<1>1. ASSUME NEW s \in Clients, session[s].current \/ session[s].both
      PROVE  Registered(s) /\ session[s].sub \subseteq Docs
  <2>1. session[s] \in SessionRecords
    BY DEF TypeOK
  <2>2. session[s].sub \in Filters \union {Nobody}
    BY <2>1 DEF SessionRecords
  <2> QED
    BY <1>1, <2>2 DEF SessionShape, Nobody
<1>2. ASSUME NEW d \in Docs, rows'[d] = rows[d]
      PROVE  Live(d)' = Live(d) /\ Content(d)' = Content(d) /\ Key(d)' = Key(d)
  BY <1>2 DEF Live, Content, Key
<1>3. CaughtUp'
  <2> SUFFICES ASSUME NEW s \in Clients, session[s].current, NEW d \in session[s].sub, d \notin quiet', ~Pending(d, s)'
               PROVE  known[s][d] = Content(d)'
    BY DEF CaughtUp
  <2>1. d \in Docs /\ Quietly(d, s)
    BY <1>1
  <2>2. d \notin quiet /\ ~Pending(d, s) /\ rows'[d] = rows[d]
    BY <2>1 DEF Quietly
  <2> QED
    BY <1>2, <2>1, <2>2 DEF CaughtUp
<1>4. CatchingUp'
  <2> SUFFICES ASSUME NEW s \in Clients, session[s].both, NEW d \in session[s].sub, d \notin quiet', ~Pending(d, s)'
               PROVE  \/ Live(d)' /\ After(Key(d)', session[s].cursor)
                      \/ Live(d)' /\ d \notin session[s].unheard /\ known[s][d] = Content(d)'
                      \/ ~Live(d)' /\ (d \in session[s].unheard \/ known[s][d] = Gone)
    BY DEF CatchingUp, After
  <2>1. d \in Docs /\ Quietly(d, s)
    BY <1>1
  <2>2. d \notin quiet /\ ~Pending(d, s) /\ rows'[d] = rows[d]
    BY <2>1 DEF Quietly
  <2> QED
    BY <1>2, <2>1, <2>2 DEF CatchingUp
<1> QED
  BY <1>3, <1>4

\* What CaughtUp and CatchingUp say of session s, were it r and had it read k.
Knows(s, r, k) ==
  r.current => \A d \in r.sub \ quiet : k[d] = Content(d) \/ Pending(d, s)

Learns(s, r, k) ==
  r.both => \A d \in r.sub \ quiet :
    \/ Pending(d, s)
    \/ Live(d) /\ After(Key(d), r.cursor)
    \/ Live(d) /\ d \notin r.unheard /\ k[d] = Content(d)
    \/ ~Live(d) /\ (d \in r.unheard \/ k[d] = Gone)

\* CaughtUp and CatchingUp say it of every session.
LEMMA KnowsIs ==
  /\ CaughtUp <=> \A s \in Clients : Knows(s, session[s], known[s])
  /\ CatchingUp <=> \A s \in Clients : Learns(s, session[s], known[s])
<1>1. CaughtUp <=> \A s \in Clients : Knows(s, session[s], known[s])
  BY Zenon DEF CaughtUp, Knows
<1>2. CatchingUp <=> \A s \in Clients : Learns(s, session[s], known[s])
  BY Zenon DEF CatchingUp, Learns
<1> QED
  BY <1>1, <1>2

\* A step of one session.
LEMMA OneKnows ==
  ASSUME TypeOK, CaughtUp, CatchingUp, NEW s \in Clients, NEW r, NEW k, UNCHANGED Server,
         session' = [session EXCEPT ![s] = r], known' = [known EXCEPT ![s] = k],
         Knows(s, r, k), Learns(s, r, k)
  PROVE  CaughtUp' /\ CatchingUp'
<1>1. \A t \in Clients : /\ session'[t] = IF t = s THEN r ELSE session[t]
                         /\ known'[t] = IF t = s THEN k ELSE known[t]
  BY DEF TypeOK
<1>2. \A t \in Clients : Knows(t, session'[t], known'[t]) /\ Learns(t, session'[t], known'[t])
  BY <1>1, KnowsIs
<1>3. /\ \A d : Live(d)' = Live(d) /\ Content(d)' = Content(d) /\ Key(d)' = Key(d)
      /\ \A d, t : Pending(d, t)' <=> Pending(d, t)
      /\ quiet' = quiet
  BY DEF Server, Live, Content, Key, Pending, Owed
<1>4. CaughtUp'
  <2> SUFFICES ASSUME NEW t \in Clients, session'[t].current, NEW d \in session'[t].sub \ quiet'
               PROVE  known'[t][d] = Content(d)' \/ Pending(d, t)'
    BY DEF CaughtUp
  <2> QED
    BY <1>2, <1>3 DEF Knows
<1>5. CatchingUp'
  <2> SUFFICES ASSUME NEW t \in Clients, session'[t].both, NEW d \in session'[t].sub \ quiet'
               PROVE  \/ Pending(d, t)'
                      \/ Live(d)' /\ After(Key(d)', session'[t].cursor)
                      \/ Live(d)' /\ d \notin session'[t].unheard /\ known'[t][d] = Content(d)'
                      \/ ~Live(d)' /\ (d \in session'[t].unheard \/ known'[t][d] = Gone)
    BY DEF CatchingUp, After
  <2> QED
    BY <1>2, <1>3 DEF Learns
<1> QED
  BY <1>4, <1>5

\* A session that starts anew claims to know nothing.
LEMMA RenewedKnows ==
  ASSUME TypeOK, CaughtUp, CatchingUp, NEW s \in Clients, NEW r, Renewed(s, r), ~r.current, ~r.both
  PROVE  CaughtUp' /\ CatchingUp'
BY OneKnows DEF Renewed, Knows, Learns

\* A chain begins: everything is unheard of, or after the start.
LEMMA StartChainKnows ==
  ASSUME TypeOK, SessionShape, CaughtUp, CatchingUp, NEW s \in Clients, StartChain(s)
  PROVE  CaughtUp' /\ CatchingUp'
<1> DEFINE r == [session[s] EXCEPT !.polling = TRUE, !.since = changes, !.both = session[s].sub # Nobody,
                                   !.unheard = IF session[s].sub # Nobody THEN Docs ELSE {}]
           k == known[s]
<1>1. session[s] \in SessionRecords /\ ~session[s].polling /\ rows \in [Docs -> Row]
  BY DEF StartChain, TypeOK
<1>2. /\ session' = [session EXCEPT ![s] = r] /\ known' = [known EXCEPT ![s] = k]
      /\ UNCHANGED Server
  BY DEF StartChain, TypeOK
<1>3. /\ r.current = session[s].current /\ r.sub = session[s].sub /\ r.cursor = session[s].cursor
      /\ r.both => r.unheard = Docs
  BY <1>1 DEF SessionRecords
<1>4. r.cursor = Start
  BY <1>1, <1>3 DEF SessionShape
<1>5. session[s].sub \subseteq Docs
  BY <1>1 DEF SessionRecords, Nobody
<1> HIDE DEF r
<1>6. Knows(s, r, k)
  BY <1>3 DEF Knows, CaughtUp
<1>7. Learns(s, r, k)
  BY <1>1, <1>3, <1>4, <1>5, AfterStart DEF Learns
<1> QED
  BY <1>2, <1>6, <1>7, OneKnows

\* A page, and what the end of a chain means for what no page spoke of.
LEMMA PollKnows ==
  ASSUME TypeOK, SessionShape, CaughtUp, CatchingUp, NEW s \in Clients, Poll(s)
  PROVE  CaughtUp' /\ CatchingUp'
<1> DEFINE cursor == session[s].cursor
           list   == Listed(cursor)
           page   == PageOf(list)
           P      == ToSet(page)
           silent == session[s].unheard \ P
           r == [session[s] EXCEPT !.cursor = Key(Last(page)), !.unheard = silent, !.emitted = Counted(s, P)]
           e == ChainEnds(session[s])
           k == Read(s, P)
           m == [d \in Docs |-> IF d \in silent THEN Gone ELSE k[d]]
<1>1. session[s] \in SessionRecords /\ rows \in [Docs -> Row]
  BY DEF TypeOK
<1>2. session[s].sub \subseteq Docs
  BY <1>1 DEF SessionRecords, Nobody
<1>3. \/ HasMore(list) /\ session' = [session EXCEPT ![s] = r] /\ known' = [known EXCEPT ![s] = k]
      \/ ~HasMore(list) /\ session' = [session EXCEPT ![s] = e] /\ known' = [known EXCEPT ![s] = m]
  BY DEF Poll
<1>4. UNCHANGED Server
  BY DEF Poll
<1>5. /\ r.current = session[s].current /\ r.both = session[s].both /\ r.sub = session[s].sub
      /\ r.cursor = Key(Last(page)) /\ r.unheard = silent
  BY <1>1 DEF SessionRecords
<1>6. /\ e.current => session[s].current \/ session[s].both
      /\ ~e.both /\ e.sub = session[s].sub
  BY <1>1 DEF SessionRecords, ChainEnds
<1>7. \A d \in P : d \in Docs /\ Live(d) /\ After(Key(d), cursor)
  <2>1. P \subseteq Found(cursor)
    BY <1>1, PageIs
  <2> HIDE DEF P
  <2> QED
    BY <2>1 DEF Found
<1>8. ASSUME HasMore(list)
      PROVE  \A d \in Docs : Live(d) /\ After(Key(d), cursor) /\ d \notin P => After(Key(d), Key(Last(page)))
  <2>1. P = {d \in Found(cursor) : ~After(Key(d), Key(Last(page)))}
    BY <1>1, <1>8, PageIs
  <2> HIDE DEF P, page
  <2> QED
    BY <2>1 DEF Found
<1>9. ASSUME ~HasMore(list)
      PROVE  \A d \in Docs : Live(d) /\ After(Key(d), cursor) => d \in P
  <2>1. P = Found(cursor)
    BY <1>1, <1>9, PageIs
  <2> HIDE DEF P, page
  <2> QED
    BY <2>1 DEF Found
<1>10. ASSUME session[s].current \/ session[s].both
       PROVE  \A d \in Docs : k[d] = IF d \in P THEN Content(d) ELSE known[s][d]
  BY <1>10 DEF Read, Listening
<1>11. ~session[s].both => session[s].unheard = {}
  BY DEF SessionShape
<1>12. \A d \in Docs : ~Live(d) => Content(d) = Gone
  BY DEF Content
<1>13. Knows(s, session[s], known[s]) /\ Learns(s, session[s], known[s])
  BY KnowsIs
<1>14. \A d \in Docs : m[d] = IF d \in silent THEN Gone ELSE k[d]
  OBVIOUS
<1> HIDE DEF r, e, k, m, P, page, list, cursor
<1>15. CASE HasMore(list)
  <2>1. Knows(s, r, k)
    BY <1>2, <1>5, <1>10, <1>13 DEF Knows
  <2>2. Learns(s, r, k)
    <3>1. SUFFICES ASSUME session[s].both, NEW d \in session[s].sub \ quiet, ~Pending(d, s)
                   PROVE  \/ Live(d) /\ After(Key(d), Key(Last(page)))
                          \/ Live(d) /\ d \notin silent /\ k[d] = Content(d)
                          \/ ~Live(d) /\ (d \in silent \/ k[d] = Gone)
      BY <1>5 DEF Learns
    <3>2. d \in Docs /\ k[d] = (IF d \in P THEN Content(d) ELSE known[s][d])
      BY <1>2, <1>10, <3>1
    <3>3. CASE Live(d) /\ After(Key(d), cursor)
      BY <1>8, <1>15, <3>2, <3>3
    <3>4. CASE Live(d) /\ d \notin session[s].unheard /\ known[s][d] = Content(d)
      BY <3>2, <3>4
    <3>5. CASE ~Live(d) /\ (d \in session[s].unheard \/ known[s][d] = Gone)
      BY <1>7, <3>2, <3>5
    <3> QED
      BY <1>13, <3>1, <3>3, <3>4, <3>5 DEF Learns, cursor
  <2> QED
    BY <1>3, <1>4, <1>15, <2>1, <2>2, OneKnows
<1>16. CASE ~HasMore(list)
  <2>1. Knows(s, e, m)
    <3>1. SUFFICES ASSUME session[s].current \/ session[s].both, NEW d \in session[s].sub \ quiet, ~Pending(d, s)
                   PROVE  m[d] = Content(d)
      BY <1>6 DEF Knows
    <3>2. d \in Docs /\ k[d] = (IF d \in P THEN Content(d) ELSE known[s][d])
      BY <1>2, <1>10, <3>1
    <3>3. m[d] = IF d \in silent THEN Gone ELSE k[d]
      BY <1>14, <3>2
    <3>4. CASE session[s].both
      <4>1. CASE Live(d) /\ After(Key(d), cursor)
        BY <1>9, <1>16, <3>2, <3>3, <4>1
      <4>2. CASE Live(d) /\ d \notin session[s].unheard /\ known[s][d] = Content(d)
        BY <3>2, <3>3, <4>2
      <4>3. CASE ~Live(d) /\ (d \in session[s].unheard \/ known[s][d] = Gone)
        BY <1>7, <1>12, <3>2, <3>3, <4>3
      <4> QED
        BY <1>13, <3>1, <3>4, <4>1, <4>2, <4>3 DEF Learns, cursor
    <3>5. CASE ~session[s].both
      <4>1. known[s][d] = Content(d)
        BY <1>13, <3>1, <3>5 DEF Knows
      <4>2. d \notin silent
        BY <1>11, <3>5
      <4> QED
        BY <3>2, <3>3, <4>1, <4>2
    <3> QED
      BY <3>4, <3>5
  <2>2. Learns(s, e, m)
    BY <1>6 DEF Learns
  <2> QED
    BY <1>3, <1>4, <1>16, <2>1, <2>2, OneKnows
<1> QED
  BY <1>15, <1>16

\* An event offered to session s: its client reads the document, others are
\* still to be offered what they were.
LEMMA DeliverKnows ==
  ASSUME TypeOK, CallShape, SessionShape, CaughtUp, CatchingUp,
         NEW w \in Calls, NEW s \in Clients, Deliver(w, s)
  PROVE  CaughtUp' /\ CatchingUp'
<1> DEFINE c == [call[w] EXCEPT !.to = call[w].to \ {s}]
           h == Head(call[w].events)
           r == [session[s] EXCEPT !.unheard = session[s].unheard \ {h}]
           k == Read(s, {h})
           heard == h \in session[s].sub /\ session[s].notifier
<1>1. call[w] \in CallRecords /\ s \in call[w].to /\ rows' = rows /\ quiet' = quiet
  BY DEF Deliver, TypeOK
<1>2. call[w].walking /\ call[w].pc = "notify" /\ call[w].events # <<>>
  BY <1>1 DEF CallShape
<1>3. /\ c.pc = call[w].pc /\ c.events = call[w].events /\ c.walking = call[w].walking
      /\ c.to = call[w].to \ {s}
  BY <1>1 DEF CallRecords
<1>4. \/ call[w].to = {s} /\ call' = [call EXCEPT ![w] = EventDone(call[w])]
      \/ call[w].to # {s} /\ call' = [call EXCEPT ![w] = c]
  BY DEF Deliver
<1>5. \/ ~heard /\ known' = known /\ session' = session
      \/ known' = [known EXCEPT ![s] = k] /\ session' = [session EXCEPT ![s] = r]
  BY DEF Deliver
<1> HIDE DEF c
<1>6. ASSUME NEW d, NEW t, d # h \/ t # s
      PROVE  Pending(d, t) => Pending(d, t)'
  <2>1. CASE call[w].to = {s}
    <3>1. ASSUME Owed(call[w], d, t)
          PROVE  Owed(EventDone(call[w]), d, t)
      <4>1. d = h => d \in ToSet(Tail(call[w].events))
        BY <1>2, <1>6, <2>1, <3>1 DEF Owed
      <4> QED
        BY <1>1, <1>2, <3>1, <4>1, EventDoneOwes
    <3> QED
      BY <1>4, <2>1, <3>1, StillPending
  <2>2. CASE call[w].to # {s}
    <3>1. Owed(call[w], d, t) => Owed(c, d, t)
      BY <1>2, <1>3, <1>6 DEF Owed
    <3> QED
      BY <1>4, <2>2, <3>1, StillPending
  <2> QED
    BY <2>1, <2>2
<1>7. \A d : Live(d)' = Live(d) /\ Content(d)' = Content(d) /\ Key(d)' = Key(d)
  BY <1>1 DEF Live, Content, Key
<1>8. session[s] \in SessionRecords /\ session[s].sub \subseteq Docs
  BY DEF TypeOK, SessionRecords, Nobody
<1>9. /\ r.current = session[s].current /\ r.both = session[s].both /\ r.sub = session[s].sub
      /\ r.cursor = session[s].cursor /\ r.unheard = session[s].unheard \ {h}
  BY <1>8 DEF SessionRecords
<1>10. \A t \in Clients : /\ session'[t] = session[t] \/ (t = s /\ session'[t] = r)
                          /\ known'[t] = known[t] \/ (t = s /\ known'[t] = k)
  BY <1>5 DEF TypeOK
<1>11. session[s].current \/ session[s].both =>
         /\ \A d \in Docs : k[d] = IF d = h THEN Content(d) ELSE known[s][d]
         /\ session[s].notifier
  BY DEF Read, Listening, SessionShape
<1>12. \A d \in Docs : ~Live(d) => Content(d) = Gone
  BY DEF Content
<1>14. \A t \in Clients : Knows(t, session[t], known[t]) /\ Learns(t, session[t], known[t])
  BY KnowsIs
<1> HIDE DEF r, k, h, heard
<1>13. \/ session'[s] = session[s] /\ known'[s] = known[s] /\ ~heard
       \/ session'[s] = r /\ known'[s] = k
  <2>1. session \in [Clients -> SessionRecords] /\ known \in [Clients -> [Docs -> 0..MaxChanges]]
    BY DEF TypeOK
  <2>2. CASE ~heard /\ known' = known /\ session' = session
    BY <2>2
  <2>3. CASE known' = [known EXCEPT ![s] = k] /\ session' = [session EXCEPT ![s] = r]
    BY <2>1, <2>3
  <2> QED
    BY <1>5, <2>2, <2>3
<1>15. CaughtUp'
  <2> SUFFICES ASSUME NEW t \in Clients, session'[t].current, NEW d \in session'[t].sub \ quiet', ~Pending(d, t)'
               PROVE  known'[t][d] = Content(d)
    BY <1>7 DEF CaughtUp
  <2>1. session[t].current /\ d \in session[t].sub \ quiet
    BY <1>1, <1>9, <1>10
  <2>2. CASE t # s
    BY <1>6, <1>10, <1>14, <2>1, <2>2 DEF Knows
  <2>3. CASE t = s /\ d = h
    BY <1>8, <1>11, <1>13, <2>1, <2>3 DEF heard
  <2>4. CASE t = s /\ d # h
    BY <1>6, <1>8, <1>10, <1>11, <1>14, <2>1, <2>4 DEF Knows
  <2> QED
    BY <2>2, <2>3, <2>4
<1>16. CatchingUp'
  <2> SUFFICES ASSUME NEW t \in Clients, session'[t].both, NEW d \in session'[t].sub \ quiet', ~Pending(d, t)'
               PROVE  \/ Live(d) /\ After(Key(d), session'[t].cursor)
                      \/ Live(d) /\ d \notin session'[t].unheard /\ known'[t][d] = Content(d)
                      \/ ~Live(d) /\ (d \in session'[t].unheard \/ known'[t][d] = Gone)
    BY <1>7 DEF CatchingUp, After
  <2>1. session[t].both /\ d \in session[t].sub \ quiet
    BY <1>1, <1>9, <1>10
  <2>2. CASE t # s
    BY <1>6, <1>10, <1>14, <2>1, <2>2 DEF Learns
  <2>3. CASE t = s /\ d = h
    <3>1. session'[t] = r /\ known'[t] = k /\ d \in Docs
      BY <1>8, <1>11, <1>13, <2>1, <2>3 DEF heard
    <3>2. known'[t][d] = Content(d)
      BY <1>11, <2>1, <2>3, <3>1
    <3> QED
      BY <1>9, <1>12, <2>3, <3>1, <3>2
  <2>4. CASE t = s /\ d # h
    <3>1. d \in Docs /\ known'[t][d] = known[t][d] /\ (d \in session'[t].unheard <=> d \in session[t].unheard)
          /\ session'[t].cursor = session[t].cursor
      BY <1>8, <1>9, <1>10, <1>11, <2>1, <2>4
    <3> QED
      BY <1>6, <1>14, <2>1, <2>4, <3>1 DEF Learns
  <2> QED
    BY <2>2, <2>3, <2>4
<1> QED
  BY <1>15, <1>16

\* What the clients know stays true, or an event of it is due.
LEMMA KnownKept ==
  ASSUME TypeOK, CallShape, SessionShape, CaughtUp, CatchingUp, [Next]_vars
  PROVE  CaughtUp' /\ CatchingUp'
<1>1. ASSUME NEW w \in Calls, NEW kind \in {"write", "delete", "noop"}, NEW D \in SUBSET Docs,
             Begin(w, kind, D)
      PROVE  CaughtUp' /\ CatchingUp'
  <2>1. \A s \in Clients, d \in Docs : Registered(s) /\ d \notin quiet' => Quietly(d, s)
    BY <1>1, BeginQuietly
  <2>2. session' = session /\ known' = known
    BY <1>1 DEF Begin
  <2> QED
    BY <2>1, <2>2, QuietStep
<1>2. ASSUME NEW w \in Calls, NEW d \in Docs, Index(w, d)
      PROVE  CaughtUp' /\ CatchingUp'
  <2>1. \A s \in Clients, e \in Docs : Registered(s) /\ e \notin quiet' => Quietly(e, s)
    BY <1>2, IndexQuietly
  <2>2. session' = session /\ known' = known
    BY <1>2 DEF Index
  <2> QED
    BY <2>1, <2>2, QuietStep
<1>3. ASSUME NEW w \in Calls, Commit(w)
      PROVE  CaughtUp' /\ CatchingUp'
  <2>1. \A s \in Clients, d \in Docs : Registered(s) /\ d \notin quiet' => Quietly(d, s)
    BY <1>3, CommitQuietly
  <2>2. session' = session /\ known' = known
    BY <1>3 DEF Commit
  <2> QED
    BY <2>1, <2>2, QuietStep
<1>4. ASSUME NEW w \in Calls, Walk(w)
      PROVE  CaughtUp' /\ CatchingUp'
  <2>1. \A s \in Clients, d \in Docs : Registered(s) /\ d \notin quiet' => Quietly(d, s)
    BY <1>4, WalkQuietly
  <2>2. session' = session /\ known' = known
    BY <1>4 DEF Walk
  <2> QED
    BY <2>1, <2>2, QuietStep
<1>5. ASSUME NEW w \in Calls, NEW s \in Clients, Deliver(w, s)
      PROVE  CaughtUp' /\ CatchingUp'
  BY <1>5, DeliverKnows
<1>6. ASSUME NEW s \in Clients, Open(s)
      PROVE  CaughtUp' /\ CatchingUp'
  <2> DEFINE r == [session[s] EXCEPT !.open = "open", !.notifier = TRUE]
  <2>1. session[s] \in SessionRecords /\ ~session[s].current /\ ~session[s].both
    BY <1>6 DEF Open, SessionShape, Registered, TypeOK
  <2>2. ~r.current /\ ~r.both
    BY <2>1 DEF SessionRecords
  <2> QED
    BY <1>6, <2>2, RenewedKnows DEF Open
<1>7. ASSUME NEW s \in Clients, Unsubscribe(s)
      PROVE  CaughtUp' /\ CatchingUp'
  <2>1. session[s] \in SessionRecords
    BY DEF TypeOK
  <2>2. ~WithFilter(s, Nobody).current /\ ~WithFilter(s, Nobody).both
    BY <2>1 DEF SessionRecords, WithFilter
  <2> QED
    BY <1>7, <2>2, RenewedKnows DEF Unsubscribe
<1>8. ASSUME NEW s \in Clients, Close(s)
      PROVE  CaughtUp' /\ CatchingUp'
  <2>1. PICK left \in BOOLEAN : Renewed(s, [ClosedSession EXCEPT !.notifier = left])
    BY <1>8 DEF Close
  <2>2. ~[ClosedSession EXCEPT !.notifier = left].current /\ ~[ClosedSession EXCEPT !.notifier = left].both
    BY DEF ClosedSession, NewSession
  <2> QED
    BY <2>1, <2>2, RenewedKnows
<1>9. ASSUME NEW s \in Clients, NEW f \in Filters, Subscribe(s, f)
      PROVE  CaughtUp' /\ CatchingUp'
  <2>1. session[s] \in SessionRecords
    BY DEF TypeOK
  <2>2. ~WithFilter(s, f).current /\ ~WithFilter(s, f).both
    BY <2>1 DEF SessionRecords, WithFilter
  <2> QED
    BY <1>9, <2>2, RenewedKnows DEF Subscribe
<1>10. ASSUME NEW s \in Clients, StartChain(s)
       PROVE  CaughtUp' /\ CatchingUp'
  BY <1>10, StartChainKnows
<1>11. ASSUME NEW s \in Clients, Poll(s)
       PROVE  CaughtUp' /\ CatchingUp'
  BY <1>11, PollKnows
<1>12. ASSUME NEW d \in Docs, Reindex(d)
       PROVE  CaughtUp' /\ CatchingUp'
  <2>1. \A s \in Clients, e \in Docs : Registered(s) /\ e \notin quiet' => Quietly(e, s)
    BY <1>12, ReindexQuietly
  <2>2. session' = session /\ known' = known
    BY <1>12 DEF Reindex
  <2> QED
    BY <2>1, <2>2, QuietStep
<1>13. CASE Tick
  <2>1. \A s \in Clients, d \in Docs : Registered(s) /\ d \notin quiet' => Quietly(d, s)
    BY <1>13 DEF Tick, Quietly, Pending, Owed
  <2>2. session' = session /\ known' = known
    BY <1>13 DEF Tick
  <2> QED
    BY <2>1, <2>2, QuietStep
<1>14. CASE Crash
  <2>1. \A s \in Clients : session'[s] = IF Registered(s) THEN ClosedSession ELSE session[s]
    BY <1>14 DEF Crash
  <2>2. ~ClosedSession.current /\ ~ClosedSession.both
    BY DEF ClosedSession, NewSession
  <2>3. \A s \in Clients : ~Registered(s) => ~session[s].current /\ ~session[s].both
    BY DEF SessionShape
  <2> QED
    BY <2>1, <2>2, <2>3 DEF CaughtUp, CatchingUp
<1>15. CASE UNCHANGED vars
  <2>1. \A s \in Clients, d \in Docs : Registered(s) /\ d \notin quiet' => Quietly(d, s)
    BY <1>15 DEF vars, Quietly, Pending, Owed
  <2>2. session' = session /\ known' = known
    BY <1>15 DEF vars
  <2> QED
    BY <2>1, <2>2, QuietStep
<1> QED
  BY <1>1, <1>2, <1>3, <1>4, <1>5, <1>6, <1>7, <1>8, <1>9, <1>10, <1>11, <1>12, <1>13,
     <1>14, <1>15 DEF Next, CallStep, SessionStep

(* ---- The theorems ---------------------------------------------------------------- *)

LEMMA InitInv == Init => Inv
<1> SUFFICES ASSUME Init PROVE Inv
  OBVIOUS
<1>1. rows \in [Docs -> Row]
  <2>1. NoRow \in Row /\ [NoRow EXCEPT !.content = 1] \in Row
    <3>1. 0 \in 0..MaxChanges /\ 1 \in 0..MaxChanges /\ 0 \in 0..MaxClock
      OBVIOUS
    <3>2. NoRow \in Row
      BY <3>1 DEF NoRow, Row, Gone, Times
    <3> QED
      BY <3>1, <3>2 DEF Row
  <2>2. PICK D \in SUBSET Docs : rows = [d \in Docs |-> IF d \in D THEN [NoRow EXCEPT !.content = 1] ELSE NoRow]
    BY DEF Init
  <2> QED
    BY <2>1, <2>2
<1>2. NewSession \in SessionRecords
  <2>1. /\ Start \in Keys \union {Start} /\ [d \in Docs |-> 0] \in [Docs -> 0..2] /\ 0 \in 0..MaxChanges
        /\ {} \subseteq Docs
    OBVIOUS
  <2> QED
    BY <2>1 DEF SessionRecords, NewSession, Nobody
<1>3. TypeOK
  <2>1. /\ clock = 0 /\ changes = 1 /\ quiet = {} /\ lock = Free
        /\ call = [w \in Calls |-> NoCall]
        /\ session = [s \in Clients |-> NewSession]
        /\ known = [s \in Clients |-> [d \in Docs |-> Gone]]
    BY DEF Init
  <2>2. call \in [Calls -> CallRecords] /\ session \in [Clients -> SessionRecords]
    BY <1>2, <2>1, NoCallIs
  <2>3. clock \in Times /\ changes \in 0..MaxChanges /\ quiet \subseteq Docs /\ lock \in Calls \union {Free}
    BY <2>1 DEF Times
  <2>4. known \in [Clients -> [Docs -> 0..MaxChanges]]
    BY <2>1 DEF Gone
  <2> QED
    BY <1>1, <2>2, <2>3, <2>4 DEF TypeOK
<1>4. CallShape
  <2>1. \A w \in Calls : call[w] = NoCall /\ lock # w
    BY DEF Init
  <2> QED
    BY <2>1 DEF CallShape, NoCall
<1>5. \A s \in Clients : session[s] = NewSession
  BY DEF Init
<1>6. Sound(NewSession, changes)
  <2> DEFINE r == NewSession
  <2>1. /\ r.open = "not yet" /\ ~r.polling /\ ~r.current /\ ~r.both /\ r.since = 0 /\ r.cursor = Start
        /\ r.emitted = [d \in Docs |-> 0] /\ r.unheard = {}
    BY DEF NewSession
  <2>2. changes = 1
    BY DEF Init
  <2>3. r.since <= changes
    <3>1. r.since = 0
      BY DEF NewSession
    <3>2. 0 <= changes
      BY <2>2
    <3> QED
      BY <3>1, <3>2
  <2> HIDE DEF r
  <2>4. Sound(r, changes)
    BY <2>1, <2>3 DEF Sound
  <2> QED
    BY <2>4 DEF r
<1>7. SessionShape
  BY <1>5, <1>6, SoundIs
<1>8. ~NewSession.polling /\ ~NewSession.current /\ ~NewSession.both
  BY DEF NewSession
<1>9. PagesCoverOnce /\ CaughtUp /\ CatchingUp
  BY <1>5, <1>8 DEF PagesCoverOnce, CaughtUp, CatchingUp
<1> QED
  BY <1>3, <1>4, <1>7, <1>9 DEF Inv, Shape

LEMMA NextInv == Inv /\ [Next]_vars => Inv'
<1> SUFFICES ASSUME Inv, [Next]_vars PROVE Inv'
  OBVIOUS
<1>1. TypeOK /\ CallShape /\ SessionShape /\ PagesCoverOnce /\ CaughtUp /\ CatchingUp
  BY DEF Inv, Shape
<1>2. TypeOK'
  BY <1>1, Typed
<1>3. CallShape'
  BY <1>1, CallsShaped
<1>4. SessionShape'
  BY <1>1, <1>2, SessionsShaped
<1>5. PagesCoverOnce'
  BY <1>1, <1>2, PagesKept
<1>6. CaughtUp' /\ CatchingUp'
  BY <1>1, KnownKept
<1> QED
  BY <1>2, <1>3, <1>4, <1>5, <1>6 DEF Inv, Shape

LEMMA Invariance == Spec => []Inv
BY InitInv, NextInv, PTL DEF Spec

\* A call that still owes an event of a document is on that document.
LEMMA PendingIsInFlight ==
  ASSUME CallShape, TypeOK, NEW d, NEW s, Pending(d, s)
  PROVE  InFlight(d)
<1>1. PICK w \in Calls : Owed(call[w], d, s)
  BY DEF Pending
<1>2. d \in call[w].done
  <2>1. CASE call[w].pc = "notify"
    <3>1. call[w] \in CallRecords /\ call[w].events # <<>> /\ ToSet(call[w].events) \subseteq call[w].done
      BY <2>1 DEF CallShape, TypeOK
    <3>2. d \in ToSet(call[w].events)
      BY <1>1, <2>1, <3>1, EventDoneIs DEF Owed
    <3> QED
      BY <3>1, <3>2
  <2>2. CASE call[w].pc # "notify"
    BY <1>1, <2>2 DEF Owed
  <2> QED
    BY <2>1, <2>2
<1> QED
  BY <1>2 DEF InFlight

LEMMA InvKnows == Inv => SubscriberKnowsLatest
<1> SUFFICES ASSUME Inv, NEW s \in Clients, session[s].current, NEW d \in session[s].sub \ quiet, ~InFlight(d)
             PROVE  known[s][d] = Content(d)
  BY DEF SubscriberKnowsLatest
<1>1. CaughtUp /\ CallShape /\ TypeOK
  BY DEF Inv, Shape
<1>2. ~Pending(d, s)
  BY <1>1, PendingIsInFlight
<1> QED
  BY <1>1, <1>2 DEF CaughtUp

\* The variables stay in their domains: the table, the write calls on their way
\* to their events, and the sessions as server and client see them.
THEOREM TypeCorrect == Spec => []TypeOK
<1>1. Inv => TypeOK
  BY DEF Inv, Shape
<1> QED
  BY <1>1, Invariance, PTL

\* Whatever is written, deleted and reindexed between the pages of a chain, and
\* however many rows share a millisecond, the pages return each document that
\* was there when the chain began and was not touched since once when the cursor
\* has passed it, and not before (sqlite/index.ts listChangesSince).
THEOREM PagesCoverOnceHolds == Spec => []PagesCoverOnce
<1>1. Inv => PagesCoverOnce
  BY DEF Inv
<1> QED
  BY <1>1, Invariance, PTL

\* No announced change is lost to a client that subscribed and caught up,
\* however many calls, sessions and documents there are and in whatever order
\* their events overtake one another (notifications.ts notifyWrite).
THEOREM SubscriberKnowsLatestHolds == Spec => []SubscriberKnowsLatest
BY InvKnows, Invariance, PTL
===============================================================================
