-------------------------- MODULE AgentRuntimeProofs --------------------------
(***************************************************************************)
(* Theorems about the agent runtime (daemon/agent.rs), for any replies,    *)
(* interims and notices, any budgets, any numbers of turns, of kept        *)
(* events, of crashes and of waiting snapshots.  About ReplyQueue:         *)
(*  - its state keeps its types, and no agent speaks into a meeting;       *)
(*  - it implements SpeechOutbox: no reply is lost, spoken twice or out    *)
(*    of its turn.                                                         *)
(* About AgentTurns:                                                       *)
(*  - its state keeps its types, the harness and what is kept included;    *)
(*  - agents.json ends up with the newest state, whatever the order the    *)
(*    snapshots are written in;                                            *)
(*  - a session the user let go never comes back;                          *)
(*  - no event of the turn that runs is kept for another;                  *)
(*  - the overlay's row shows what the slot does;                          *)
(*  - a turn that works is not replaced.                                   *)
(* They rest on lemmas about Keeping, the retain of a queue, shown for     *)
(* every sequence by an induction that is stated with sets.                *)
(* AgentRepliesProofs goes on with what an agent says.                     *)
(***************************************************************************)
EXTENDS ReplyQueue, AgentTurns, SequenceTheorems, WellFoundedInduction, TLAPS
-----------------------------------------------------------------------------
(* What a queue keeps.  Keeping recurses along its queue, so what it       *)
(* returns is shown by induction on sequences; the induction is stated     *)
(* with sets, from the least element of a set of naturals.                 *)
\* Every set of naturals that has an element has a least one.
LEMMA LeastNat ==
  ASSUME NEW S \in SUBSET Nat, S # {}
  PROVE  \E m \in S : \A k \in S : m <= k
<1> DEFINE Less == OpToRel(<, Nat)
<1>1. IsWellFoundedOn(Less, Nat)
  BY NatLessThanWellFounded
<1>2. PICK m \in S : \A k \in S : <<k, m>> \notin Less
  <2> HIDE DEF Less
  <2> QED BY <1>1, WFMin
<1>3. \A k \in S : ~(k < m)
  BY <1>2 DEF OpToRel
<1> QED BY <1>3

\* Induction on the naturals, with a set in place of the predicate.
LEMMA NatBySets ==
  ASSUME NEW S, 0 \in S, \A n \in S : n + 1 \in S
  PROVE  Nat \subseteq S
<1> DEFINE Out == Nat \ S
<1> SUFFICES ASSUME Out # {} PROVE FALSE OBVIOUS
<1>1. PICK m \in Out : \A k \in Out : m <= k
  <2>1. Out \in SUBSET Nat OBVIOUS
  <2> HIDE DEF Out
  <2> QED BY <2>1, LeastNat
<1>2. m \in Nat /\ m # 0 OBVIOUS
<1>3. m - 1 \in Nat /\ (m - 1) + 1 = m BY <1>2
<1>4. m - 1 \in S BY <1>1, <1>3
<1> QED BY <1>3, <1>4

\* Induction on sequences, with a set in place of the predicate: a set with the
\* empty sequence, closed under appending, has every sequence.
LEMMA SequencesBySets ==
  ASSUME NEW X, NEW Q, <<>> \in Q, \A q \in Q \cap Seq(X), x \in X : Append(q, x) \in Q
  PROVE  Seq(X) \subseteq Q
<1> DEFINE Full == {n \in Nat : \A q \in Seq(X) : Len(q) = n => q \in Q}
<1>1. 0 \in Full
  BY EmptySeq
<1>2. ASSUME NEW n \in Full PROVE n + 1 \in Full
  <2>1. n \in Nat /\ \A q \in Seq(X) : Len(q) = n => q \in Q OBVIOUS
  <2>2. ASSUME NEW q \in Seq(X), Len(q) = n + 1 PROVE q \in Q
    <3>1. q # <<>> BY <2>1, <2>2, EmptySeq
    <3>2. PICK p \in Seq(X), x \in X : q = Append(p, x)
      BY <3>1, SequenceEmptyOrAppend
    <3>3. Len(q) = Len(p) + 1 /\ Len(p) \in Nat
      BY <3>2, AppendProperties, LenProperties
    <3>4. Len(p) = n BY <3>3, <2>2, <2>1
    <3> QED BY <2>1, <3>2, <3>4
  <2> QED BY <2>1, <2>2
<1>3. Nat \subseteq Full
  <2> HIDE DEF Full
  <2> QED BY <1>1, <1>2, NatBySets
<1>4. ASSUME NEW q \in Seq(X) PROVE q \in Q
  <2>1. Len(q) \in Full BY <1>3, LenProperties
  <2> QED BY <2>1
<1> QED BY <1>4

\* What Keeping has chosen of the first i.
ChosenUpTo(f, q, those) ==
  f = [i \in 0 .. Len(q) |->
         IF i = 0 THEN <<>>
         ELSE IF q[i] \in those THEN Append(f[i - 1], q[i]) ELSE f[i - 1]]

\* Keeping recurses along its sequence: the function it chooses exists.
LEMMA ChoiceExists ==
  ASSUME NEW X, NEW q \in Seq(X), NEW those
  PROVE  \E f : ChosenUpTo(f, q, those)
<1> DEFINE Upto(f, n) == f = [i \in 0 .. n |->
         IF i = 0 THEN <<>>
         ELSE IF q[i] \in those THEN Append(f[i - 1], q[i]) ELSE f[i - 1]]
           Good == {n \in Nat : \E f : Upto(f, n)}
<1>1. 0 \in Good
  <2>1. Upto([i \in 0 .. 0 |-> <<>>], 0)
    OBVIOUS
  <2> QED BY <2>1
<1>2. ASSUME NEW n \in Nat, NEW f, Upto(f, n)
      PROVE  \E g : Upto(g, n + 1)
  <2> DEFINE g == [i \in 0 .. n + 1 |-> IF i <= n THEN f[i] ELSE
              IF q[i] \in those THEN Append(f[i - 1], q[i]) ELSE f[i - 1]]
  <2>0. f = [i \in 0 .. n |->
         IF i = 0 THEN <<>>
         ELSE IF q[i] \in those THEN Append(f[i - 1], q[i]) ELSE f[i - 1]]
    BY <1>2
  <2>1. \A i \in 0 .. n : g[i] = f[i]
    OBVIOUS
  <2>4. \A i \in 0 .. n : f[i] = IF i = 0 THEN <<>>
         ELSE IF q[i] \in those THEN Append(f[i - 1], q[i]) ELSE f[i - 1]
    <3> DEFINE ff == [i \in 0 .. n |-> IF i = 0 THEN <<>>
         ELSE IF q[i] \in those THEN Append(f[i - 1], q[i]) ELSE f[i - 1]]
    <3>1. TAKE i \in 0 .. n
    <3>2. ff[i] = IF i = 0 THEN <<>>
         ELSE IF q[i] \in those THEN Append(f[i - 1], q[i]) ELSE f[i - 1]
      OBVIOUS
    <3>3. f = ff BY <2>0, Zenon
    <3> QED BY <3>2, <3>3, Zenon
  <2>2. \A i \in 0 .. n + 1 : g[i] = IF i = 0 THEN <<>>
         ELSE IF q[i] \in those THEN Append(g[i - 1], q[i]) ELSE g[i - 1]
    <3> TAKE i \in 0 .. n + 1
    <3>0. i = 0 \/ (i \in 1 .. n /\ i - 1 \in 0 .. n) \/ (i = n + 1 /\ n + 1 # 0 /\ i - 1 = n /\ n \in 0 .. n) OBVIOUS
    <3>1. CASE i = 0
      BY <3>1, <2>1, <2>4
    <3>2. CASE i \in 1 .. n /\ i - 1 \in 0 .. n
      <4>1. g[i] = f[i] /\ g[i - 1] = f[i - 1] /\ i # 0 /\ i \in 0 .. n BY <3>2, <2>1
      <4> HIDE DEF g
      <4> QED BY <4>1, <2>4
    <3>3. CASE i = n + 1 /\ n + 1 # 0 /\ i - 1 = n /\ n \in 0 .. n
      <4>1. g[i] = IF q[i] \in those THEN Append(f[i - 1], q[i]) ELSE f[i - 1]
        BY <3>3
      <4>2. g[i - 1] = f[i - 1] BY <3>3
      <4> HIDE DEF g
      <4> QED BY <4>1, <4>2, <3>3
    <3> HIDE DEF g
    <3> QED BY <3>0, <3>1, <3>2, <3>3
  <2>3. Upto(g, n + 1)
    <3> DEFINE gg == [i \in 0 .. n + 1 |-> IF i = 0 THEN <<>>
         ELSE IF q[i] \in those THEN Append(g[i - 1], q[i]) ELSE g[i - 1]]
    <3>1. g = [i \in 0 .. n + 1 |-> g[i]] OBVIOUS
    <3>2. gg = [i \in 0 .. n + 1 |-> g[i]]
      <4> HIDE DEF g
      <4> QED BY <2>2
    <3>3. g = gg BY <3>1, <3>2
    <3> HIDE DEF g
    <3> QED BY <3>3
  <2> HIDE DEF g, Upto
  <2> QED BY <2>3
<1>3. Nat \subseteq Good
  <2>1. ASSUME NEW n \in Good PROVE n + 1 \in Good
    <3> HIDE DEF Upto
    <3>1. n \in Nat /\ \E f : Upto(f, n) OBVIOUS
    <3> QED BY <3>1, <1>2
  <2>2. Good \subseteq Nat OBVIOUS
  <2> HIDE DEF Good
  <2> QED BY <1>1, <2>1, <2>2, NatBySets
<1>4. Len(q) \in Nat BY LenProperties
<1>5. PICK f : Upto(f, Len(q))
  <2> HIDE DEF Upto
  <2> QED BY <1>3, <1>4
<1>6. ChosenUpTo(f, q, those)
  BY <1>5 DEF ChosenUpTo
<1> QED BY <1>6
\* The function Keeping chooses: what is kept of each prefix.
Chosen(q, those) == CHOOSE f : ChosenUpTo(f, q, those)

\* What Keeping returns is the last value of that function.
LEMMA KeepingUnfolds ==
  ASSUME NEW X, NEW q \in Seq(X), NEW those
  PROVE  /\ ChosenUpTo(Chosen(q, those), q, those)
         /\ Keeping(q, those) = Chosen(q, those)[Len(q)]
<1>1. ChosenUpTo(Chosen(q, those), q, those)
  BY ChoiceExists DEF Chosen
<1>2. Keeping(q, those) = Chosen(q, those)[Len(q)]
  BY Zenon DEF Keeping, Chosen, ChosenUpTo
<1> QED BY <1>1, <1>2

\* The recursion, one step.
LEMMA ChosenStep ==
  ASSUME NEW X, NEW q \in Seq(X), NEW those, NEW i \in 0 .. Len(q)
  PROVE  /\ i = 0 => Chosen(q, those)[i] = <<>>
         /\ i # 0 /\ q[i] \in those =>
              Chosen(q, those)[i] = Append(Chosen(q, those)[i - 1], q[i])
         /\ i # 0 /\ q[i] \notin those => Chosen(q, those)[i] = Chosen(q, those)[i - 1]
<1> DEFINE f == Chosen(q, those)
           ff == [j \in 0 .. Len(q) |->
                    IF j = 0 THEN <<>>
                    ELSE IF q[j] \in those THEN Append(f[j - 1], q[j]) ELSE f[j - 1]]
<1>0. ChosenUpTo(f, q, those)
  BY KeepingUnfolds
<1> HIDE DEF f
<1>1. f = ff
  BY <1>0, Zenon DEF ChosenUpTo
<1>2. ff[i] = IF i = 0 THEN <<>>
              ELSE IF q[i] \in those THEN Append(f[i - 1], q[i]) ELSE f[i - 1]
  OBVIOUS
<1>3. f[i] = IF i = 0 THEN <<>>
              ELSE IF q[i] \in those THEN Append(f[i - 1], q[i]) ELSE f[i - 1]
  BY <1>1, <1>2, Zenon
<1>4. /\ i = 0 => f[i] = <<>>
      /\ i # 0 /\ q[i] \in those => f[i] = Append(f[i - 1], q[i])
      /\ i # 0 /\ q[i] \notin those => f[i] = f[i - 1]
  BY <1>3, Zenon
<1> QED BY <1>4, Zenon DEF f

\* What is kept of nothing.
LEMMA ChosenFirst ==
  ASSUME NEW X, NEW q \in Seq(X), NEW those
  PROVE  Chosen(q, those)[0] = <<>>
<1>1. 0 \in 0 .. Len(q) BY LenProperties
<1> QED BY <1>1, ChosenStep, Zenon

\* What is kept of a prefix, from what is kept of the one before.
LEMMA ChosenNext ==
  ASSUME NEW X, NEW q \in Seq(X), NEW those, NEW i \in 1 .. Len(q)
  PROVE  /\ q[i] \in those => Chosen(q, those)[i] = Append(Chosen(q, those)[i - 1], q[i])
         /\ q[i] \notin those => Chosen(q, those)[i] = Chosen(q, those)[i - 1]
<1>1. i \in 0 .. Len(q) /\ i # 0 BY LenProperties
<1> QED BY <1>1, ChosenStep, Zenon

\* Only the elements up to i matter for what is chosen of them.
LEMMA ChosenOfPrefix ==
  ASSUME NEW X, NEW q \in Seq(X), NEW p \in Seq(X), NEW those,
         NEW n \in Nat, n <= Len(q), n <= Len(p), \A i \in 1 .. n : q[i] = p[i]
  PROVE  Chosen(q, those)[n] = Chosen(p, those)[n]
<1> DEFINE Same == {k \in Nat : k <= n => Chosen(q, those)[k] = Chosen(p, those)[k]}
<1>0. Len(q) \in Nat /\ Len(p) \in Nat BY LenProperties
<1>1. 0 \in Same
  BY ChosenFirst
<1>2. ASSUME NEW k \in Same PROVE k + 1 \in Same
  <2> SUFFICES ASSUME k + 1 <= n
               PROVE  Chosen(q, those)[k + 1] = Chosen(p, those)[k + 1]
    OBVIOUS
  <2>1. Chosen(q, those)[k] = Chosen(p, those)[k] /\ k \in Nat
    OBVIOUS
  <2>2. k + 1 \in 1 .. n /\ k + 1 \in 1 .. Len(q) /\ k + 1 \in 1 .. Len(p) /\ (k + 1) - 1 = k
    BY <1>0
  <2>3. q[k + 1] = p[k + 1]
    BY <2>2
  <2>4. /\ q[k + 1] \in those => Chosen(q, those)[k + 1] = Append(Chosen(q, those)[(k + 1) - 1], q[k + 1])
        /\ q[k + 1] \notin those => Chosen(q, those)[k + 1] = Chosen(q, those)[(k + 1) - 1]
    BY <2>2, ChosenNext
  <2>5. /\ p[k + 1] \in those => Chosen(p, those)[k + 1] = Append(Chosen(p, those)[(k + 1) - 1], p[k + 1])
        /\ p[k + 1] \notin those => Chosen(p, those)[k + 1] = Chosen(p, those)[(k + 1) - 1]
    BY <2>2, ChosenNext
  <2> QED BY <2>1, <2>2, <2>3, <2>4, <2>5
<1>3. n \in Same
  <2>1. Same \subseteq Nat OBVIOUS
  <2> HIDE DEF Same
  <2> QED BY <1>1, <1>2, <2>1, NatBySets
<1> QED BY <1>3

\* Keeping some of nothing is nothing.
LEMMA KeepingOfNone == ASSUME NEW those PROVE Keeping(<<>>, those) = <<>>
<1>1. <<>> \in Seq({}) /\ Len(<<>>) = 0 OBVIOUS
<1>2. Keeping(<<>>, those) = Chosen(<<>>, those)[0] BY <1>1, KeepingUnfolds
<1>3. Chosen(<<>>, those)[0] = <<>> BY <1>1, ChosenFirst
<1> QED BY <1>2, <1>3

\* Keeping some of a sequence with one more element: the recursion lemma that
\* the inductions below rest on.
LEMMA KeepingAppend ==
  ASSUME NEW X, NEW q \in Seq(X), NEW x \in X, NEW those
  PROVE  Keeping(Append(q, x), those) =
           IF x \in those THEN Append(Keeping(q, those), x) ELSE Keeping(q, those)
<1> DEFINE n == Len(q)
           p == Append(q, x)
<1>1. /\ p \in Seq(X) /\ n \in Nat /\ Len(p) = n + 1 /\ p[n + 1] = x
      /\ \A i \in 1 .. n : q[i] = p[i]
  BY AppendProperties, LenProperties
<1> HIDE DEF p
<1>2. Chosen(q, those)[n] = Chosen(p, those)[n]
  BY <1>1, ChosenOfPrefix
<1>3. Chosen(p, those)[n + 1] = IF x \in those THEN Append(Chosen(p, those)[n], x)
                                               ELSE Chosen(p, those)[n]
  <2>1. n + 1 \in 1 .. Len(p) /\ (n + 1) - 1 = n BY <1>1
  <2> HIDE DEF n
  <2>2. /\ p[n + 1] \in those => Chosen(p, those)[n + 1] = Append(Chosen(p, those)[(n + 1) - 1], p[n + 1])
        /\ p[n + 1] \notin those => Chosen(p, those)[n + 1] = Chosen(p, those)[(n + 1) - 1]
    BY <1>1, <2>1, ChosenNext
  <2> QED BY <1>1, <2>1, <2>2
<1>4. Keeping(p, those) = Chosen(p, those)[n + 1] /\ Keeping(q, those) = Chosen(q, those)[n]
  BY <1>1, KeepingUnfolds
<1> USE DEF p
<1> QED BY <1>2, <1>3, <1>4

\* The elements of a sequence with one more.
LEMMA RangeOfAppend ==
  ASSUME NEW X, NEW q \in Seq(X), NEW x \in X
  PROVE  Range(Append(q, x)) = Range(q) \cup {x}
<1>1. /\ Len(Append(q, x)) = Len(q) + 1 /\ Append(q, x)[Len(q) + 1] = x
      /\ \A i \in 1 .. Len(q) : Append(q, x)[i] = q[i]
      /\ DOMAIN Append(q, x) = 1 .. Len(q) + 1 /\ DOMAIN q = 1 .. Len(q) /\ Len(q) \in Nat
  BY AppendProperties, LenProperties
<1> QED BY <1>1 DEF Range

\* What is kept is a sequence over the same set.
LEMMA KeepingIsSeq ==
  ASSUME NEW X, NEW q \in Seq(X), NEW those
  PROVE  Keeping(q, those) \in Seq(X)
<1> DEFINE Good == {p \in Seq(X) : Keeping(p, those) \in Seq(X)}
<1>1. <<>> \in Good
  BY KeepingOfNone, EmptySeq
<1>2. ASSUME NEW p \in Good, NEW x \in X PROVE Append(p, x) \in Good
  <2>1. p \in Seq(X) /\ Keeping(p, those) \in Seq(X) /\ Append(p, x) \in Seq(X)
    BY AppendProperties
  <2>2. /\ x \in those => Keeping(Append(p, x), those) = Append(Keeping(p, those), x)
        /\ x \notin those => Keeping(Append(p, x), those) = Keeping(p, those)
    BY <2>1, KeepingAppend
  <2>3. Append(Keeping(p, those), x) \in Seq(X) BY <2>1, AppendProperties
  <2> QED BY <2>1, <2>2, <2>3
<1>3. Seq(X) \subseteq Good
  <2> HIDE DEF Good
  <2> QED BY <1>1, <1>2, SequencesBySets
<1> QED BY <1>3

\* The elements kept are those to be kept.
LEMMA KeepingRange ==
  ASSUME NEW X, NEW q \in Seq(X), NEW those
  PROVE  Range(Keeping(q, those)) = Range(q) \cap those
<1> DEFINE Good == {p \in Seq(X) : Range(Keeping(p, those)) = Range(p) \cap those}
<1>1. <<>> \in Good
  <2>1. Range(<<>>) = {} BY DEF Range
  <2> QED BY <2>1, KeepingOfNone, EmptySeq
<1>2. ASSUME NEW p \in Good, NEW x \in X PROVE Append(p, x) \in Good
  <2>1. p \in Seq(X) /\ Range(Keeping(p, those)) = Range(p) \cap those /\ Append(p, x) \in Seq(X)
    BY AppendProperties
  <2>2. /\ x \in those => Keeping(Append(p, x), those) = Append(Keeping(p, those), x)
        /\ x \notin those => Keeping(Append(p, x), those) = Keeping(p, those)
    BY <2>1, KeepingAppend
  <2>3. Keeping(p, those) \in Seq(X) BY <2>1, KeepingIsSeq
  <2>4. /\ Range(Append(p, x)) = Range(p) \cup {x}
        /\ Range(Append(Keeping(p, those), x)) = Range(Keeping(p, those)) \cup {x}
    BY <2>1, <2>3, RangeOfAppend
  <2>5. CASE x \in those BY <2>1, <2>2, <2>4, <2>5
  <2>6. CASE x \notin those BY <2>1, <2>2, <2>4, <2>6
  <2> QED BY <2>5, <2>6
<1>3. Seq(X) \subseteq Good
  <2> HIDE DEF Good
  <2> QED BY <1>1, <1>2, SequencesBySets
<1> QED BY <1>3

\* Keeping everything changes nothing.
LEMMA KeepingAll ==
  ASSUME NEW X, NEW q \in Seq(X), NEW those, Range(q) \subseteq those
  PROVE  Keeping(q, those) = q
<1> DEFINE Good == {p \in Seq(X) : Range(p) \subseteq those => Keeping(p, those) = p}
<1>1. <<>> \in Good
  BY KeepingOfNone, EmptySeq
<1>2. ASSUME NEW p \in Good, NEW x \in X PROVE Append(p, x) \in Good
  <2>1. p \in Seq(X) /\ Append(p, x) \in Seq(X)
    BY AppendProperties
  <2>2. /\ x \in those => Keeping(Append(p, x), those) = Append(Keeping(p, those), x)
        /\ x \notin those => Keeping(Append(p, x), those) = Keeping(p, those)
    BY <2>1, KeepingAppend
  <2>4. Range(Append(p, x)) = Range(p) \cup {x}
    BY <2>1, RangeOfAppend
  <2> QED BY <2>1, <2>2, <2>4
<1>3. Seq(X) \subseteq Good
  <2> HIDE DEF Good
  <2> QED BY <1>1, <1>2, SequencesBySets
<1> QED BY <1>3

\* Keeping nothing that is there leaves nothing.
LEMMA KeepingNothing ==
  ASSUME NEW X, NEW q \in Seq(X), NEW those, Range(q) \cap those = {}
  PROVE  Keeping(q, those) = <<>>
<1> DEFINE Good == {p \in Seq(X) : Range(p) \cap those = {} => Keeping(p, those) = <<>>}
<1>1. <<>> \in Good
  BY KeepingOfNone, EmptySeq
<1>2. ASSUME NEW p \in Good, NEW x \in X PROVE Append(p, x) \in Good
  <2>1. p \in Seq(X) /\ Append(p, x) \in Seq(X)
    BY AppendProperties
  <2>2. /\ x \in those => Keeping(Append(p, x), those) = Append(Keeping(p, those), x)
        /\ x \notin those => Keeping(Append(p, x), those) = Keeping(p, those)
    BY <2>1, KeepingAppend
  <2>4. Range(Append(p, x)) = Range(p) \cup {x}
    BY <2>1, RangeOfAppend
  <2> QED BY <2>1, <2>2, <2>4
<1>3. Seq(X) \subseteq Good
  <2> HIDE DEF Good
  <2> QED BY <1>1, <1>2, SequencesBySets
<1> QED BY <1>3

\* Only the elements that are there matter.
LEMMA KeepingAgrees ==
  ASSUME NEW X, NEW q \in Seq(X), NEW A, NEW B, Range(q) \cap A = Range(q) \cap B
  PROVE  Keeping(q, A) = Keeping(q, B)
<1> DEFINE Good == {p \in Seq(X) : Range(p) \cap A = Range(p) \cap B => Keeping(p, A) = Keeping(p, B)}
<1>1. <<>> \in Good
  BY KeepingOfNone, EmptySeq
<1>2. ASSUME NEW p \in Good, NEW x \in X PROVE Append(p, x) \in Good
  <2>1. p \in Seq(X) /\ Append(p, x) \in Seq(X)
    BY AppendProperties
  <2>2. /\ x \in A => Keeping(Append(p, x), A) = Append(Keeping(p, A), x)
        /\ x \notin A => Keeping(Append(p, x), A) = Keeping(p, A)
    BY <2>1, KeepingAppend
  <2>3. /\ x \in B => Keeping(Append(p, x), B) = Append(Keeping(p, B), x)
        /\ x \notin B => Keeping(Append(p, x), B) = Keeping(p, B)
    BY <2>1, KeepingAppend
  <2>4. Range(Append(p, x)) = Range(p) \cup {x}
    BY <2>1, RangeOfAppend
  <2> QED BY <2>1, <2>2, <2>3, <2>4
<1>3. Seq(X) \subseteq Good
  <2> HIDE DEF Good
  <2> QED BY <1>1, <1>2, SequencesBySets
<1> QED BY <1>3

\* Keeping some of what was kept.
LEMMA KeepingTwice ==
  ASSUME NEW X, NEW q \in Seq(X), NEW A, NEW B
  PROVE  Keeping(Keeping(q, A), B) = Keeping(q, A \cap B)
<1> DEFINE Good == {p \in Seq(X) : Keeping(Keeping(p, A), B) = Keeping(p, A \cap B)}
<1>1. <<>> \in Good
  BY KeepingOfNone, EmptySeq
<1>2. ASSUME NEW p \in Good, NEW x \in X PROVE Append(p, x) \in Good
  <2>1. p \in Seq(X) /\ Append(p, x) \in Seq(X) /\ Keeping(Keeping(p, A), B) = Keeping(p, A \cap B)
    BY AppendProperties
  <2>2. /\ x \in A => Keeping(Append(p, x), A) = Append(Keeping(p, A), x)
        /\ x \notin A => Keeping(Append(p, x), A) = Keeping(p, A)
    BY <2>1, KeepingAppend
  <2>6. \A C : /\ x \in C => Keeping(Append(p, x), C) = Append(Keeping(p, C), x)
               /\ x \notin C => Keeping(Append(p, x), C) = Keeping(p, C)
    BY <2>1, KeepingAppend
  <2>3. /\ x \in A \cap B => Keeping(Append(p, x), A \cap B) = Append(Keeping(p, A \cap B), x)
        /\ x \notin A \cap B => Keeping(Append(p, x), A \cap B) = Keeping(p, A \cap B)
    BY <2>6
  <2>4. Keeping(p, A) \in Seq(X) BY <2>1, KeepingIsSeq
  <2>5. /\ x \in B => Keeping(Append(Keeping(p, A), x), B) = Append(Keeping(Keeping(p, A), B), x)
        /\ x \notin B => Keeping(Append(Keeping(p, A), x), B) = Keeping(Keeping(p, A), B)
    BY <2>4, KeepingAppend
  <2> QED BY <2>1, <2>2, <2>3, <2>5
<1>3. Seq(X) \subseteq Good
  <2> HIDE DEF Good
  <2> QED BY <1>1, <1>2, SequencesBySets
<1> QED BY <1>3

\* Appending to the second part appends to the whole.
LEMMA AppendOfConcat ==
  ASSUME NEW X, NEW r \in Seq(X), NEW q \in Seq(X), NEW x \in X
  PROVE  r \o Append(q, x) = Append(r \o q, x)
<1>1. /\ Append(q, x) = q \o <<x>> /\ r \o q \in Seq(X) /\ <<x>> \in Seq(X)
  BY AppendIsConcat, ConcatProperties
<1>2. Append(r \o q, x) = (r \o q) \o <<x>>
  BY <1>1, AppendIsConcat
<1>3. (r \o q) \o <<x>> = r \o (q \o <<x>>)
  BY <1>1, ConcatAssociative
<1> QED BY <1>1, <1>2, <1>3

\* Keeping some of two sequences, one after the other.
LEMMA KeepingConcat ==
  ASSUME NEW X, NEW r \in Seq(X), NEW q \in Seq(X), NEW those
  PROVE  Keeping(r \o q, those) = Keeping(r, those) \o Keeping(q, those)
<1> DEFINE Good == {p \in Seq(X) : Keeping(r \o p, those) = Keeping(r, those) \o Keeping(p, those)}
<1>1. <<>> \in Good
  <2>1. r \o <<>> = r /\ Keeping(r, those) \o <<>> = Keeping(r, those)
    BY KeepingIsSeq, ConcatEmptySeq
  <2> QED BY <2>1, KeepingOfNone, EmptySeq
<1>2. ASSUME NEW p \in Good, NEW x \in X PROVE Append(p, x) \in Good
  <2>1. /\ p \in Seq(X) /\ Append(p, x) \in Seq(X)
        /\ Keeping(r \o p, those) = Keeping(r, those) \o Keeping(p, those)
    BY AppendProperties
  <2>2. /\ x \in those => Keeping(Append(p, x), those) = Append(Keeping(p, those), x)
        /\ x \notin those => Keeping(Append(p, x), those) = Keeping(p, those)
    BY <2>1, KeepingAppend
  <2>4. Keeping(r, those) \in Seq(X) /\ Keeping(p, those) \in Seq(X) /\ r \o p \in Seq(X)
    BY <2>1, KeepingIsSeq, ConcatProperties
  <2>5. r \o Append(p, x) = Append(r \o p, x)
    BY <2>1, AppendOfConcat
  <2>6. Keeping(r, those) \o Append(Keeping(p, those), x)
          = Append(Keeping(r, those) \o Keeping(p, those), x)
    BY <2>4, AppendOfConcat
  <2>0. \A z \in Seq(X) : /\ x \in those => Keeping(Append(z, x), those) = Append(Keeping(z, those), x)
                          /\ x \notin those => Keeping(Append(z, x), those) = Keeping(z, those)
    BY KeepingAppend
  <2>7. /\ x \in those => Keeping(Append(r \o p, x), those) = Append(Keeping(r \o p, those), x)
        /\ x \notin those => Keeping(Append(r \o p, x), those) = Keeping(r \o p, those)
    BY <2>0, <2>4
  <2>8. CASE x \in those BY <2>1, <2>2, <2>5, <2>6, <2>7, <2>8
  <2>9. CASE x \notin those BY <2>1, <2>2, <2>5, <2>7, <2>9
  <2> QED BY <2>8, <2>9
<1>3. Seq(X) \subseteq Good
  <2> HIDE DEF Good
  <2> QED BY <1>1, <1>2, SequencesBySets
<1> QED BY <1>3
-----------------------------------------------------------------------------
(* Replies and the start of a recording: beside the three ways in which a  *)
(* read-aloud and the start can meet (the hold, the stop, the spawned      *)
(* stop), the invariant says which utterance a read-aloud under way is.    *)

\* An agent's read-aloud is the utterance the loop is at.
PlaybackIsPlaying == AgentPlayback => voice = playing /\ loopAt \in {"speak", "drain"}

\* From the hold on, until the recording ends: nothing but what a spawned
\* stop is to silence.
QuietFromTheHold ==
  (recorder # "none" \/ capturing) /\ AgentPlayback => late = "waiting"

QuietInv == PlaybackIsPlaying /\ QuietFromTheHold
-----------------------------------------------------------------------------
\* A read-aloud goes on, or stops: the loop stays where it is, and nothing
\* of the recording's start changes.
StaysOrStops ==
  /\ UNCHANGED <<playing, loopAt, recorder, capturing, late>>
  /\ UNCHANGED <<dictation, voice>> \/ Quiet("Idle") \/ Quiet("Busy")

\* Most steps neither begin a read-aloud nor move the loop from one.
LEMMA StayingKeepsQuiet == ASSUME QuietInv, StaysOrStops PROVE QuietInv'
<1>1. AgentPlayback' => AgentPlayback /\ UNCHANGED <<dictation, voice>>
  BY DEF StaysOrStops, AgentPlayback, Quiet
<1>2. QED
  BY <1>1 DEF QuietInv, PlaybackIsPlaying, QuietFromTheHold, StaysOrStops

\* With the loop elsewhere no agent is read aloud.
LEMMA LoopElsewhere ==
  ASSUME QuietInv, loopAt \notin {"speak", "drain"}
  PROVE  ~AgentPlayback
BY DEF QuietInv, PlaybackIsPlaying

\* The utterances the agents have to say, and the interims that expire.
LEMMA AgentsKeepQuiet ==
  ASSUME QuietInv, SayInterim \/ SayNotice \/ DeliverReply \/ Expire
  PROVE  QuietInv'
<1>1. StaysOrStops
  BY DEF StaysOrStops, SayInterim, SayNotice, DeliverReply, AskWith, Expire, worldVars
<1>2. QED BY <1>1, StayingKeepsQuiet

\* The loop's steps; it starts a read-aloud only while nothing is held.
LEMMA LoopKeepsQuiet ==
  ASSUME QuietInv,
         \/ LoopRests \/ LoopTakes \/ LoopHasNoVoice \/ LoopStarts \/ LoopRefused
         \/ LoopSpeaks \/ LoopFails \/ LoopDrained \/ LoopWakes
  PROVE  QuietInv'
<1>1. CASE LoopRests \/ LoopTakes \/ LoopHasNoVoice \/ LoopRefused \/ LoopWakes
  <2>1. /\ loopAt \notin {"speak", "drain"}
        /\ UNCHANGED <<dictation, voice>>
    BY <1>1 DEF LoopRests, LoopTakes, LoopHasNoVoice, LoopRefused, LoopWakes, LoopGoes,
                worldVars
  <2>2. ~AgentPlayback'
    BY <2>1, LoopElsewhere DEF AgentPlayback
  <2>3. QED BY <2>2 DEF QuietInv, PlaybackIsPlaying, QuietFromTheHold
<1>2. CASE LoopStarts
  <2>1. recorder' = "none" /\ ~capturing'
    BY <1>2 DEF LoopStarts, MaySpeak, RepliesHeld
  <2>2. voice' = playing' /\ loopAt' = "speak"
    BY <1>2 DEF LoopStarts, LoopGoes
  <2>3. QED BY <2>1, <2>2 DEF QuietInv, PlaybackIsPlaying, QuietFromTheHold
<1>3. CASE LoopSpeaks
  BY <1>3 DEF LoopSpeaks, LoopGoes, worldVars, QuietInv, PlaybackIsPlaying,
              QuietFromTheHold, AgentPlayback
<1>4. CASE LoopFails \/ LoopDrained
  <2>1. ~AgentPlayback'
    BY <1>4 DEF LoopFails, LoopDrained, AgentPlayback, worldVars
  <2>2. QED BY <2>1 DEF QuietInv, PlaybackIsPlaying, QuietFromTheHold
<1>5. QED BY <1>1, <1>2, <1>3, <1>4

\* Presses and cancels stop a read-aloud, or start the selection's.
LEMMA UsersKeepQuiet ==
  ASSUME QuietInv,
         \/ PlaybackEnds \/ Press \/ PressOpens \/ MicOpens \/ PressReadsAloud
         \/ PressEnds \/ BusyEnds \/ CancelReplies
  PROVE  QuietInv'
<1>1. CASE PressReadsAloud
  <2>1. ~AgentPlayback'
    BY <1>1, NobodyAssumption DEF PressReadsAloud, AgentPlayback, Utterances
  <2>2. QED BY <2>1 DEF QuietInv, PlaybackIsPlaying, QuietFromTheHold
<1>2. CASE PlaybackEnds \/ Press \/ PressOpens \/ MicOpens \/ PressEnds \/ BusyEnds
             \/ CancelReplies
  <2>1. StaysOrStops
    BY <1>2 DEF StaysOrStops, PlaybackEnds, Press, PressOpens, MicOpens, PressEnds,
                BusyEnds, CancelReplies, Quiet
  <2>2. QED BY <2>1, StayingKeepsQuiet
<1>3. QED BY <1>1, <1>2

\* A recording's start holds replies and stops the one playing in one step,
\* or leaves that to a stop it spawns; the stop looks again.
LEMMA RecorderKeepsQuiet ==
  ASSUME QuietInv,
         \/ RecorderStarts \/ RecorderSpawnsStop \/ RecorderPutsBack \/ RecorderOpens
         \/ RecorderFails \/ RecorderStops \/ LateStop
  PROVE  QuietInv'
<1>1. CASE RecorderStarts
  <2>1. playing = Nobody => ~AgentPlayback
    BY NobodyAssumption DEF QuietInv, PlaybackIsPlaying, AgentPlayback, Utterances
  <2>2. ~AgentPlayback'
    BY <1>1, <2>1 DEF RecorderStarts, StopAgent, Quiet, AgentPlayback
  <2>3. QED BY <2>2 DEF QuietInv, PlaybackIsPlaying, QuietFromTheHold
<1>2. CASE RecorderSpawnsStop
  BY <1>2 DEF RecorderSpawnsStop, queueVars, QuietInv, PlaybackIsPlaying, QuietFromTheHold,
              AgentPlayback
<1>3. CASE RecorderPutsBack \/ RecorderOpens \/ RecorderFails \/ RecorderStops
  <2>1. /\ UNCHANGED <<dictation, voice, playing, loopAt, late>>
        /\ recorder' # "none" \/ capturing' => recorder # "none" \/ capturing
    BY <1>3 DEF RecorderPutsBack, RecorderOpens, RecorderFails, RecorderStops
  <2>2. QED BY <2>1 DEF QuietInv, PlaybackIsPlaying, QuietFromTheHold, AgentPlayback
<1>4. CASE LateStop
  <2>1. UNCHANGED <<playing, loopAt, recorder, capturing>>
    BY <1>4 DEF LateStop
  <2>2. AgentPlayback' => AgentPlayback /\ ~RepliesHeld /\ UNCHANGED <<dictation, voice>>
    BY <1>4 DEF LateStop, Quiet, AgentPlayback
  <2>3. QED
    BY <2>1, <2>2 DEF QuietInv, PlaybackIsPlaying, QuietFromTheHold, RepliesHeld
<1>5. QED BY <1>1, <1>2, <1>3, <1>4
-----------------------------------------------------------------------------
\* QuietInv holds in every state.
THEOREM QuietInvariant == RepliesSpec => []QuietInv
<1>1. RepliesInit => QuietInv
  BY DEF RepliesInit, QuietInv, PlaybackIsPlaying, QuietFromTheHold, AgentPlayback
<1>2. ASSUME QuietInv, [RepliesNext]_replyVars PROVE QuietInv'
  <2>1. CASE UNCHANGED replyVars
    BY <1>2, <2>1, StayingKeepsQuiet DEF StaysOrStops, replyVars, queueVars, worldVars
  <2>2. CASE RepliesNext
    BY <1>2, <2>2, AgentsKeepQuiet, LoopKeepsQuiet, UsersKeepQuiet, RecorderKeepsQuiet
      DEF RepliesNext
  <2>3. QED BY <1>2, <2>1, <2>2
<1>3. QED BY <1>1, <1>2, PTL DEF RepliesSpec

\* However presses, cancels, notices and failures meet the start of a
\* recording, no agent speaks while it captures, but for one a spawned stop
\* waits to silence (hold_for_recording, speak_text's check under the lock).
THEOREM NobodySpeaksIntoAMeeting == RepliesSpec => []QuietInMeeting
<1>1. QuietInv => QuietInMeeting
  BY DEF QuietInv, QuietFromTheHold, QuietInMeeting
<1>2. QED BY <1>1, QuietInvariant, PTL
-----------------------------------------------------------------------------
(* The reply queue implements the outbox (SpeechOutbox): what a stop has   *)
(* copied and not put back yet waits in front of the queue, and what is    *)
(* being said is the utterance in hand.                                    *)
\* What the outbox calls waiting: the queue, behind what a stop has copied and is
\* about to put back.
Waits  == PutBack(copied, utterances)
\* What the outbox calls being said: the utterance in hand, until the loop is
\* done with it.
Saying == IF loopAt = "ask" \/ AgentPlayback THEN playing ELSE Nobody

\* The abstract specification keeps as the queue does.
LEMMA SameKeeping == \A q, S : Outbox!Keeping(q, S) = Keeping(q, S)
  BY Zenon DEF Outbox!Keeping, Keeping

\* An utterance cut off, with what waits left alone or dropped.
LEMMA OutboxCuts ==
  ASSUME Saying # Nobody, Saying' = Nobody, Waits' \in {Waits, <<>>},
         UNCHANGED <<said, asked>>
  PROVE  Outbox!CutOff
BY DEF Outbox!CutOff, Waits, Saying

\* An utterance spoken to its end.
LEMMA OutboxEnds ==
  ASSUME Saying # Nobody, Saying' = Nobody, said' = said \cup {Saying},
         UNCHANGED <<Waits, asked>>
  PROVE  Outbox!End
BY DEF Outbox!End, Waits, Saying

\* Interims dropped from what waits.
LEMMA OutboxAges ==
  ASSUME NEW gone \in SUBSET Interims, Waits' = Keeping(Waits, Utterances \ gone),
         UNCHANGED <<Saying, said, asked>>
  PROVE  Outbox!Age
BY SameKeeping DEF Outbox!Age, Outbox!Dropping, Outbox!Items, Utterances, Waits, Saying

\* The next utterance taken, behind some interims that are dropped.
LEMMA OutboxSays ==
  ASSUME NEW gone \in SUBSET Interims,
         NEW rest, rest = Keeping(Waits, Utterances \ gone), rest # <<>>,
         Saying = Nobody, Saying' = Head(rest), Waits' = Tail(rest),
         UNCHANGED <<said, asked>>
  PROVE  Outbox!Say
BY SameKeeping DEF Outbox!Say, Outbox!Dropping, Outbox!Items, Utterances, Waits, Saying

\* An utterance sent back to what waits.
LEMMA OutboxSendsBack ==
  ASSUME Saying # Nobody, Saying' = Nobody, UNCHANGED <<said, asked>>,
         \/ /\ Saying \notin Notices \/ ~HasNotice(Waits)
            /\ Waits' = <<Saying>> \o Waits
         \/ Saying \in Interims /\ Waits' = Waits
         \/ \E i \in DOMAIN Waits :
              /\ Saying \in Notices /\ Waits[i] \in Notices
              /\ Waits' = <<Waits[i]>> \o RemoveAt(Waits, i)
  PROVE  Outbox!SendBack
BY DEF Outbox!SendBack, Outbox!Newer, Outbox!RemoveAt, RemoveAt, Waits, Saying,
       HasNotice, IsNotice, Range

\* Something more to say: appended, in the place of a notice, or a repetition.
LEMMA OutboxAsks ==
  ASSUME NEW u \in Utterances \ asked, asked' = asked \cup {u},
         UNCHANGED <<Saying, said>>,
         \/ u \notin Replies /\ Waits' = Append(Keeping(Waits, Utterances), u)
         \/ u \in Replies /\ Waits' = Append(Keeping(Waits, Utterances \ Interims), u)
         \/ \E i \in DOMAIN Waits :
              Waits[i] \in Notices /\ u \in Notices /\ Waits' = ReplaceAt(Waits, i, u)
         \/ (\E v \in asked : {u, v} \subseteq Repeats) /\ Waits' = Waits
  PROVE  Outbox!Ask
<1>1. u \in Outbox!Items \ asked
  BY DEF Outbox!Items, Utterances
<1>2. Utterances \ {} = Utterances OBVIOUS
<1>3. \/ \E gone \in SUBSET Interims :
            Waits' = Append(Keeping(Waits, Utterances \ (IF u \in Replies THEN gone ELSE {})), u)
      \/ \E i \in DOMAIN Waits :
              Waits[i] \in Notices /\ u \in Notices /\ Waits' = ReplaceAt(Waits, i, u)
      \/ (\E v \in asked : {u, v} \subseteq Repeats) /\ Waits' = Waits
  BY <1>2
<1>4. Outbox!Joins(u) \/ Outbox!Replaces(u)
       \/ (Outbox!Repeated(u) /\ UNCHANGED Waits)
  BY <1>3, SameKeeping DEF Outbox!Joins, Outbox!Dropping, Outbox!Items, Utterances,
     Outbox!Replaces, Outbox!ReplaceAt, ReplaceAt, Outbox!Repeated, Waits
<1> QED BY <1>1, <1>4 DEF Outbox!Ask, Waits, Saying

\* A queue in line: nothing waits twice, and at most one notice waits.
Lined(q) == /\ q \in Seq(Utterances) /\ IsInjective(q)
            /\ \A u, v \in Range(q) \cap Notices : u = v

\* What is not a notice.
Plain == Utterances \ Notices

\* A sequence with an element in front.
LEMMA RangeOfPrefixed ==
  ASSUME NEW X, NEW q \in Seq(X), NEW x \in X
  PROVE  /\ <<x>> \o q \in Seq(X) /\ <<x>> \in Seq(X)
         /\ Range(<<x>> \o q) = {x} \cup Range(q)
         /\ Len(<<x>> \o q) = Len(q) + 1
         /\ \A i \in 1 .. Len(q) + 1 : (<<x>> \o q)[i] = IF i = 1 THEN x ELSE q[i - 1]
<1>1. <<x>> \in Seq(X) /\ Len(<<x>>) = 1 /\ <<x>>[1] = x /\ DOMAIN <<x>> = 1 .. 1
  OBVIOUS
<1>2. Range(<<x>>) = {x} BY <1>1 DEF Range
<1>3. /\ <<x>> \o q \in Seq(X)
      /\ Len(<<x>> \o q) = Len(<<x>>) + Len(q)
      /\ \A i \in 1 .. Len(<<x>>) + Len(q) : (<<x>> \o q)[i] =
             IF i <= Len(<<x>>) THEN <<x>>[i] ELSE q[i - Len(<<x>>)]
  BY <1>1, ConcatProperties
<1>4. Range(<<x>> \o q) = {x} \cup Range(q)
  <2>1. \A s \in Seq(X) : Range(s \o q) = Range(s) \cup Range(q)
    BY RangeConcatenation
  <2> QED BY <1>1, <1>2, <2>1
<1>5. Len(q) \in Nat BY LenProperties
<1>6. ASSUME NEW i \in 1 .. Len(q) + 1
      PROVE  (<<x>> \o q)[i] = IF i = 1 THEN x ELSE q[i - 1]
  <2>1. (<<x>> \o q)[i] = IF i <= 1 THEN <<x>>[i] ELSE q[i - 1]
    BY <1>1, <1>3, <1>5
  <2>2. CASE i = 1 BY <2>1, <2>2, <1>1
  <2>3. CASE i # 1
    <3>1. ~(i <= 1) BY <2>3, <1>5
    <3> QED BY <2>1, <2>3, <3>1
  <2> QED BY <2>2, <2>3
<1>7. Len(<<x>> \o q) = Len(q) + 1 BY <1>1, <1>3, <1>5
<1> QED BY <1>1, <1>3, <1>4, <1>6, <1>7

\* Appending what is not there repeats nothing.
LEMMA OnceAppended ==
  ASSUME NEW X, NEW q \in Seq(X), NEW x \in X, IsInjective(q), x \notin Range(q)
  PROVE  IsInjective(Append(q, x))
<1>1. /\ Len(Append(q, x)) = Len(q) + 1 /\ Append(q, x)[Len(q) + 1] = x
      /\ \A i \in 1 .. Len(q) : Append(q, x)[i] = q[i]
      /\ DOMAIN Append(q, x) = 1 .. Len(q) + 1 /\ DOMAIN q = 1 .. Len(q) /\ Len(q) \in Nat
  BY AppendProperties, LenProperties
<1>2. \A i \in 1 .. Len(q) + 1 : i \in 1 .. Len(q) \/ i = Len(q) + 1
  BY <1>1
<1>3. \A i \in 1 .. Len(q) : q[i] # x
  BY <1>1 DEF Range
<1> QED BY <1>1, <1>2, <1>3 DEF IsInjective

\* Putting in front what is not there repeats nothing.
LEMMA OncePrefixed ==
  ASSUME NEW X, NEW q \in Seq(X), NEW x \in X, IsInjective(q), x \notin Range(q)
  PROVE  IsInjective(<<x>> \o q)
<1> DEFINE p == <<x>> \o q
<1>1. /\ DOMAIN p = 1 .. Len(q) + 1 /\ DOMAIN q = 1 .. Len(q) /\ Len(q) \in Nat
      /\ \A i \in 1 .. Len(q) + 1 : p[i] = IF i = 1 THEN x ELSE q[i - 1]
  BY RangeOfPrefixed, LenProperties
<1> HIDE DEF p
<1>2. \A i \in 1 .. Len(q) + 1 : i = 1 \/ i - 1 \in 1 .. Len(q)
  BY <1>1
<1>3. \A i \in 1 .. Len(q) : q[i] # x
  BY <1>1 DEF Range
<1>4. ASSUME NEW a \in 1 .. Len(q) + 1, NEW b \in 1 .. Len(q) + 1, p[a] = p[b] PROVE a = b
  <2>1. CASE a = 1 /\ b = 1 BY <2>1
  <2>2. CASE a = 1 /\ b # 1 BY <2>2, <1>1, <1>2, <1>3, <1>4
  <2>3. CASE a # 1 /\ b = 1 BY <2>3, <1>1, <1>2, <1>3, <1>4
  <2>4. CASE a # 1 /\ b # 1
    <3>1. q[a - 1] = q[b - 1] /\ a - 1 \in DOMAIN q /\ b - 1 \in DOMAIN q
      BY <2>4, <1>1, <1>2, <1>4
    <3>2. a - 1 = b - 1 BY <3>1 DEF IsInjective
    <3> QED BY <3>2, <1>1
  <2> QED BY <2>1, <2>2, <2>3, <2>4
<1>5. IsInjective(p) BY <1>1, <1>4 DEF IsInjective
<1> USE DEF p
<1> QED BY <1>5

\* A sequence without repetitions has none before its last element.
LEMMA PrefixOnce ==
  ASSUME NEW X, NEW q \in Seq(X), NEW x \in X, IsInjective(Append(q, x))
  PROVE  IsInjective(q) /\ x \notin Range(q)
<1>1. /\ Append(q, x)[Len(q) + 1] = x
      /\ \A i \in 1 .. Len(q) : Append(q, x)[i] = q[i]
      /\ DOMAIN Append(q, x) = 1 .. Len(q) + 1 /\ DOMAIN q = 1 .. Len(q) /\ Len(q) \in Nat
  BY AppendProperties, LenProperties
<1>2. \A i \in 1 .. Len(q) : i \in 1 .. Len(q) + 1 /\ i # Len(q) + 1
  BY <1>1
<1>3. Len(q) + 1 \in 1 .. Len(q) + 1 BY <1>1
<1> QED BY <1>1, <1>2, <1>3 DEF IsInjective, Range

\* Keeping some of a sequence repeats nothing.
LEMMA KeepingOnce ==
  ASSUME NEW X, NEW q \in Seq(X), NEW those, IsInjective(q)
  PROVE  IsInjective(Keeping(q, those))
<1> DEFINE Good == {p \in Seq(X) : IsInjective(p) => IsInjective(Keeping(p, those))}
<1>1. <<>> \in Good
  BY KeepingOfNone, EmptySeq
<1>2. ASSUME NEW p \in Good, NEW x \in X PROVE Append(p, x) \in Good
  <2>1. p \in Seq(X) /\ Append(p, x) \in Seq(X)
    BY AppendProperties
  <2> SUFFICES ASSUME IsInjective(Append(p, x))
               PROVE  IsInjective(Keeping(Append(p, x), those))
    BY <2>1
  <2>2. IsInjective(p) /\ x \notin Range(p) BY <2>1, PrefixOnce
  <2>3. IsInjective(Keeping(p, those)) BY <2>2
  <2>4. Keeping(p, those) \in Seq(X) /\ x \notin Range(Keeping(p, those))
    BY <2>1, <2>2, KeepingIsSeq, KeepingRange
  <2>5. IsInjective(Append(Keeping(p, those), x))
    BY <2>3, <2>4, OnceAppended
  <2>6. /\ x \in those => Keeping(Append(p, x), those) = Append(Keeping(p, those), x)
        /\ x \notin those => Keeping(Append(p, x), those) = Keeping(p, those)
    BY <2>1, KeepingAppend
  <2> QED BY <2>3, <2>5, <2>6
<1>3. Seq(X) \subseteq Good
  <2> HIDE DEF Good
  <2> QED BY <1>1, <1>2, SequencesBySets
<1> QED BY <1>3

\* A sequence, split before and behind one of its elements.
LEMMA PartsOfSeq ==
  ASSUME NEW X, NEW q \in Seq(X), NEW i \in 1 .. Len(q)
  PROVE  /\ SubSeq(q, 1, i - 1) \in Seq(X) /\ Len(SubSeq(q, 1, i - 1)) = i - 1
         /\ SubSeq(q, i + 1, Len(q)) \in Seq(X)
         /\ SubSeq(q, i, Len(q)) \in Seq(X)
         /\ q[i] \in X
         /\ SubSeq(q, i, Len(q)) = <<q[i]>> \o SubSeq(q, i + 1, Len(q))
         /\ q = SubSeq(q, 1, i - 1) \o SubSeq(q, i, Len(q))
         /\ \A u \in Range(SubSeq(q, 1, i - 1)) : \E j \in 1 .. i - 1 : u = q[j]
         /\ \A u \in Range(SubSeq(q, i + 1, Len(q))) : \E j \in i + 1 .. Len(q) : u = q[j]
<1>0. Len(q) \in Nat BY LenProperties
<1>1. \A j \in 1 .. Len(q) : q[j] \in X BY ElementOfSeq
<1>2. /\ SubSeq(q, 1, i - 1) \in Seq(X)
      /\ Len(SubSeq(q, 1, i - 1)) = IF 1 <= i - 1 THEN (i - 1) - 1 + 1 ELSE 0
      /\ \A j \in 1 .. (i - 1) - 1 + 1 : SubSeq(q, 1, i - 1)[j] = q[1 + j - 1]
  <2>1. 1 \in Int /\ i - 1 \in Int /\ \A j \in 1 .. i - 1 : q[j] \in X
    BY <1>0, <1>1
  <2> QED BY <2>1, SubSeqProperties
<1>3. /\ SubSeq(q, i + 1, Len(q)) \in Seq(X)
      /\ Len(SubSeq(q, i + 1, Len(q))) = IF i + 1 <= Len(q) THEN Len(q) - (i + 1) + 1 ELSE 0
      /\ \A j \in 1 .. Len(q) - (i + 1) + 1 : SubSeq(q, i + 1, Len(q))[j] = q[(i + 1) + j - 1]
  <2>1. i + 1 \in Int /\ Len(q) \in Int /\ \A j \in i + 1 .. Len(q) : q[j] \in X
    BY <1>0, <1>1
  <2> QED BY <2>1, SubSeqProperties
<1>4. SubSeq(q, i, Len(q)) \in Seq(X)
  <2>1. i \in Int /\ Len(q) \in Int /\ \A j \in i .. Len(q) : q[j] \in X
    BY <1>0, <1>1
  <2> QED BY <2>1, SubSeqProperties
<1>5. SubSeq(q, i, Len(q)) = <<q[i]>> \o SubSeq(q, i + 1, Len(q))
  <2>1. Len(q) \in i .. Len(q) BY <1>0
  <2> QED BY <2>1, SubSeqRecursiveFirst
<1>6. q = SubSeq(q, 1, i - 1) \o SubSeq(q, i, Len(q))
  <2>1. 1 \in 1 .. Len(q) + 1 /\ i - 1 \in 1 - 1 .. Len(q) /\ Len(q) \in i - 1 .. Len(q) /\ (i - 1) + 1 = i
    BY <1>0
  <2>2. SubSeq(q, 1, i - 1) \o SubSeq(q, (i - 1) + 1, Len(q)) = SubSeq(q, 1, Len(q))
    BY <2>1, ConcatAdjacentSubSeq
  <2>3. SubSeq(q, 1, Len(q)) = q BY SubSeqFull
  <2> QED BY <2>1, <2>2, <2>3
<1>7. Len(SubSeq(q, 1, i - 1)) = i - 1
  <2>1. CASE i = 1 BY <1>2, <2>1
  <2>2. CASE i # 1
    <3>1. 1 <= i - 1 /\ (i - 1) - 1 + 1 = i - 1 BY <1>0, <2>2
    <3> QED BY <1>2, <3>1
  <2> QED BY <2>1, <2>2
<1>8. ASSUME NEW u \in Range(SubSeq(q, 1, i - 1)) PROVE \E j \in 1 .. i - 1 : u = q[j]
  <2>1. PICK j \in 1 .. i - 1 : u = SubSeq(q, 1, i - 1)[j]
    <3>1. DOMAIN SubSeq(q, 1, i - 1) = 1 .. i - 1 BY <1>2, <1>7, LenProperties
    <3> QED BY <3>1, <1>8 DEF Range
  <2>2. j \in 1 .. (i - 1) - 1 + 1 /\ 1 + j - 1 = j BY <1>0
  <2> QED BY <1>2, <2>1, <2>2
<1>9. ASSUME NEW u \in Range(SubSeq(q, i + 1, Len(q))) PROVE \E j \in i + 1 .. Len(q) : u = q[j]
  <2> DEFINE t == SubSeq(q, i + 1, Len(q))
  <2>1. PICK j \in 1 .. Len(t) : u = t[j]
    <3>1. DOMAIN t = 1 .. Len(t) BY <1>3, LenProperties
    <3> QED BY <3>1, <1>9 DEF Range
  <2>2. Len(t) = IF i + 1 <= Len(q) THEN Len(q) - (i + 1) + 1 ELSE 0
    BY <1>3
  <2> HIDE DEF t
  <2>3. i + 1 <= Len(q)
    <3>1. CASE ~(i + 1 <= Len(q))
      <4>1. Len(t) = 0 BY <2>2, <3>1
      <4> QED BY <4>1, <2>1
    <3> QED BY <3>1
  <2>4. Len(t) = Len(q) - (i + 1) + 1 BY <2>2, <2>3
  <2>5. j \in 1 .. Len(q) - (i + 1) + 1 /\ (i + 1) + j - 1 \in i + 1 .. Len(q)
    BY <2>4, <1>0
  <2> USE DEF t
  <2>6. t[j] = q[(i + 1) + j - 1] BY <2>5, <1>3
  <2> QED BY <2>1, <2>5, <2>6
<1> QED BY <1>1, <1>2, <1>3, <1>4, <1>5, <1>6, <1>7, <1>8, <1>9

\* The index of the notice of a queue in line.
LEMMA NoticeAtIs ==
  ASSUME NEW q, Lined(q), HasNotice(q)
  PROVE  /\ NoticeAt(q) \in 1 .. Len(q) /\ q[NoticeAt(q)] \in Notices
         /\ \A j \in 1 .. Len(q) : q[j] \in Notices => j = NoticeAt(q)
         /\ Range(q) \cap Notices = {q[NoticeAt(q)]}
<1>1. q \in Seq(Utterances) /\ DOMAIN q = 1 .. Len(q)
  BY LenProperties DEF Lined
<1>2. \E i \in DOMAIN q : IsNotice(q[i])
  BY <1>1 DEF HasNotice, Range
<1>3. NoticeAt(q) \in DOMAIN q /\ IsNotice(q[NoticeAt(q)])
  BY <1>2 DEF NoticeAt
<1>4. q[NoticeAt(q)] \in Range(q) \cap Notices
  BY <1>3 DEF Range, IsNotice
<1>5. ASSUME NEW j \in 1 .. Len(q), q[j] \in Notices PROVE j = NoticeAt(q)
  <2>1. q[j] \in Range(q) \cap Notices BY <1>1, <1>5 DEF Range
  <2>2. q[j] = q[NoticeAt(q)] BY <2>1, <1>4 DEF Lined
  <2> QED BY <2>2, <1>1, <1>3 DEF Lined, IsInjective
<1>6. Range(q) \cap Notices = {q[NoticeAt(q)]}
  BY <1>4 DEF Lined
<1> QED BY <1>1, <1>3, <1>4, <1>5, <1>6

\* Keeping some of a sequence with an element in front.
LEMMA KeepingPrefixed ==
  ASSUME NEW X, NEW q \in Seq(X), NEW x \in X, NEW those
  PROVE  /\ x \in those => Keeping(<<x>> \o q, those) = <<x>> \o Keeping(q, those)
         /\ x \notin those => Keeping(<<x>> \o q, those) = Keeping(q, those)
<1>1. <<x>> \in Seq(X) /\ <<x>> = Append(<<>>, x) /\ <<>> \in Seq(X)
  OBVIOUS
<1>2. /\ x \in those => Keeping(Append(<<>>, x), those) = Append(Keeping(<<>>, those), x)
      /\ x \notin those => Keeping(Append(<<>>, x), those) = Keeping(<<>>, those)
  <2>1. \A r \in Seq(X) :
          /\ x \in those => Keeping(Append(r, x), those) = Append(Keeping(r, those), x)
          /\ x \notin those => Keeping(Append(r, x), those) = Keeping(r, those)
    BY KeepingAppend
  <2> QED BY <2>1, <1>1
<1>3. /\ x \in those => Keeping(<<x>>, those) = <<x>>
      /\ x \notin those => Keeping(<<x>>, those) = <<>>
  BY <1>1, <1>2, KeepingOfNone
<1>4. \A r \in Seq(X) : Keeping(r \o q, those) = Keeping(r, those) \o Keeping(q, those)
  BY KeepingConcat
<1>5. Keeping(<<x>> \o q, those) = Keeping(<<x>>, those) \o Keeping(q, those)
  BY <1>1, <1>4
<1>6. <<>> \o Keeping(q, those) = Keeping(q, those)
  BY KeepingIsSeq, ConcatEmptySeq
<1> QED BY <1>3, <1>5, <1>6

\* What is not to be kept may be put in front.
LEMMA KeepingSkips ==
  ASSUME NEW X, NEW q \in Seq(X), NEW x \in X, NEW those, x \notin those
  PROVE  Keeping(<<x>> \o q, those) = Keeping(q, those)
BY KeepingPrefixed

\* Removing one element is keeping the others.
LEMMA WithoutOne ==
  ASSUME NEW X, NEW q \in Seq(X), NEW i \in 1 .. Len(q), NEW those, q[i] \notin those,
         \A j \in 1 .. Len(q) : j # i => q[j] \in those
  PROVE  RemoveAt(q, i) = Keeping(q, those)
<1> DEFINE before == SubSeq(q, 1, i - 1)
           after == SubSeq(q, i + 1, Len(q))
           rest == SubSeq(q, i, Len(q))
<1>0. Len(q) \in Nat BY LenProperties
<1>1. before \in Seq(X) BY PartsOfSeq
<1>2. after \in Seq(X) BY PartsOfSeq
<1>3. rest \in Seq(X) /\ q[i] \in X BY PartsOfSeq
<1>4. rest = <<q[i]>> \o after BY PartsOfSeq
<1>5. q = before \o rest BY PartsOfSeq
<1>6. \A u \in Range(before) : \E j \in 1 .. i - 1 : u = q[j] BY PartsOfSeq
<1>7. \A u \in Range(after) : \E j \in i + 1 .. Len(q) : u = q[j] BY PartsOfSeq
<1>8. RemoveAt(q, i) = before \o after
  BY DEF RemoveAt
<1> HIDE DEF before, after, rest
<1>9. Range(before) \subseteq those /\ Range(after) \subseteq those
  <2>2. \A j \in 1 .. i - 1 : q[j] \in those
    BY <1>0
  <2>3. \A j \in i + 1 .. Len(q) : q[j] \in those
    BY <1>0
  <2> QED BY <1>6, <1>7, <2>2, <2>3
<1>10. Keeping(before, those) = before
  BY <1>1, <1>9, KeepingAll
<1>11. Keeping(after, those) = after
  BY <1>2, <1>9, KeepingAll
<1>12. Keeping(before \o rest, those) = Keeping(before, those) \o Keeping(rest, those)
  BY <1>1, <1>3, KeepingConcat
<1>13. Keeping(rest, those) = Keeping(after, those)
  <2>1. \A x \in X : x \notin those => Keeping(<<x>> \o after, those) = Keeping(after, those)
    BY <1>2, KeepingSkips
  <2> QED BY <1>3, <1>4, <2>1
<1> QED BY <1>5, <1>8, <1>10, <1>11, <1>12, <1>13

\* Removing the notice is keeping what is not a notice.
LEMMA WithoutNotice ==
  ASSUME NEW q, Lined(q), HasNotice(q)
  PROVE  RemoveAt(q, NoticeAt(q)) = Keeping(q, Plain)
<1>1. /\ q \in Seq(Utterances) /\ NoticeAt(q) \in 1 .. Len(q)
      /\ q[NoticeAt(q)] \notin Plain
      /\ \A j \in 1 .. Len(q) : j # NoticeAt(q) => q[j] \in Plain
  BY NoticeAtIs, ElementOfSeq DEF Lined, Plain
<1> QED BY <1>1, WithoutOne

\* Keeping some of a lined up queue.
LEMMA KeepingLined ==
  ASSUME NEW q, Lined(q), NEW those
  PROVE  /\ Lined(Keeping(q, those))
         /\ Range(Keeping(q, those)) = Range(q) \cap those
<1>1. q \in Seq(Utterances) BY DEF Lined
<1>2. Keeping(q, those) \in Seq(Utterances) BY <1>1, KeepingIsSeq
<1>3. Range(Keeping(q, those)) = Range(q) \cap those BY <1>1, KeepingRange
<1>4. IsInjective(Keeping(q, those)) BY <1>1, KeepingOnce DEF Lined
<1> QED BY <1>2, <1>3, <1>4 DEF Lined

\* A new utterance at the end, or at the front.
LEMMA JoiningLined ==
  ASSUME NEW q, Lined(q), NEW u \in Utterances, u \notin Range(q),
         u \notin Notices \/ Range(q) \cap Notices = {}
  PROVE  /\ Lined(Append(q, u)) /\ Range(Append(q, u)) = Range(q) \cup {u}
         /\ Lined(<<u>> \o q)   /\ Range(<<u>> \o q)   = Range(q) \cup {u}
<1>1. q \in Seq(Utterances) BY DEF Lined
<1>2. Append(q, u) \in Seq(Utterances) BY <1>1, AppendProperties
<1>3. Range(Append(q, u)) = Range(q) \cup {u} BY <1>1, RangeOfAppend
<1>4. IsInjective(Append(q, u)) BY <1>1, OnceAppended DEF Lined
<1>5. <<u>> \o q \in Seq(Utterances) BY <1>1, RangeOfPrefixed
<1>6. Range(<<u>> \o q) = Range(q) \cup {u} BY <1>1, RangeOfPrefixed
<1>7. IsInjective(<<u>> \o q) BY <1>1, OncePrefixed DEF Lined
<1>8. \A a, b \in (Range(q) \cup {u}) \cap Notices : a = b BY DEF Lined
<1>9. Lined(Append(q, u)) BY <1>2, <1>3, <1>4, <1>8 DEF Lined
<1>10. Lined(<<u>> \o q) BY <1>5, <1>6, <1>7, <1>8 DEF Lined
<1> QED BY <1>3, <1>6, <1>9, <1>10

\* The newer notice in the place of the one that waits.
LEMMA ReplacingLined ==
  ASSUME NEW q, Lined(q), HasNotice(q), NEW u \in Notices, u \notin Range(q)
  PROVE  LET p == ReplaceAt(q, NoticeAt(q), u) IN
         /\ Lined(p) /\ Range(p) \subseteq Range(q) \cup {u}
         /\ HasNotice(p) /\ NoticeAt(p) = NoticeAt(q) /\ p[NoticeAt(q)] = u
         /\ Len(p) = Len(q)
<1> DEFINE n == NoticeAt(q)
           p == ReplaceAt(q, n, u)
<1>1. /\ q \in Seq(Utterances) /\ DOMAIN q = 1 .. Len(q) /\ Len(q) \in Nat
      /\ u \in Utterances
  BY LenProperties DEF Lined, Utterances
<1>2. n \in 1 .. Len(q) /\ \A j \in 1 .. Len(q) : q[j] \in Notices => j = n
  BY NoticeAtIs
<1>3. p = [q EXCEPT ![n] = u] BY DEF ReplaceAt
<1> HIDE DEF n, p
<1>4. p \in Seq(Utterances) /\ Len(p) = Len(q) /\ \A j \in 1 .. Len(q) : p[j] = IF j = n THEN u ELSE q[j]
  BY <1>1, <1>2, <1>3, ExceptSeq
<1>5. DOMAIN p = 1 .. Len(q) BY <1>4, LenProperties
<1>6. Range(p) \subseteq Range(q) \cup {u}
  BY <1>1, <1>4, <1>5 DEF Range
<1>7. IsInjective(p)
  <2>1. \A j \in 1 .. Len(q) : q[j] # u BY <1>1 DEF Range
  <2>2. \A i, j \in 1 .. Len(q) : q[i] = q[j] => i = j BY <1>1 DEF Lined, IsInjective
  <2>3. \A i, j \in 1 .. Len(q) : p[i] = p[j] => i = j BY <1>4, <2>1, <2>2
  <2> QED BY <1>5, <2>3 DEF IsInjective
<1>8. \A j \in 1 .. Len(q) : p[j] \in Notices => j = n
  BY <1>2, <1>4
<1>9. \A a, b \in Range(p) \cap Notices : a = b
  BY <1>5, <1>8 DEF Range
<1>10. Lined(p) BY <1>4, <1>7, <1>9 DEF Lined
<1>11. p[n] = u /\ u \in Range(p) BY <1>2, <1>4, <1>5 DEF Range
<1>12. HasNotice(p) BY <1>11 DEF HasNotice, IsNotice
<1>13. NoticeAt(p) = n BY <1>4, <1>10, <1>12, <1>8, NoticeAtIs
<1> USE DEF n, p
<1> QED BY <1>4, <1>6, <1>10, <1>11, <1>12, <1>13

\* requeue_front, read as the notice that stays in front of the others.
LEMMA FrontIs ==
  ASSUME NEW q, Lined(q), NEW u \in Utterances
  PROVE  /\ u \in Notices /\ HasNotice(q) =>
              PutFront(u, q) = <<q[NoticeAt(q)]>> \o Keeping(q, Plain)
         /\ u \notin Notices \/ ~HasNotice(q) => PutFront(u, q) = <<u>> \o q
BY WithoutNotice DEF PutFront, IsNotice

\* put_front keeps the queue in line.
LEMMA FrontLined ==
  ASSUME NEW q, Lined(q), NEW u \in Utterances, u \notin Range(q)
  PROVE  Lined(PutFront(u, q)) /\ Range(PutFront(u, q)) \subseteq Range(q) \cup {u}
<1>1. CASE u \in Notices /\ HasNotice(q)
  <2> DEFINE v == q[NoticeAt(q)]
             k == Keeping(q, Plain)
  <2>1. v \in Range(q) \cap Notices BY <1>1, NoticeAtIs
  <2>2. Lined(k) /\ Range(k) = Range(q) \cap Plain BY KeepingLined
  <2>3. v \in Utterances /\ v \notin Range(k) /\ Range(k) \cap Notices = {}
    BY <2>1, <2>2 DEF Plain, Utterances
  <2>4. PutFront(u, q) = <<v>> \o k BY <1>1, FrontIs
  <2> HIDE DEF v, k
  <2>5. Lined(<<v>> \o k) /\ Range(<<v>> \o k) = Range(k) \cup {v}
    BY <2>2, <2>3, JoiningLined
  <2>6. Lined(PutFront(u, q)) BY <2>4, <2>5
  <2>7. Range(PutFront(u, q)) = Range(k) \cup {v} BY <2>4, <2>5
  <2> QED BY <2>1, <2>2, <2>6, <2>7
<1>2. CASE u \notin Notices \/ ~HasNotice(q)
  <2>1. u \notin Notices \/ Range(q) \cap Notices = {}
    BY <1>2 DEF HasNotice, IsNotice
  <2>2. PutFront(u, q) = <<u>> \o q BY <1>2, FrontIs
  <2>3. Lined(<<u>> \o q) /\ Range(<<u>> \o q) = Range(q) \cup {u}
    BY <2>1, JoiningLined
  <2> QED BY <2>2, <2>3
<1> QED BY <1>1, <1>2

\* Sequences that agree from a to b have the same part there.
LEMMA SamePart ==
  ASSUME NEW X, NEW p \in Seq(X), NEW q \in Seq(X), NEW a \in Nat, NEW b \in Nat,
         \A k \in a .. b : p[k] \in X /\ p[k] = q[k]
  PROVE  SubSeq(p, a, b) = SubSeq(q, a, b)
<1>1. \A s \in Seq(X) : (\A k \in a .. b : s[k] \in X) =>
        /\ SubSeq(s, a, b) \in Seq(X)
        /\ Len(SubSeq(s, a, b)) = IF a <= b THEN b - a + 1 ELSE 0
        /\ \A k \in 1 .. b - a + 1 : SubSeq(s, a, b)[k] = s[a + k - 1]
  <2>1. a \in Int /\ b \in Int OBVIOUS
  <2> QED BY <2>1, SubSeqProperties
<1> DEFINE s == SubSeq(p, a, b)
           t == SubSeq(q, a, b)
<1>2. /\ s \in Seq(X) /\ Len(s) = IF a <= b THEN b - a + 1 ELSE 0
      /\ \A k \in 1 .. b - a + 1 : s[k] = p[a + k - 1]
  BY <1>1
<1>3. /\ t \in Seq(X) /\ Len(t) = IF a <= b THEN b - a + 1 ELSE 0
      /\ \A k \in 1 .. b - a + 1 : t[k] = q[a + k - 1]
  BY <1>1
<1> HIDE DEF s, t
<1>4. Len(s) = Len(t) BY <1>2, <1>3
<1>5. \A k \in 1 .. Len(s) : k \in 1 .. b - a + 1 /\ a + k - 1 \in a .. b
  <2>1. CASE a <= b BY <2>1, <1>2
  <2>2. CASE ~(a <= b)
    <3>1. Len(s) = 0 BY <2>2, <1>2
    <3> QED BY <3>1
  <2> QED BY <2>1, <2>2
<1>6. \A k \in 1 .. Len(s) : s[k] = t[k]
  BY <1>2, <1>3, <1>5
<1>7. s = t BY <1>2, <1>3, <1>4, <1>6, SeqEqual
<1> USE DEF s, t
<1> QED BY <1>7

\* A newer notice changes nothing but the notice.
LEMMA ReplacingKeepsOthers ==
  ASSUME NEW q, Lined(q), HasNotice(q), NEW u \in Notices, u \notin Range(q)
  PROVE  Keeping(ReplaceAt(q, NoticeAt(q), u), Plain) = Keeping(q, Plain)
<1> DEFINE n == NoticeAt(q)
           p == ReplaceAt(q, n, u)
<1>1. /\ q \in Seq(Utterances) /\ Len(q) \in Nat /\ u \in Utterances
      /\ \A j \in 1 .. Len(q) : q[j] \in Utterances
  BY LenProperties, ElementOfSeq DEF Lined, Utterances
<1>2. n \in 1 .. Len(q) BY NoticeAtIs
<1>3. p = [q EXCEPT ![n] = u] BY DEF ReplaceAt
<1>4. Lined(p) /\ HasNotice(p) /\ NoticeAt(p) = n /\ Len(p) = Len(q)
  BY ReplacingLined
<1> HIDE DEF n, p
<1>5. p \in Seq(Utterances) /\ \A j \in 1 .. Len(q) : p[j] = IF j = n THEN u ELSE q[j]
  BY <1>1, <1>2, <1>3, ExceptSeq
<1>6. SubSeq(p, 1, n - 1) = SubSeq(q, 1, n - 1)
  <2>1. \A k \in 1 .. n - 1 : p[k] \in Utterances /\ p[k] = q[k] BY <1>1, <1>2, <1>5
  <2>2. 1 \in Nat /\ n - 1 \in Nat BY <1>1, <1>2
  <2> QED BY <1>1, <1>5, <2>1, <2>2, SamePart
<1>7. SubSeq(p, n + 1, Len(q)) = SubSeq(q, n + 1, Len(q))
  <2>1. \A k \in n + 1 .. Len(q) : p[k] \in Utterances /\ p[k] = q[k] BY <1>1, <1>2, <1>5
  <2>2. n + 1 \in Nat /\ Len(q) \in Nat BY <1>1, <1>2
  <2> QED BY <1>1, <1>5, <2>1, <2>2, SamePart
<1>8. RemoveAt(p, n) = RemoveAt(q, n)
  BY <1>4, <1>6, <1>7 DEF RemoveAt
<1>9. RemoveAt(p, n) = Keeping(p, Plain) BY <1>4, WithoutNotice
<1> USE DEF n, p
<1>10. RemoveAt(q, n) = Keeping(q, Plain) BY WithoutNotice
<1> QED BY <1>8, <1>9, <1>10

\* Joining the end does not touch the front, unless both are notices.
LEMMA FrontOfAppended ==
  ASSUME NEW q, Lined(q), NEW c \in Utterances, c \notin Range(q),
         NEW u \in Utterances, u \notin Range(q), ~(c \in Notices /\ u \in Notices)
  PROVE  PutFront(c, Append(q, u)) = Append(PutFront(c, q), u)
<1> DEFINE p == Append(q, u)
<1>1. /\ q \in Seq(Utterances) /\ Len(q) \in Nat
      /\ Len(p) = Len(q) + 1 /\ \A i \in 1 .. Len(q) : p[i] = q[i]
  BY AppendProperties, LenProperties DEF Lined
<1>2. Range(p) = Range(q) \cup {u} BY <1>1, RangeOfAppend
<1>3. CASE c \in Notices /\ HasNotice(q)
  <2>1. u \notin Notices /\ u \in Plain BY <1>3 DEF Plain
  <2>2. Lined(p) BY <2>1, JoiningLined
  <2>3. HasNotice(p) BY <1>2, <1>3 DEF HasNotice
  <2>4. NoticeAt(q) \in 1 .. Len(q) /\ q[NoticeAt(q)] \in Notices BY <1>3, NoticeAtIs
  <2>5. \A j \in 1 .. Len(p) : p[j] \in Notices => j = NoticeAt(p) BY <2>2, <2>3, NoticeAtIs
  <2>6. NoticeAt(p) = NoticeAt(q) /\ p[NoticeAt(q)] = q[NoticeAt(q)]
    <3> HIDE DEF p
    <3> QED BY <1>1, <2>4, <2>5
  <2>7. Keeping(p, Plain) = Append(Keeping(q, Plain), u) BY <1>1, <2>1, KeepingAppend
  <2>8. PutFront(c, p) = <<p[NoticeAt(p)]>> \o Keeping(p, Plain)
    <3> HIDE DEF p
    <3> QED BY <1>3, <2>2, <2>3, FrontIs
  <2>9. PutFront(c, q) = <<q[NoticeAt(q)]>> \o Keeping(q, Plain) BY <1>3, FrontIs
  <2> DEFINE v == q[NoticeAt(q)]
             k == Keeping(q, Plain)
  <2>10. v \in Utterances /\ k \in Seq(Utterances)
    BY <1>1, <2>4, KeepingIsSeq, ElementOfSeq
  <2> HIDE DEF v, k
  <2>11. <<v>> \in Seq(Utterances) BY <2>10
  <2>12. <<v>> \o Append(k, u) = Append(<<v>> \o k, u) BY <2>10, <2>11, AppendOfConcat
  <2> USE DEF v, k
  <2> QED BY <2>6, <2>7, <2>8, <2>9, <2>12
<1>4. CASE ~(c \in Notices /\ HasNotice(q))
  <2>1. ~(c \in Notices /\ HasNotice(p)) BY <1>2, <1>4 DEF HasNotice, IsNotice
  <2>2. PutFront(c, q) = <<c>> \o q BY <1>4 DEF PutFront, IsNotice
  <2>3. PutFront(c, p) = <<c>> \o p BY <2>1 DEF PutFront, IsNotice
  <2>4. <<c>> \in Seq(Utterances) OBVIOUS
  <2>5. <<c>> \o p = Append(<<c>> \o q, u) BY <1>1, <2>4, AppendOfConcat
  <2> QED BY <2>2, <2>3, <2>5
<1> QED BY <1>3, <1>4

\* The element at the front of a prefixed queue gives way to another.
LEMMA FirstReplaced ==
  ASSUME NEW X, NEW q \in Seq(X), NEW c \in X, NEW u \in X
  PROVE  ReplaceAt(<<c>> \o q, 1, u) = <<u>> \o q
<1>1. \A x \in X :
        /\ <<x>> \o q \in Seq(X) /\ Len(<<x>> \o q) = Len(q) + 1
        /\ \A i \in 1 .. Len(q) + 1 : (<<x>> \o q)[i] = IF i = 1 THEN x ELSE q[i - 1]
  BY RangeOfPrefixed
<1> DEFINE p == <<c>> \o q
           t == <<u>> \o q
           r == ReplaceAt(p, 1, u)
<1>2. /\ p \in Seq(X) /\ Len(p) = Len(q) + 1
      /\ \A i \in 1 .. Len(q) + 1 : p[i] = IF i = 1 THEN c ELSE q[i - 1]
  BY <1>1
<1>3. /\ t \in Seq(X) /\ Len(t) = Len(q) + 1
      /\ \A i \in 1 .. Len(q) + 1 : t[i] = IF i = 1 THEN u ELSE q[i - 1]
  BY <1>1
<1>4. r = [p EXCEPT ![1] = u] BY DEF ReplaceAt
<1>5. Len(q) \in Nat BY LenProperties
<1> HIDE DEF p, t, r
<1>6. /\ r \in Seq(X) /\ Len(r) = Len(p)
      /\ \A i \in 1 .. Len(p) : r[i] = IF i = 1 THEN u ELSE p[i]
  <2>1. 1 \in 1 .. Len(p) BY <1>2, <1>5
  <2> QED BY <1>2, <1>4, <2>1, ExceptSeq
<1>7. \A i \in 1 .. Len(r) : r[i] = t[i]
  BY <1>2, <1>3, <1>6
<1>8. r = t BY <1>2, <1>3, <1>6, <1>7, SeqEqual
<1> USE DEF p, t, r
<1> QED BY <1>8

\* An element behind the front gives way to another.
LEMMA LaterReplaced ==
  ASSUME NEW X, NEW q \in Seq(X), NEW c \in X, NEW u \in X, NEW n \in 1 .. Len(q)
  PROVE  ReplaceAt(<<c>> \o q, n + 1, u) = <<c>> \o ReplaceAt(q, n, u)
<1>1. \A s \in Seq(X) :
        /\ <<c>> \o s \in Seq(X) /\ Len(<<c>> \o s) = Len(s) + 1
        /\ \A i \in 1 .. Len(s) + 1 : (<<c>> \o s)[i] = IF i = 1 THEN c ELSE s[i - 1]
  BY RangeOfPrefixed
<1> DEFINE p == <<c>> \o q
           s == ReplaceAt(q, n, u)
           t == <<c>> \o s
           r == ReplaceAt(p, n + 1, u)
<1>2. s = [q EXCEPT ![n] = u] /\ r = [p EXCEPT ![n + 1] = u] BY DEF ReplaceAt
<1>5. Len(q) \in Nat BY LenProperties
<1>3. /\ p \in Seq(X) /\ Len(p) = Len(q) + 1
      /\ \A i \in 1 .. Len(q) + 1 : p[i] = IF i = 1 THEN c ELSE q[i - 1]
  BY <1>1
<1> HIDE DEF s, r, p
<1>4. /\ s \in Seq(X) /\ Len(s) = Len(q)
      /\ \A i \in 1 .. Len(q) : s[i] = IF i = n THEN u ELSE q[i]
  BY <1>2, ExceptSeq
<1>6. /\ t \in Seq(X) /\ Len(t) = Len(s) + 1
      /\ \A i \in 1 .. Len(s) + 1 : t[i] = IF i = 1 THEN c ELSE s[i - 1]
  BY <1>1, <1>4
<1> HIDE DEF t
<1>7. /\ r \in Seq(X) /\ Len(r) = Len(p)
      /\ \A i \in 1 .. Len(p) : r[i] = IF i = n + 1 THEN u ELSE p[i]
  <2>1. n + 1 \in 1 .. Len(p) BY <1>3, <1>5
  <2> QED BY <1>2, <1>3, <2>1, ExceptSeq
<1>8. \A i \in 1 .. Len(r) : r[i] = t[i]
  <2>1. SUFFICES ASSUME NEW i \in 1 .. Len(q) + 1 PROVE r[i] = t[i]
    BY <1>3, <1>7
  <2>2. CASE i = 1 BY <2>2, <1>3, <1>4, <1>5, <1>6, <1>7
  <2>3. CASE i # 1
    <3>1. i - 1 \in 1 .. Len(q) BY <2>3, <1>5
    <3>2. t[i] = IF i - 1 = n THEN u ELSE q[i - 1] BY <3>1, <2>3, <1>4, <1>6
    <3>3. r[i] = IF i = n + 1 THEN u ELSE q[i - 1] BY <2>3, <1>3, <1>7
    <3> QED BY <3>2, <3>3
  <2> QED BY <2>2, <2>3
<1>9. r = t BY <1>3, <1>4, <1>6, <1>7, <1>8, SeqEqual
<1> USE DEF s, r, p, t
<1> QED BY <1>9

\* A newer notice takes the place of the copied one.
LEMMA FrontOfNewer ==
  ASSUME NEW q, Lined(q), NEW c \in Notices, ~HasNotice(q),
         NEW u \in Notices, u \notin Range(q)
  PROVE  PutFront(c, Append(q, u)) = ReplaceAt(PutFront(c, q), 1, u)
<1> DEFINE p == Append(q, u)
<1>1. /\ q \in Seq(Utterances) /\ Len(q) \in Nat /\ u \in Utterances /\ c \in Utterances
      /\ Len(p) = Len(q) + 1 /\ p[Len(q) + 1] = u
  BY AppendProperties, LenProperties DEF Lined, Utterances
<1>2. Range(p) = Range(q) \cup {u} BY <1>1, RangeOfAppend
<1>3. Range(q) \cap Notices = {} BY DEF HasNotice, IsNotice
<1>4. Lined(p) BY <1>1, <1>3, JoiningLined
<1>5. HasNotice(p) BY <1>2 DEF HasNotice, IsNotice
<1>6. Keeping(p, Plain) = Keeping(q, Plain)
  BY <1>1, KeepingAppend DEF Plain
<1>7. Keeping(q, Plain) = q
  <2>1. Range(q) \subseteq Plain BY <1>1, <1>3, RangeOfSeq DEF Plain
  <2> QED BY <1>1, <2>1, KeepingAll
<1>8. PutFront(c, q) = <<c>> \o q BY DEF PutFront
<1> HIDE DEF p
<1>9. NoticeAt(p) = Len(q) + 1
  <2>1. \A j \in 1 .. Len(p) : p[j] \in Notices => j = NoticeAt(p) BY <1>4, <1>5, NoticeAtIs
  <2> QED BY <1>1, <2>1
<1>10. PutFront(c, p) = <<p[NoticeAt(p)]>> \o Keeping(p, Plain)
  BY <1>1, <1>4, <1>5, FrontIs
<1>11. PutFront(c, p) = <<u>> \o q
  BY <1>1, <1>6, <1>7, <1>9, <1>10
<1>12. ReplaceAt(<<c>> \o q, 1, u) = <<u>> \o q BY <1>1, FirstReplaced
<1> USE DEF p
<1> QED BY <1>8, <1>11, <1>12

\* So does one that takes the place of a notice in the queue.
LEMMA FrontOfReplaced ==
  ASSUME NEW q, Lined(q), HasNotice(q), NEW c \in Utterances, c \notin Range(q),
         NEW u \in Notices, u \notin Range(q)
  PROVE  LET p == ReplaceAt(q, NoticeAt(q), u) IN
         \E i \in 1 .. Len(PutFront(c, q)) :
            /\ PutFront(c, q)[i] \in Notices
            /\ PutFront(c, p) = ReplaceAt(PutFront(c, q), i, u)
<1> DEFINE n == NoticeAt(q)
           p == ReplaceAt(q, n, u)
           v == q[n]
           k == Keeping(q, Plain)
<1>1. /\ q \in Seq(Utterances) /\ Len(q) \in Nat /\ u \in Utterances
  BY LenProperties DEF Lined, Utterances
<1>2. n \in 1 .. Len(q) /\ v \in Notices /\ v \in Utterances BY NoticeAtIs DEF Utterances
<1>3. Lined(p) /\ HasNotice(p) /\ NoticeAt(p) = n /\ p[n] = u
  BY ReplacingLined
<1>4. Keeping(p, Plain) = k BY ReplacingKeepsOthers
<1>5. k \in Seq(Utterances) BY <1>1, KeepingIsSeq
<1>6. CASE c \in Notices
  <2>1. PutFront(c, q) = <<v>> \o k BY <1>6, FrontIs
  <2>2. PutFront(c, p) = <<u>> \o k
    <3> HIDE DEF p, n, k
    <3>1. PutFront(c, p) = <<p[NoticeAt(p)]>> \o Keeping(p, Plain)
      BY <1>3, <1>6, FrontIs
    <3> QED BY <3>1, <1>3, <1>4
  <2> HIDE DEF v, k, n, p
  <2>3. ReplaceAt(<<v>> \o k, 1, u) = <<u>> \o k BY <1>1, <1>2, <1>5, FirstReplaced
  <2>4. Len(<<v>> \o k) = Len(k) + 1 /\ Len(k) \in Nat
    BY <1>2, <1>5, RangeOfPrefixed, LenProperties
  <2>5. (<<v>> \o k)[1] = v
    <3>1. \A i \in 1 .. Len(k) + 1 : (<<v>> \o k)[i] = IF i = 1 THEN v ELSE k[i - 1]
      BY <1>2, <1>5, RangeOfPrefixed
    <3> QED BY <3>1, <2>4
  <2>6. 1 \in 1 .. Len(PutFront(c, q)) BY <2>1, <2>4
  <2>7. PutFront(c, q)[1] \in Notices BY <2>1, <2>5, <1>2
  <2>8. PutFront(c, p) = ReplaceAt(PutFront(c, q), 1, u) BY <2>1, <2>2, <2>3
  <2> USE DEF v, k, n, p
  <2> QED BY <2>6, <2>7, <2>8
<1>7. CASE c \notin Notices
  <2>1. PutFront(c, q) = <<c>> \o q /\ PutFront(c, p) = <<c>> \o p
    BY <1>7 DEF PutFront, IsNotice
  <2>2. ReplaceAt(<<c>> \o q, n + 1, u) = <<c>> \o p
    <3>1. \A j \in 1 .. Len(q) :
            ReplaceAt(<<c>> \o q, j + 1, u) = <<c>> \o ReplaceAt(q, j, u)
      BY <1>1, LaterReplaced
    <3> HIDE DEF n
    <3> QED BY <3>1, <1>2
  <2>3. Len(<<c>> \o q) = Len(q) + 1
    BY <1>1, RangeOfPrefixed
  <2>4. (<<c>> \o q)[n + 1] = v
    <3>1. \A i \in 1 .. Len(q) + 1 : (<<c>> \o q)[i] = IF i = 1 THEN c ELSE q[i - 1]
      BY <1>1, RangeOfPrefixed
    <3> HIDE DEF n
    <3>2. n + 1 \in 1 .. Len(q) + 1 /\ n + 1 # 1 /\ (n + 1) - 1 = n BY <1>1, <1>2
    <3> QED BY <3>1, <3>2
  <2> HIDE DEF v, n, p
  <2>5. n + 1 \in 1 .. Len(PutFront(c, q)) BY <2>1, <2>3, <1>1, <1>2
  <2>6. PutFront(c, q)[n + 1] \in Notices BY <2>1, <2>4, <1>2
  <2>7. PutFront(c, p) = ReplaceAt(PutFront(c, q), n + 1, u) BY <2>1, <2>2
  <2> USE DEF v, n, p
  <2> QED BY <2>5, <2>6, <2>7
<1> QED BY <1>6, <1>7

\* The interims drop out of what is put in front as out of the queue.
LEMMA FrontOfKept ==
  ASSUME NEW q, Lined(q), NEW c \in Utterances \ Interims
  PROVE  PutFront(c, Keeping(q, Utterances \ Interims))
           = Keeping(PutFront(c, q), Utterances \ Interims)
<1> DEFINE Rest == Utterances \ Interims
           k == Keeping(q, Rest)
<1>1. q \in Seq(Utterances) BY DEF Lined
<1>2. Lined(k) /\ Range(k) = Range(q) \cap Rest BY KeepingLined
<1>3. Notices \subseteq Rest BY KindsDiffer DEF Utterances
<1>4. HasNotice(k) <=> HasNotice(q)
  <2> HIDE DEF k
  <2> QED BY <1>2, <1>3 DEF HasNotice, IsNotice
<1>5. CASE c \in Notices /\ HasNotice(q)
  <2> DEFINE v == q[NoticeAt(q)]
             m == Keeping(q, Plain)
  <2>1. Range(q) \cap Notices = {v} /\ v \in Utterances
    BY <1>5, NoticeAtIs DEF Utterances
  <2>2. k[NoticeAt(k)] = v
    <3> HIDE DEF k
    <3>1. Range(k) \cap Notices = {k[NoticeAt(k)]} BY <1>2, <1>4, <1>5, NoticeAtIs
    <3> HIDE DEF v
    <3> QED BY <1>2, <1>3, <2>1, <3>1
  <2>3. PutFront(c, k) = <<v>> \o Keeping(k, Plain)
    <3> HIDE DEF k, v
    <3>1. PutFront(c, k) = <<k[NoticeAt(k)]>> \o Keeping(k, Plain)
      BY <1>2, <1>4, <1>5, FrontIs
    <3> QED BY <2>2, <3>1
  <2>4. PutFront(c, q) = <<v>> \o m BY <1>5, FrontIs
  <2>5. Keeping(k, Plain) = Keeping(q, Rest \cap Plain)
    BY <1>1, KeepingTwice
  <2>6. Keeping(m, Rest) = Keeping(q, Plain \cap Rest)
    BY <1>1, KeepingTwice
  <2>7. Rest \cap Plain = Plain \cap Rest OBVIOUS
  <2>8. m \in Seq(Utterances) BY <1>1, KeepingIsSeq
  <2>9. v \in Rest
    BY <2>1, <1>3
  <2> HIDE DEF v, m, Rest, k
  <2>10. Keeping(<<v>> \o m, Rest) = <<v>> \o Keeping(m, Rest)
    BY <2>1, <2>8, <2>9, KeepingPrefixed
  <2>11. PutFront(c, k) = Keeping(PutFront(c, q), Rest)
    BY <2>3, <2>4, <2>5, <2>6, <2>7, <2>10
  <2> USE DEF v, m, Rest, k
  <2> QED BY <2>11
<1>6. CASE ~(c \in Notices /\ HasNotice(q))
  <2>1. PutFront(c, q) = <<c>> \o q BY <1>6 DEF PutFront, IsNotice
  <2>2. PutFront(c, k) = <<c>> \o k
    <3> HIDE DEF k
    <3> QED BY <1>4, <1>6 DEF PutFront, IsNotice
  <2>3. Keeping(<<c>> \o q, Rest) = <<c>> \o k
    BY <1>1, KeepingPrefixed
  <2> QED BY <2>1, <2>2, <2>3
<1> QED BY <1>5, <1>6

\* The first that has not expired: all before it have.
LEMMA FirstFreshIs ==
  ASSUME NEW q, Lined(q)
  PROVE  /\ FirstFresh(q) \in 0 .. Len(q)
         /\ FirstFresh(q) = 0 => \A j \in 1 .. Len(q) : q[j] \in expired
         /\ FirstFresh(q) # 0 => /\ q[FirstFresh(q)] \notin expired
                                 /\ \A j \in 1 .. FirstFresh(q) - 1 : q[j] \in expired
<1> DEFINE At == {j \in 1 .. Len(q) : Fresh(q[j])}
<1>1. q \in Seq(Utterances) /\ DOMAIN q = 1 .. Len(q) /\ Len(q) \in Nat
  BY LenProperties DEF Lined
<1>2. FirstFresh(q) = IF At = {} THEN 0 ELSE CHOOSE x \in At : \A y \in At : x <= y
  BY <1>1 DEF FirstFresh, SelectInSeq, Min
<1>3. CASE At = {}
  <2>1. FirstFresh(q) = 0 BY <1>2, <1>3
  <2>2. \A j \in 1 .. Len(q) : q[j] \in expired BY <1>3 DEF Fresh
  <2> QED BY <2>1, <2>2, <1>1
<1>4. CASE At # {}
  <2>1. \E x \in At : \A y \in At : x <= y
    <3>1. At \in SUBSET Nat OBVIOUS
    <3> HIDE DEF At
    <3> QED BY <3>1, <1>4, LeastNat
  <2>2. FirstFresh(q) \in At /\ \A y \in At : FirstFresh(q) <= y
    <3> HIDE DEF At
    <3> QED BY <1>2, <1>4, <2>1
  <2>3. \A j \in 1 .. FirstFresh(q) - 1 : j \in 1 .. Len(q) /\ j \notin At
    BY <2>2, <1>1
  <2> QED BY <1>1, <2>2, <2>3 DEF Fresh
<1> QED BY <1>3, <1>4

\* What the loop takes and leaves is the queue without the interims that
\* expired before it.
LEMMA TakingIs ==
  ASSUME NEW q, Lined(q), expired \subseteq Interims,
         NEW f, f = FirstFresh(q), f # 0
  PROVE  \E gone \in SUBSET Interims :
           LET rest == Keeping(q, Utterances \ gone) IN
           /\ rest # <<>> /\ Head(rest) = q[f] /\ Tail(rest) = SubSeq(q, f + 1, Len(q))
<1>1. /\ q \in Seq(Utterances) /\ Len(q) \in Nat /\ f \in 1 .. Len(q)
      /\ \A j \in 1 .. f - 1 : q[j] \in expired
      /\ \A i, j \in 1 .. Len(q) : q[i] = q[j] => i = j
  BY FirstFreshIs, LenProperties DEF Lined, IsInjective
<1> DEFINE before == SubSeq(q, 1, f - 1)
           rest == SubSeq(q, f, Len(q))
           gone == {q[j] : j \in 1 .. f - 1}
           left == Utterances \ gone
<1>2. before \in Seq(Utterances) BY <1>1, PartsOfSeq
<1>3. rest \in Seq(Utterances) BY <1>1, PartsOfSeq
<1>4. q = before \o rest BY <1>1, PartsOfSeq
<1>5. \A u \in Range(before) : \E j \in 1 .. f - 1 : u = q[j] BY <1>1, PartsOfSeq
<1>6. \A u \in Range(rest) : \E j \in f .. Len(q) : u = q[j]
  <2>1. Len(q) \in Int /\ f \in Int /\ \A j \in f .. Len(q) : q[j] \in Utterances
    BY <1>1, ElementOfSeq
  <2>2. /\ Len(rest) = IF f <= Len(q) THEN Len(q) - f + 1 ELSE 0
        /\ \A j \in 1 .. Len(q) - f + 1 : rest[j] = q[f + j - 1]
    BY <2>1, SubSeqProperties
  <2>3. DOMAIN rest = 1 .. Len(q) - f + 1
    BY <2>2, <1>1, <1>3, LenProperties
  <2> HIDE DEF rest
  <2>4. \A j \in 1 .. Len(q) - f + 1 : f + j - 1 \in f .. Len(q) BY <1>1
  <2> QED BY <2>2, <2>3, <2>4 DEF Range
<1>7. gone \in SUBSET Interims BY <1>1
<1>8. Range(before) \cap left = {} BY <1>5
<1>9. Range(rest) \subseteq left
  <2>1. \A j \in f .. Len(q) : q[j] \in Utterances /\ q[j] \notin gone
    <3>1. \A j \in f .. Len(q), i \in 1 .. f - 1 : j \in 1 .. Len(q) /\ i \in 1 .. Len(q) /\ i # j
      BY <1>1
    <3>2. \A j \in f .. Len(q) : j \in 1 .. Len(q) BY <1>1
    <3> QED BY <1>1, <3>1, <3>2, ElementOfSeq
  <2> QED BY <2>1, <1>6
<1> HIDE DEF before, rest, gone, left
<1>10. Keeping(before, left) = <<>> BY <1>2, <1>8, KeepingNothing
<1>11. Keeping(rest, left) = rest BY <1>3, <1>9, KeepingAll
<1>12. Keeping(before \o rest, left) = Keeping(before, left) \o Keeping(rest, left)
  BY <1>2, <1>3, KeepingConcat
<1>13. Keeping(q, left) = rest BY <1>3, <1>4, <1>10, <1>11, <1>12, ConcatEmptySeq
<1> USE DEF rest, left
<1>14. Len(q) \in f .. Len(q) BY <1>1
<1>15. Head(rest) = q[f] /\ Tail(rest) = SubSeq(q, f + 1, Len(q))
  BY <1>1, <1>14, HeadTailOfSubSeq
<1>16. rest # <<>>
  <2>1. Len(rest) = IF f <= Len(q) THEN Len(q) - f + 1 ELSE 0
    <3>1. Len(q) \in Int /\ f \in Int /\ \A j \in f .. Len(q) : q[j] \in Utterances
      BY <1>1, ElementOfSeq
    <3> QED BY <3>1, SubSeqProperties
  <2> HIDE DEF rest
  <2>2. Len(rest) # 0 BY <2>1, <1>1
  <2> QED BY <2>2
<1> QED BY <1>7, <1>13, <1>15, <1>16

\* Taking leaves a line, without what was taken.
LEMMA TakingLined ==
  ASSUME NEW q, Lined(q), NEW f \in 1 .. Len(q)
  PROVE  LET t == SubSeq(q, f + 1, Len(q)) IN
         Lined(t) /\ Range(t) \subseteq Range(q) /\ q[f] \in Range(q) /\ q[f] \notin Range(t)
<1> DEFINE t == SubSeq(q, f + 1, Len(q))
<1>1. /\ q \in Seq(Utterances) /\ Len(q) \in Nat /\ DOMAIN q = 1 .. Len(q)
      /\ \A i, j \in 1 .. Len(q) : q[i] = q[j] => i = j
  BY LenProperties DEF Lined, IsInjective
<1>2. t \in Seq(Utterances) BY <1>1, PartsOfSeq
<1>3. \A u \in Range(t) : \E j \in f + 1 .. Len(q) : u = q[j] BY <1>1, PartsOfSeq
<1>4. \A j \in f + 1 .. Len(q) : j \in 1 .. Len(q) /\ j # f BY <1>1
<1>5. /\ Len(t) = IF f + 1 <= Len(q) THEN Len(q) - (f + 1) + 1 ELSE 0
      /\ \A j \in 1 .. Len(q) - (f + 1) + 1 : t[j] = q[(f + 1) + j - 1]
  <2>1. Len(q) \in Int /\ f + 1 \in Int /\ \A j \in f + 1 .. Len(q) : q[j] \in Utterances
    BY <1>1, ElementOfSeq
  <2> QED BY <2>1, SubSeqProperties
<1> HIDE DEF t
<1>6. DOMAIN t = 1 .. Len(t) BY <1>2, LenProperties
<1>7. \A j \in 1 .. Len(t) : j \in 1 .. Len(q) - (f + 1) + 1 /\ (f + 1) + j - 1 \in 1 .. Len(q)
  <2>1. CASE f + 1 <= Len(q) BY <2>1, <1>1, <1>5
  <2>2. CASE ~(f + 1 <= Len(q))
    <3>1. Len(t) = 0 BY <2>2, <1>5
    <3> QED BY <3>1
  <2> QED BY <2>1, <2>2
<1>8. IsInjective(t)
  <2> SUFFICES ASSUME NEW i \in 1 .. Len(t), NEW j \in 1 .. Len(t), t[i] = t[j] PROVE i = j
    BY <1>6 DEF IsInjective
  <2>1. (f + 1) + i - 1 = (f + 1) + j - 1 BY <1>1, <1>5, <1>7
  <2> QED BY <2>1, <1>1
<1>9. Range(t) \subseteq Range(q) /\ q[f] \notin Range(t) /\ q[f] \in Range(q)
  BY <1>1, <1>3, <1>4 DEF Range
<1>10. Lined(t) BY <1>2, <1>8, <1>9 DEF Lined
<1> USE DEF t
<1> QED BY <1>9, <1>10

\* The queue is in line, and holds only what the agents had to say.
QueueInLine ==
  /\ Lined(utterances) /\ Range(utterances) \subseteq asked
  /\ asked \subseteq Utterances /\ expired \subseteq Interims

\* The loop has what it is about to speak, or speaks, in hand.
OneInHand ==
  /\ playing \in asked \cup {Nobody}
  /\ (playing # Nobody) = (loopAt \in {"ask", "speak", "drain"})
  /\ Saying # Nobody => Saying \notin Range(utterances)

\* A stop keeps the lock until it has put back what it copied.
CopyInHand ==
  /\ copied \in asked \cup {Nobody} /\ copied \notin Range(utterances)
  /\ (copied # Nobody) = (recorder = "putBack")
  /\ copied # Nobody => lock = "recorder" /\ Saying = Nobody
  /\ press \in {"mic", "toggle"} => lock = "mic"

\* The invariant of the refinement.
OutInv == QuietInv /\ QueueInLine /\ OneInHand /\ CopyInHand

\* A step the outbox does not see.
OutboxStays == UNCHANGED <<Waits, Saying, said, asked>>

\* Nothing changes in the outbox.
LEMMA OutboxStutters ==
  ASSUME OutboxStays PROVE UNCHANGED Outbox!outboxVars
BY DEF OutboxStays, Outbox!outboxVars, Waits, Saying

\* With no copy in hand, what waits is the queue.
LEMMA WaitsIsQueue ==
  ASSUME copied \in Interims \cup {Nobody} PROVE Waits = utterances
BY DEF Waits, PutBack

\* An interim is not put back: with one copied, or nothing, the queue is what waits.
LEMMA WaitsIsQueueNext ==
  ASSUME copied' \in Interims \cup {Nobody} PROVE Waits' = utterances'
BY DEF Waits, PutBack

\* Neither a free hand nor the reader's selection is an utterance of an agent.
LEMMA NobodyIsNobody == Nobody \notin Utterances /\ "selection" \notin Utterances
BY NobodyAssumption DEF Utterances

\* What is being said is what the loop has in hand.
LEMMA SayingIsPlaying ==
  ASSUME OutInv
  PROVE  /\ AgentPlayback => /\ Saying = playing /\ playing \in Utterances
                             /\ loopAt \in {"speak", "drain"} /\ voice = playing
         /\ loopAt = "ask" => Saying = playing /\ ~AgentPlayback /\ playing \in Utterances
         /\ ~AgentPlayback /\ loopAt # "ask" => Saying = Nobody
         /\ Saying # Nobody => Saying = playing /\ Saying \in asked
         /\ lock = "free" => copied = Nobody
         /\ Saying # Nobody => copied = Nobody
BY NobodyIsNobody DEF OutInv, QuietInv, PlaybackIsPlaying, QueueInLine, OneInHand, CopyInHand,
   Saying, AgentPlayback

-----------------------------------------------------------------------------
\* The loop's steps that take nothing.
LoopTurns == \/ LoopRests \/ LoopHasNoVoice \/ LoopStarts \/ LoopSpeaks \/ LoopFails
             \/ LoopDrained \/ LoopWakes

\* What the loop does after it spoke, or to begin again.
LEMMA LoopTurnsKeepOut ==
  ASSUME OutInv, LoopTurns
  PROVE  /\ QueueInLine' /\ OneInHand' /\ CopyInHand'
         /\ Outbox!CutOff \/ OutboxStays
<1>1. UNCHANGED <<utterances, said, asked, expired, copied, recorder, lock, press>>
  BY DEF LoopTurns, LoopRests, LoopHasNoVoice, LoopStarts, LoopSpeaks, LoopFails,
         LoopDrained, LoopWakes, worldVars
<1>2. Waits' = Waits BY <1>1 DEF Waits
<1>3. /\ Saying' = Saying \/ (Saying # Nobody /\ Saying' = Nobody)
      /\ playing' \in {playing, Nobody}
      /\ (playing' # Nobody) = (loopAt' \in {"ask", "speak", "drain"})
  <2>1. CASE LoopRests \/ LoopSpeaks \/ LoopWakes
    BY <2>1, SayingIsPlaying DEF LoopRests, LoopSpeaks, LoopWakes, LoopGoes, worldVars, Saying,
       AgentPlayback, OutInv, OneInHand
  <2>2. CASE LoopHasNoVoice
    BY <2>2, SayingIsPlaying, NobodyIsNobody DEF LoopHasNoVoice, LoopGoes, worldVars, Saying, AgentPlayback
  <2>3. CASE LoopStarts
    BY <2>3, SayingIsPlaying DEF LoopStarts, LoopGoes, Saying, AgentPlayback, OutInv, OneInHand
  <2>4. CASE LoopFails
    BY <2>4, SayingIsPlaying, NobodyIsNobody DEF LoopFails, LoopGoes, Saying, AgentPlayback
  <2>5. CASE LoopDrained
    BY <2>5, SayingIsPlaying DEF LoopDrained, LoopGoes, Saying, AgentPlayback
  <2> QED BY <2>1, <2>2, <2>3, <2>4, <2>5 DEF LoopTurns
<1>4. QueueInLine' /\ OneInHand' /\ CopyInHand'
  BY <1>1, <1>3 DEF OutInv, QueueInLine, OneInHand, CopyInHand
<1>5. Outbox!CutOff \/ OutboxStays
  BY <1>1, <1>2, <1>3, OutboxCuts DEF OutboxStays
<1> QED BY <1>4, <1>5

\* Nothing waits in a queue of expired interims.
LEMMA NothingFresh ==
  ASSUME NEW q, Lined(q), expired \subseteq Interims, FirstFresh(q) = 0
  PROVE  \E gone \in SUBSET Interims : Keeping(q, Utterances \ gone) = <<>>
<1> DEFINE left == Utterances \ expired
<1>1. /\ q \in Seq(Utterances) /\ DOMAIN q = 1 .. Len(q)
      /\ \A j \in 1 .. Len(q) : q[j] \in expired
  BY FirstFreshIs, LenProperties DEF Lined
<1>2. Range(q) \cap left = {} BY <1>1 DEF Range
<1> HIDE DEF left
<1>3. Keeping(q, left) = <<>> BY <1>1, <1>2, KeepingNothing
<1> USE DEF left
<1> QED BY <1>3

\* An empty queue is in line.
LEMMA EmptyLined == Lined(<<>>) /\ Range(<<>>) = {}
<1>1. <<>> \in Seq(Utterances) /\ DOMAIN <<>> = {} BY EmptySeq
<1> QED BY <1>1 DEF Lined, IsInjective, Range

\* The loop takes what is first in line, or finds expired interims only.
LEMMA TakingKeepsOut ==
  ASSUME OutInv, LoopTakes
  PROVE  /\ QueueInLine' /\ OneInHand' /\ CopyInHand'
         /\ Outbox!Say \/ Outbox!Age
<1> DEFINE q == utterances
           f == FirstFresh(q)
<1>1. /\ loopAt = "look" /\ recorder = "none" /\ dictation = "Idle"
      /\ UNCHANGED <<said, asked, expired, copied, recorder, lock, press, dictation, voice>>
  BY DEF LoopTakes, LoopGoes, MaySpeak, RepliesHeld, worldVars
<1>2. copied = Nobody /\ copied' = Nobody
  BY <1>1 DEF OutInv, CopyInHand
<1>3. Waits = utterances /\ Waits' = utterances'
  BY <1>2, WaitsIsQueue, WaitsIsQueueNext
<1>4. Lined(q) /\ expired \subseteq Interims /\ Range(q) \subseteq asked BY DEF OutInv, QueueInLine
<1>5. Saying = Nobody /\ ~AgentPlayback /\ ~AgentPlayback'
  BY <1>1 DEF Saying, AgentPlayback
<1>6. f \in 0 .. Len(q) BY <1>4, FirstFreshIs
<1>7. CASE f = 0
  <2>1. utterances' = <<>> /\ loopAt' = "look" /\ playing' = playing
    BY <1>7 DEF LoopTakes, AfterFirst, LoopGoes
  <2>2. Saying' = Nobody BY <1>5, <2>1 DEF Saying
  <2>3. QueueInLine' /\ OneInHand' /\ CopyInHand'
    BY <1>1, <1>2, <2>1, <2>2, EmptyLined DEF OutInv, QueueInLine, OneInHand, CopyInHand
  <2>4. PICK gone \in SUBSET Interims : Keeping(q, Utterances \ gone) = <<>>
    BY <1>4, <1>7, NothingFresh
  <2>5. Outbox!Age
    BY <1>1, <1>3, <1>5, <2>1, <2>2, <2>4, OutboxAges
  <2> QED BY <2>3, <2>5
<1>8. CASE f # 0
  <2>1. /\ utterances' = SubSeq(q, f + 1, Len(q)) /\ loopAt' = "ask" /\ playing' = q[f]
    BY <1>8 DEF LoopTakes, AfterFirst, LoopGoes
  <2>2. Saying' = q[f] BY <2>1 DEF Saying
  <2>3. /\ Lined(utterances') /\ Range(utterances') \subseteq Range(q)
        /\ q[f] \in Range(q) /\ q[f] \notin Range(utterances')
    <3> DEFINE t == SubSeq(q, f + 1, Len(q))
    <3>1. f \in 1 .. Len(q) BY <1>6, <1>8
    <3>2. /\ Lined(t) /\ Range(t) \subseteq Range(q)
          /\ q[f] \in Range(q) /\ q[f] \notin Range(t)
      <4> HIDE DEF f
      <4> QED BY <1>4, <3>1, TakingLined
    <3> QED BY <2>1, <3>2
  <2>4. q[f] \in asked /\ q[f] \in Utterances
    BY <1>4, <2>3 DEF OutInv, QueueInLine
  <2> HIDE DEF f
  <2>5. QueueInLine' /\ OneInHand' /\ CopyInHand'
    BY <1>1, <1>2, <1>4, <2>1, <2>2, <2>3, <2>4, NobodyIsNobody
      DEF OutInv, QueueInLine, OneInHand, CopyInHand
  <2>6. PICK gone \in SUBSET Interims :
          LET rest == Keeping(q, Utterances \ gone) IN
          /\ rest # <<>> /\ Head(rest) = q[f] /\ Tail(rest) = SubSeq(q, f + 1, Len(q))
    BY <1>4, <1>8, TakingIs DEF f
  <2>7. Outbox!Say
    <3> DEFINE rest == Keeping(q, Utterances \ gone)
    <3>1. rest = Keeping(Waits, Utterances \ gone) /\ rest # <<>> BY <1>3, <2>6
    <3>2. Saying' = Head(rest) /\ Waits' = Tail(rest) BY <1>3, <2>1, <2>2, <2>6
    <3>3. Saying = Nobody /\ UNCHANGED <<said, asked>> BY <1>1, <1>5
    <3> HIDE DEF rest
    <3> QED BY <3>1, <3>2, <3>3, OutboxSays
  <2> QED BY <2>5, <2>7
<1> QED BY <1>7, <1>8

\* What is put back in front is in line.
LEMMA PuttingBackLined ==
  ASSUME NEW q, Lined(q), NEW u \in Utterances, u \notin Range(q)
  PROVE  Lined(PutBack(u, q)) /\ Range(PutBack(u, q)) \subseteq Range(q) \cup {u}
BY FrontLined DEF PutBack

\* A front that is put back, as the outbox sends it back.
LEMMA FrontSendsBack ==
  ASSUME NEW q, Lined(q), NEW u \in Utterances
  PROVE  \/ /\ u \notin Notices \/ ~HasNotice(q)
            /\ PutFront(u, q) = <<u>> \o q
         \/ \E i \in DOMAIN q : /\ u \in Notices /\ q[i] \in Notices
                                /\ PutFront(u, q) = <<q[i]>> \o RemoveAt(q, i)
<1>1. CASE u \in Notices /\ HasNotice(q)
  <2>1. NoticeAt(q) \in DOMAIN q /\ q[NoticeAt(q)] \in Notices
    BY <1>1, NoticeAtIs, LenProperties DEF Lined
  <2> QED BY <1>1, <2>1 DEF PutFront, IsNotice
<1>2. CASE ~(u \in Notices /\ HasNotice(q))
  BY <1>2 DEF PutFront, IsNotice
<1> QED BY <1>1, <1>2

\* The one in hand goes back in front, as PutFront or PutBack has it.
LEMMA HandSentBack ==
  ASSUME OutInv, Waits = utterances, Saying # Nobody, Saying' = Nobody,
         UNCHANGED <<said, asked>>,
         Waits' = PutFront(Saying, utterances) \/ Waits' = PutBack(Saying, utterances)
  PROVE  Outbox!SendBack
<1>1. Lined(utterances) /\ Saying \in Utterances
  BY SayingIsPlaying DEF OutInv, QueueInLine
<1>2. CASE Saying \in Interims /\ Waits' = utterances
  BY <1>2, OutboxSendsBack
<1>3. CASE Waits' = PutFront(Saying, utterances)
  <2> DEFINE u == Saying
             q == utterances
  <2>1. \/ /\ u \notin Notices \/ ~HasNotice(q)
           /\ Waits' = <<u>> \o q
        \/ \E i \in DOMAIN q : /\ u \in Notices /\ q[i] \in Notices
                               /\ Waits' = <<q[i]>> \o RemoveAt(q, i)
    BY <1>1, <1>3, FrontSendsBack
  <2> QED BY <2>1, OutboxSendsBack
<1> QED BY <1>1, <1>2, <1>3, NobodyIsNobody DEF PutBack

\* The read-aloud is refused, the daemon or the lock no longer being free.
LEMMA RefusalKeepsOut ==
  ASSUME OutInv, LoopRefused
  PROVE  QueueInLine' /\ OneInHand' /\ CopyInHand' /\ Outbox!SendBack
<1>1. /\ loopAt = "ask" /\ loopAt' = "wait" /\ playing' = Nobody
      /\ utterances' = PutFront(playing, utterances)
      /\ UNCHANGED <<said, asked, expired, copied, recorder, lock, press, dictation, voice>>
  BY DEF LoopRefused, LoopGoes, worldVars
<1>2. Saying = playing /\ Saying \in Utterances /\ ~AgentPlayback /\ copied = Nobody /\ Saying # Nobody
  BY <1>1, SayingIsPlaying, NobodyIsNobody
<1>3. Saying' = Nobody BY <1>1, <1>2 DEF Saying, AgentPlayback
<1>4. Waits = utterances /\ Waits' = utterances'
  BY <1>1, <1>2, WaitsIsQueue, WaitsIsQueueNext
<1>5. Lined(utterances') /\ Range(utterances') \subseteq Range(utterances) \cup {playing}
  <2>1. Lined(utterances) /\ playing \in Utterances /\ playing \notin Range(utterances)
    BY <1>2 DEF OutInv, QueueInLine, OneInHand
  <2> QED BY <1>1, <2>1, FrontLined
<1>6. playing \in asked BY <1>2, SayingIsPlaying
<1>7. QueueInLine' BY <1>1, <1>5, <1>6 DEF OutInv, QueueInLine
<1>8. OneInHand' /\ CopyInHand'
  <2>1. Nobody \notin Range(utterances')
    BY <1>1, <1>7, NobodyIsNobody DEF OutInv, QueueInLine
  <2> QED BY <1>1, <1>2, <1>3, <2>1 DEF OutInv, OneInHand, CopyInHand
<1>9. Outbox!SendBack
  BY <1>1, <1>2, <1>3, <1>4, HandSentBack
<1> QED BY <1>7, <1>8, <1>9

\* The dictation state changes, and no copy is touched.
LEMMA SilencingKeepsOut ==
  ASSUME OutInv, UNCHANGED <<utterances, playing, loopAt, said, asked, expired, copied, recorder>>,
         \/ UNCHANGED <<dictation, voice>>
         \/ Quiet("Idle") \/ Quiet("Busy")
         \/ dictation = "Idle" /\ voice' = "selection",
         copied # Nobody => lock' = lock,
         press' \in {"mic", "toggle"} => lock' = "mic"
  PROVE  /\ QueueInLine' /\ OneInHand' /\ CopyInHand'
         /\ Outbox!CutOff \/ OutboxStays
<1>1. Waits' = Waits BY DEF Waits
<1>2. Saying' = Saying \/ (Saying # Nobody /\ Saying' = Nobody)
  BY SayingIsPlaying, NobodyIsNobody DEF Saying, AgentPlayback, Quiet
<1>3. QueueInLine' /\ OneInHand' /\ CopyInHand'
  BY <1>2 DEF OutInv, QueueInLine, OneInHand, CopyInHand
<1>4. Outbox!CutOff \/ OutboxStays
  BY <1>1, <1>2, OutboxCuts DEF OutboxStays
<1> QED BY <1>3, <1>4

\* Presses, a selection read aloud, and the end of a dictation.
LEMMA UsersKeepOut ==
  ASSUME OutInv, Press \/ PressOpens \/ MicOpens \/ PressReadsAloud \/ PressEnds \/ BusyEnds
  PROVE  /\ QueueInLine' /\ OneInHand' /\ CopyInHand'
         /\ Outbox!CutOff \/ OutboxStays
<1>1. UNCHANGED <<utterances, playing, loopAt, said, asked, expired, copied, recorder>>
  BY DEF Press, PressOpens, MicOpens, PressReadsAloud, PressEnds, BusyEnds
<1>2. \/ UNCHANGED <<dictation, voice>>
      \/ Quiet("Idle") \/ Quiet("Busy")
      \/ dictation = "Idle" /\ voice' = "selection"
  BY DEF Press, PressOpens, MicOpens, PressReadsAloud, PressEnds, BusyEnds
<1>3. /\ copied # Nobody => lock' = lock
      /\ press' \in {"mic", "toggle"} => lock' = "mic"
  <2>1. CASE Press \/ PressOpens \/ PressReadsAloud \/ BusyEnds
    BY <2>1, SayingIsPlaying DEF Press, PressOpens, PressReadsAloud, BusyEnds, OutInv, CopyInHand
  <2>2. CASE MicOpens
    BY <2>2 DEF MicOpens, OutInv, CopyInHand
  <2>3. CASE PressEnds
    BY <2>3 DEF PressEnds, OutInv, CopyInHand
  <2> QED BY <2>1, <2>2, <2>3
<1> QED BY <1>1, <1>2, <1>3, SilencingKeepsOut

\* A playback ends by itself: an agent's was told to its end.
LEMMA EndingKeepsOut ==
  ASSUME OutInv, PlaybackEnds
  PROVE  /\ QueueInLine' /\ OneInHand' /\ CopyInHand'
         /\ Outbox!End \/ OutboxStays
<1>1. /\ UNCHANGED <<utterances, playing, loopAt, asked, expired, copied, recorder, lock, press>>
      /\ dictation = "Speaking" /\ dictation' = "Idle"
      /\ said' = said \cup ({voice} \cap Utterances)
  BY DEF PlaybackEnds, Quiet
<1>2. Waits' = Waits BY <1>1 DEF Waits
<1>3. ~AgentPlayback' BY <1>1 DEF AgentPlayback
<1>4. CASE AgentPlayback
  <2>1. /\ Saying = playing /\ Saying # Nobody /\ loopAt # "ask" /\ voice = playing
        /\ voice \in Utterances
    BY <1>4, SayingIsPlaying, NobodyIsNobody
  <2>2. Saying' = Nobody BY <1>1, <1>3, <2>1 DEF Saying
  <2>3. said' = said \cup {Saying} BY <1>1, <2>1
  <2>4. Outbox!End BY <1>1, <1>2, <2>1, <2>2, <2>3, OutboxEnds
  <2>5. QueueInLine' /\ OneInHand' /\ CopyInHand'
    BY <1>1, <2>2 DEF OutInv, QueueInLine, OneInHand, CopyInHand
  <2> QED BY <2>4, <2>5
<1>5. CASE ~AgentPlayback
  <2>1. Saying' = Saying BY <1>1, <1>3, <1>5 DEF Saying
  <2>2. voice \notin Utterances BY <1>1, <1>5 DEF AgentPlayback
  <2>3. said' = said BY <1>1, <2>2
  <2>4. OutboxStays BY <1>1, <1>2, <2>1, <2>3 DEF OutboxStays
  <2>5. QueueInLine' /\ OneInHand' /\ CopyInHand'
    BY <1>1, <2>1 DEF OutInv, QueueInLine, OneInHand, CopyInHand
  <2> QED BY <2>4, <2>5
<1> QED BY <1>4, <1>5

\* A cancel: with an agent's read-aloud all goes, else the interims.
LEMMA CancellingKeepsOut ==
  ASSUME OutInv, CancelReplies
  PROVE  /\ QueueInLine' /\ OneInHand' /\ CopyInHand'
         /\ Outbox!CutOff \/ Outbox!Age
<1>1. /\ lock = "free" /\ utterances' = CancelQueue(utterances)
      /\ UNCHANGED <<playing, loopAt, said, asked, expired, copied, recorder, lock, press>>
      /\ dictation' = "Idle"
  BY DEF CancelReplies, Quiet
<1>2. copied = Nobody /\ copied' = Nobody BY <1>1, SayingIsPlaying
<1>3. Waits = utterances /\ Waits' = utterances'
  BY <1>2, WaitsIsQueue, WaitsIsQueueNext
<1>4. ~AgentPlayback' BY <1>1 DEF AgentPlayback
<1>5. Lined(utterances) BY DEF OutInv, QueueInLine
<1>6. CASE AgentPlayback
  <2>1. Saying # Nobody /\ loopAt # "ask" BY <1>6, SayingIsPlaying, NobodyIsNobody
  <2>2. Saying' = Nobody BY <1>1, <1>4, <2>1 DEF Saying
  <2>3. utterances' = <<>> BY <1>1, <1>6 DEF CancelQueue
  <2>4. Outbox!CutOff BY <1>1, <1>3, <2>1, <2>2, <2>3, OutboxCuts
  <2>5. QueueInLine' /\ OneInHand' /\ CopyInHand'
    BY <1>1, <2>2, <2>3, EmptyLined DEF OutInv, QueueInLine, OneInHand, CopyInHand
  <2> QED BY <2>4, <2>5
<1>7. CASE ~AgentPlayback
  <2>1. Saying' = Saying BY <1>1, <1>4, <1>7 DEF Saying
  <2>2. utterances' = Keeping(utterances, Utterances \ Interims)
    BY <1>1, <1>7 DEF CancelQueue, WithoutInterims
  <2>3. Lined(utterances') /\ Range(utterances') \subseteq Range(utterances)
    BY <1>5, <2>2, KeepingLined
  <2>4. Outbox!Age
    <3>1. Interims \in SUBSET Interims OBVIOUS
    <3>2. Waits' = Keeping(Waits, Utterances \ Interims) BY <1>3, <2>2
    <3>3. UNCHANGED <<Saying, said, asked>> BY <1>1, <2>1
    <3> QED BY <3>1, <3>2, <3>3, OutboxAges
  <2>5. QueueInLine' /\ OneInHand' /\ CopyInHand'
    BY <1>1, <2>1, <2>3 DEF OutInv, QueueInLine, OneInHand, CopyInHand
  <2> QED BY <2>4, <2>5
<1> QED BY <1>6, <1>7
-----------------------------------------------------------------------------
\* The start of a recording copies what it stops; it waits at the front.
LEMMA RecordingKeepsOut ==
  ASSUME OutInv, RecorderStarts
  PROVE  /\ QueueInLine' /\ OneInHand' /\ CopyInHand'
         /\ Outbox!SendBack \/ OutboxStays
<1>1. /\ UNCHANGED <<utterances, playing, loopAt, said, asked, expired, press>>
      /\ recorder = "none"
      /\ recorder' = IF copied' # Nobody THEN "putBack" ELSE "opening"
      /\ lock' = IF copied' # Nobody THEN "recorder" ELSE lock
  BY DEF RecorderStarts, RecorderIdle
<1>2. copied = Nobody BY <1>1 DEF OutInv, CopyInHand
<1>3. Waits = utterances BY <1>2, WaitsIsQueue
<1>4. CASE playing # Nobody /\ AgentPlayback
  <2>1. lock = "free" /\ copied' = playing /\ dictation' = "Idle"
    BY <1>4 DEF RecorderStarts, StopAgent, Quiet
  <2>2. Saying = playing /\ Saying # Nobody /\ loopAt # "ask" /\ playing \in asked
    BY <1>4, SayingIsPlaying, NobodyIsNobody
  <2>3. Saying' = Nobody BY <1>1, <2>1, <2>2 DEF Saying, AgentPlayback
  <2>4. Waits' = PutBack(Saying, utterances) BY <1>1, <2>1, <2>2 DEF Waits
  <2>5. Outbox!SendBack BY <1>1, <1>3, <2>2, <2>3, <2>4, HandSentBack
  <2>6. press \notin {"mic", "toggle"} BY <2>1 DEF OutInv, CopyInHand
  <2>7. QueueInLine' /\ OneInHand' /\ CopyInHand'
    BY <1>1, <2>1, <2>2, <2>3, <2>6 DEF OutInv, QueueInLine, OneInHand, CopyInHand
  <2> QED BY <2>5, <2>7
<1>5. CASE ~(playing # Nobody /\ AgentPlayback)
  <2>1. UNCHANGED <<copied, dictation, voice>>
    BY <1>5 DEF RecorderStarts, StopAgent
  <2>2. Saying' = Saying BY <1>1, <2>1 DEF Saying, AgentPlayback
  <2>3. Waits' = Waits BY <1>1, <2>1 DEF Waits
  <2>4. OutboxStays BY <1>1, <2>2, <2>3 DEF OutboxStays
  <2>5. QueueInLine' /\ OneInHand' /\ CopyInHand'
    BY <1>1, <1>2, <2>1, <2>2 DEF OutInv, QueueInLine, OneInHand, CopyInHand
  <2> QED BY <2>4, <2>5
<1> QED BY <1>4, <1>5

\* What was copied is put back: it waited there all along.
LEMMA CopyKeepsOut ==
  ASSUME OutInv, RecorderPutsBack
  PROVE  QueueInLine' /\ OneInHand' /\ CopyInHand' /\ OutboxStays
<1>1. /\ UNCHANGED <<playing, loopAt, said, asked, expired, press, dictation, voice>>
      /\ recorder = "putBack" /\ recorder' = "opening"
      /\ utterances' = PutBack(copied, utterances) /\ copied' = Nobody
  BY DEF RecorderPutsBack
<1>2. /\ copied # Nobody /\ copied \in asked /\ copied \in Utterances
      /\ copied \notin Range(utterances) /\ Lined(utterances) /\ Saying = Nobody
      /\ press \notin {"mic", "toggle"}
  BY <1>1 DEF OutInv, CopyInHand, QueueInLine
<1>3. Lined(utterances') /\ Range(utterances') \subseteq Range(utterances) \cup {copied}
  BY <1>1, <1>2, PuttingBackLined
<1>4. Waits' = Waits BY <1>1, WaitsIsQueueNext DEF Waits
<1>5. Saying' = Saying BY <1>1 DEF Saying, AgentPlayback
<1>6. OutboxStays BY <1>1, <1>4, <1>5 DEF OutboxStays
<1>7. QueueInLine' BY <1>1, <1>2, <1>3 DEF OutInv, QueueInLine
<1>8. Nobody \notin Range(utterances')
  BY <1>1, <1>7, NobodyIsNobody DEF QueueInLine, OutInv
<1>9. OneInHand' /\ CopyInHand'
  BY <1>1, <1>2, <1>5, <1>8 DEF OutInv, OneInHand, CopyInHand
<1> QED BY <1>6, <1>7, <1>9

\* The steps of a recording that touch no utterance.
LEMMA DevicesKeepOut ==
  ASSUME OutInv, RecorderSpawnsStop \/ RecorderOpens \/ RecorderFails \/ RecorderStops
  PROVE  QueueInLine' /\ OneInHand' /\ CopyInHand' /\ OutboxStays
<1>1. /\ UNCHANGED <<utterances, playing, loopAt, said, asked, expired, press, lock, copied,
                     dictation, voice>>
      /\ (recorder # "putBack" /\ recorder' # "putBack") \/ UNCHANGED recorder
  BY DEF RecorderSpawnsStop, RecorderOpens, RecorderFails, RecorderStops, queueVars, RecorderIdle
<1>2. Waits' = Waits BY <1>1 DEF Waits
<1>3. Saying' = Saying BY <1>1 DEF Saying, AgentPlayback
<1>4. OutboxStays BY <1>1, <1>2, <1>3 DEF OutboxStays
<1>5. QueueInLine' /\ OneInHand' /\ CopyInHand'
  BY <1>1, <1>3 DEF OutInv, QueueInLine, OneInHand, CopyInHand
<1> QED BY <1>4, <1>5

\* The stop a start spawned puts back what it stopped, in one step.
LEMMA LateStopKeepsOut ==
  ASSUME OutInv, LateStop
  PROVE  /\ QueueInLine' /\ OneInHand' /\ CopyInHand'
         /\ Outbox!SendBack \/ OutboxStays
<1>1. /\ UNCHANGED <<playing, loopAt, said, asked, expired, lock, press, recorder, copied>>
      /\ lock = "free"
  BY DEF LateStop
<1>2. copied = Nobody BY <1>1, SayingIsPlaying
<1>3. Waits = utterances /\ Waits' = utterances'
  BY <1>1, <1>2, WaitsIsQueue, WaitsIsQueueNext
<1>4. CASE RepliesHeld /\ AgentPlayback
  <2>1. utterances' = PutBack(playing, utterances) /\ dictation' = "Idle"
    BY <1>4 DEF LateStop, Quiet
  <2>2. Saying = playing /\ Saying # Nobody /\ loopAt # "ask" /\ playing \in asked
    BY <1>4, SayingIsPlaying, NobodyIsNobody
  <2>3. Saying' = Nobody BY <1>1, <2>1, <2>2 DEF Saying, AgentPlayback
  <2>4. Outbox!SendBack BY <1>1, <1>3, <2>1, <2>2, <2>3, HandSentBack
  <2>5. Lined(utterances) /\ playing \in Utterances /\ playing \notin Range(utterances)
    BY <2>2 DEF OutInv, QueueInLine, OneInHand
  <2>6. Lined(utterances') /\ Range(utterances') \subseteq Range(utterances) \cup {playing}
    BY <2>1, <2>5, PuttingBackLined
  <2>7. QueueInLine' BY <1>1, <2>2, <2>6 DEF OutInv, QueueInLine
  <2>8. Nobody \notin Range(utterances')
    BY <1>1, <2>7, NobodyIsNobody DEF QueueInLine, OutInv
  <2>9. OneInHand' /\ CopyInHand'
    BY <1>1, <1>2, <2>3, <2>8 DEF OutInv, OneInHand, CopyInHand
  <2> QED BY <2>4, <2>7, <2>9
<1>5. CASE ~(RepliesHeld /\ AgentPlayback)
  <2>1. UNCHANGED <<dictation, voice, utterances>> BY <1>5 DEF LateStop
  <2>2. Saying' = Saying BY <1>1, <2>1 DEF Saying, AgentPlayback
  <2>3. OutboxStays BY <1>1, <1>3, <2>1, <2>2 DEF OutboxStays
  <2>4. QueueInLine' /\ OneInHand' /\ CopyInHand'
    BY <1>1, <2>1, <2>2 DEF OutInv, QueueInLine, OneInHand, CopyInHand
  <2> QED BY <2>3, <2>4
<1> QED BY <1>4, <1>5

\* enqueue keeps the queue in line.
LEMMA EnqueuingLined ==
  ASSUME NEW q, Lined(q), NEW u \in Utterances, u \notin Range(q), Enqueued(u, q)
  PROVE  Lined(utterances') /\ Range(utterances') \subseteq Range(q) \cup {u}
<1>1. CASE IsNotice(u) /\ HasNotice(q)
  <2>1. utterances' = ReplaceAt(q, NoticeAt(q), u) BY <1>1 DEF Enqueued
  <2>2. u \in Notices BY <1>1 DEF IsNotice
  <2> QED BY <1>1, <2>1, <2>2, ReplacingLined
<1>2. CASE ~(IsNotice(u) /\ HasNotice(q))
  <2>1. utterances' = q \/ utterances' = Append(q, u) BY <1>2 DEF Enqueued
  <2>2. u \notin Notices \/ Range(q) \cap Notices = {} BY <1>2 DEF IsNotice, HasNotice
  <2>3. Lined(Append(q, u)) /\ Range(Append(q, u)) = Range(q) \cup {u}
    BY <2>2, JoiningLined
  <2> QED BY <2>1, <2>3
<1> QED BY <1>1, <1>2

\* A queue in line holds nothing but utterances.
LEMMA AllKept ==
  ASSUME NEW q, Lined(q) PROVE Keeping(q, Utterances) = q
<1>1. q \in Seq(Utterances) /\ Range(q) \subseteq Utterances
  BY RangeOfSeq DEF Lined
<1> QED BY <1>1, KeepingAll

\* What the agents have to say joins the queue, and the queue stays in line.
LEMMA AskingKeepsOut ==
  ASSUME OutInv, NEW u \in Utterances, NEW q, AskWith(u, q),
         Lined(q), Range(q) \subseteq Range(utterances)
  PROVE  QueueInLine' /\ OneInHand' /\ CopyInHand'
<1>1. /\ UNCHANGED <<playing, loopAt, said, expired, copied, press, lock, recorder, dictation, voice>>
      /\ u \notin asked /\ asked' = asked \cup {u}
  BY DEF AskWith, worldVars
<1>2. Saying' = Saying BY <1>1 DEF Saying, AgentPlayback
<1>3. u \notin Range(q) BY <1>1 DEF OutInv, QueueInLine
<1>4. Lined(utterances') /\ Range(utterances') \subseteq Range(utterances) \cup {u}
  <2>1. Enqueued(u, q) BY DEF AskWith
  <2> QED BY <1>3, <2>1, EnqueuingLined
<1>5. QueueInLine' BY <1>1, <1>4 DEF OutInv, QueueInLine
<1>6. Saying # Nobody => Saying \in asked BY SayingIsPlaying
<1>7. u # Nobody BY NobodyIsNobody
<1>8. OneInHand' BY <1>1, <1>2, <1>4, <1>6 DEF OutInv, OneInHand
<1>9. CopyInHand' BY <1>1, <1>2, <1>4, <1>7 DEF OutInv, CopyInHand
<1> QED BY <1>5, <1>8, <1>9

\* Beside an empty hand, or an interim that a stop copied and drops, the
\* queue is what waits.
LEMMA AskingTheQueue ==
  ASSUME OutInv, NEW u \in Utterances, NEW q, AskWith(u, q),
         \/ u \notin Replies /\ q = utterances
         \/ u \in Replies /\ q = WithoutInterims(utterances),
         copied \in Interims \cup {Nobody}
  PROVE  Outbox!Ask
<1>1. /\ UNCHANGED <<playing, loopAt, said, copied, dictation, voice>>
      /\ u \notin asked /\ asked' = asked \cup {u} /\ Enqueued(u, q)
  BY DEF AskWith, worldVars
<1>2. UNCHANGED <<Saying, said>> BY <1>1 DEF Saying, AgentPlayback
<1>3. Waits = utterances /\ Waits' = utterances'
  BY <1>1, WaitsIsQueue, WaitsIsQueueNext
<1>4. Lined(utterances) BY DEF OutInv, QueueInLine
<1>5. CASE u \in Replies
  <2>1. q = Keeping(Waits, Utterances \ Interims)
    BY <1>3, <1>5 DEF WithoutInterims
  <2>2. utterances' = Append(q, u)
    BY <1>1, <1>5, KindsDiffer DEF Enqueued, IsNotice
  <2> QED BY <1>1, <1>2, <1>3, <1>5, <2>1, <2>2, OutboxAsks
<1>6. CASE u \notin Replies /\ IsNotice(u) /\ HasNotice(q)
  <2>1. Waits' = ReplaceAt(Waits, NoticeAt(Waits), u)
    BY <1>1, <1>3, <1>6 DEF Enqueued
  <2>2. HasNotice(Waits) /\ u \in Notices BY <1>3, <1>6 DEF IsNotice
  <2>3. NoticeAt(Waits) \in DOMAIN Waits /\ Waits[NoticeAt(Waits)] \in Notices
    BY <1>3, <1>4, <2>2, NoticeAtIs, LenProperties DEF Lined
  <2> QED BY <1>1, <1>2, <2>1, <2>2, <2>3, OutboxAsks
<1>7. CASE u \notin Replies /\ ~(IsNotice(u) /\ HasNotice(q)) /\ utterances' = Append(q, u)
  <2>1. Waits' = Append(Keeping(Waits, Utterances), u) BY <1>3, <1>4, <1>7, AllKept
  <2> QED BY <1>1, <1>2, <1>7, <2>1, OutboxAsks
<1>8. CASE u \notin Replies /\ ~(IsNotice(u) /\ HasNotice(q)) /\ utterances' # Append(q, u)
  <2>1. utterances' = q /\ IsNotice(playing) /\ SameText(u, playing)
    BY <1>1, <1>8 DEF Enqueued
  <2>2. playing \in asked
    BY <2>1, NobodyIsNobody DEF OutInv, OneInHand, IsNotice, Utterances
  <2>3. {u, playing} \subseteq Repeats BY <1>1, <2>1, <2>2 DEF SameText
  <2>4. Waits' = Waits BY <1>3, <1>8, <2>1
  <2> QED BY <1>1, <1>2, <2>2, <2>3, <2>4, OutboxAsks
<1> QED BY <1>5, <1>6, <1>7, <1>8

\* A reply that joins while a stop has something else in hand.
LEMMA ReplyingBehindTheCopy ==
  ASSUME OutInv, NEW u \in Replies, AskWith(u, WithoutInterims(utterances)),
         copied \in Utterances \ Interims
  PROVE  Outbox!Ask
<1> DEFINE k == Keeping(utterances, Utterances \ Interims)
<1>1. /\ UNCHANGED <<playing, loopAt, said, copied, dictation, voice>>
      /\ u \notin asked /\ asked' = asked \cup {u} /\ Enqueued(u, k)
      /\ u \in Utterances
  BY DEF AskWith, worldVars, WithoutInterims, Utterances
<1>2. UNCHANGED <<Saying, said>> BY <1>1 DEF Saying, AgentPlayback
<1>3. Lined(utterances) /\ u \notin Range(utterances) /\ copied \notin Range(utterances)
  BY <1>1 DEF OutInv, QueueInLine, CopyInHand
<1>4. Lined(k) /\ u \notin Range(k) /\ copied \notin Range(k) BY <1>3, KeepingLined
<1>5. u \notin Notices BY KindsDiffer
<1>6. Waits = PutFront(copied, utterances) /\ Waits' = PutFront(copied, utterances')
  BY <1>1, NobodyIsNobody DEF Waits, PutBack
<1>7. utterances' = Append(k, u)
  BY <1>1, <1>5 DEF Enqueued, IsNotice
<1>8. PutFront(copied, k) = Keeping(Waits, Utterances \ Interims)
  BY <1>3, <1>6, FrontOfKept
<1> HIDE DEF k
<1>9. PutFront(copied, Append(k, u)) = Append(PutFront(copied, k), u)
  BY <1>1, <1>4, <1>5, FrontOfAppended
<1>10. Waits' = Append(Keeping(Waits, Utterances \ Interims), u)
  BY <1>6, <1>7, <1>8, <1>9
<1> QED BY <1>1, <1>2, <1>10, OutboxAsks

\* An interim or a notice that joins then.
LEMMA JoiningBehindTheCopy ==
  ASSUME OutInv, NEW u \in Utterances \ Replies, AskWith(u, utterances),
         copied \in Utterances \ Interims
  PROVE  Outbox!Ask
<1> DEFINE q == utterances
<1>1. /\ UNCHANGED <<playing, loopAt, said, copied, dictation, voice>>
      /\ u \notin asked /\ asked' = asked \cup {u} /\ Enqueued(u, q)
  BY DEF AskWith, worldVars
<1>2. UNCHANGED <<Saying, said>> BY <1>1 DEF Saying, AgentPlayback
<1>3. Lined(q) /\ u \notin Range(q) /\ copied \notin Range(q)
  BY <1>1 DEF OutInv, QueueInLine, CopyInHand
<1>4. Waits = PutFront(copied, q) /\ Waits' = PutFront(copied, utterances')
  BY <1>1, NobodyIsNobody DEF Waits, PutBack
<1>5. Lined(Waits) BY <1>3, <1>4, FrontLined
<1>6. Waits \in Seq(Utterances) /\ DOMAIN Waits = 1 .. Len(Waits)
  BY <1>5, LenProperties DEF Lined
<1>7. CASE IsNotice(u) /\ HasNotice(q)
  <2>1. utterances' = ReplaceAt(q, NoticeAt(q), u) /\ u \in Notices
    BY <1>1, <1>7 DEF Enqueued, IsNotice
  <2>2. \E i \in 1 .. Len(Waits) : Waits[i] \in Notices /\ Waits' = ReplaceAt(Waits, i, u)
    <3>1. \E i \in 1 .. Len(PutFront(copied, q)) :
            /\ PutFront(copied, q)[i] \in Notices
            /\ PutFront(copied, ReplaceAt(q, NoticeAt(q), u)) = ReplaceAt(PutFront(copied, q), i, u)
      BY <1>3, <1>7, <2>1, FrontOfReplaced
    <3> QED BY <1>4, <2>1, <3>1
  <2> QED BY <1>1, <1>2, <1>6, <2>1, <2>2, OutboxAsks
<1>8. CASE ~(IsNotice(u) /\ HasNotice(q)) /\ utterances' # Append(q, u)
  <2>1. utterances' = q /\ IsNotice(playing) /\ SameText(u, playing)
    BY <1>1, <1>8 DEF Enqueued
  <2>2. playing \in asked
    BY <2>1, NobodyIsNobody DEF OutInv, OneInHand, IsNotice, Utterances
  <2>3. {u, playing} \subseteq Repeats BY <1>1, <2>1, <2>2 DEF SameText
  <2>4. Waits' = Waits BY <1>4, <2>1
  <2> QED BY <1>1, <1>2, <2>2, <2>3, <2>4, OutboxAsks
<1>9. CASE ~(IsNotice(u) /\ HasNotice(q)) /\ utterances' = Append(q, u) /\ ~(copied \in Notices /\ IsNotice(u))
  <2>1. PutFront(copied, Append(q, u)) = Append(PutFront(copied, q), u)
    BY <1>3, <1>9, FrontOfAppended DEF IsNotice
  <2>2. Waits' = Append(Keeping(Waits, Utterances), u) BY <1>4, <1>5, <1>9, <2>1, AllKept
  <2> QED BY <1>1, <1>2, <2>2, OutboxAsks
<1>10. CASE ~HasNotice(q) /\ utterances' = Append(q, u) /\ copied \in Notices /\ IsNotice(u)
  <2>1. Waits' = ReplaceAt(Waits, 1, u) /\ u \in Notices
    <3>1. u \in Notices BY <1>10 DEF IsNotice
    <3>2. PutFront(copied, Append(q, u)) = ReplaceAt(PutFront(copied, q), 1, u)
      BY <1>3, <1>10, <3>1, FrontOfNewer
    <3> QED BY <1>4, <1>10, <3>1, <3>2
  <2>2. 1 \in DOMAIN Waits /\ Waits[1] \in Notices
    <3>1. Waits = <<copied>> \o q BY <1>4, <1>10 DEF PutFront
    <3>2. /\ Len(<<copied>> \o q) = Len(q) + 1 /\ Len(q) \in Nat
          /\ \A i \in 1 .. Len(q) + 1 : (<<copied>> \o q)[i] = IF i = 1 THEN copied ELSE q[i - 1]
      BY <1>3, RangeOfPrefixed, LenProperties DEF Lined
    <3> HIDE DEF q
    <3>3. 1 \in 1 .. Len(q) + 1 BY <3>2
    <3> QED BY <1>6, <1>10, <3>1, <3>2, <3>3
  <2> QED BY <1>1, <1>2, <2>1, <2>2, OutboxAsks
<1> QED BY <1>7, <1>8, <1>9, <1>10

\* Every utterance the agents have joins the outbox.
LEMMA AgentsKeepOut ==
  ASSUME OutInv, SayInterim \/ SayNotice \/ DeliverReply
  PROVE  QueueInLine' /\ OneInHand' /\ CopyInHand' /\ Outbox!Ask
<1>1. Lined(utterances) BY DEF OutInv, QueueInLine
<1>2. copied \in Interims \cup {Nobody} \/ copied \in Utterances \ Interims
  BY DEF OutInv, CopyInHand, QueueInLine
<1>3. CASE SayInterim \/ SayNotice
  <2>1. PICK u \in Utterances \ Replies : AskWith(u, utterances)
    BY <1>3, KindsDiffer DEF SayInterim, SayNotice, Utterances
  <2> QED BY <1>1, <1>2, <2>1, AskingKeepsOut, AskingTheQueue, JoiningBehindTheCopy
<1>4. CASE DeliverReply
  <2>1. PICK u \in Replies : AskWith(u, WithoutInterims(utterances))
    BY <1>4 DEF DeliverReply
  <2>2. u \in Utterances BY DEF Utterances
  <2>3. Lined(WithoutInterims(utterances))
        /\ Range(WithoutInterims(utterances)) \subseteq Range(utterances)
    BY <1>1, KeepingLined DEF WithoutInterims
  <2> QED BY <1>2, <2>1, <2>2, <2>3, AskingKeepsOut, AskingTheQueue, ReplyingBehindTheCopy
<1> QED BY <1>3, <1>4

\* An interim that expires still waits, until the loop comes to it.
LEMMA ExpiringKeepsOut ==
  ASSUME OutInv, Expire
  PROVE  QueueInLine' /\ OneInHand' /\ CopyInHand' /\ OutboxStays
<1>1. /\ UNCHANGED <<utterances, playing, loopAt, said, asked, copied, press, lock, recorder,
                     dictation, voice>>
      /\ expired' \subseteq expired \cup Interims
  BY DEF Expire, worldVars
<1>2. Waits' = Waits BY <1>1 DEF Waits
<1>3. Saying' = Saying BY <1>1 DEF Saying, AgentPlayback
<1> QED BY <1>1, <1>2, <1>3 DEF OutInv, QueueInLine, OneInHand, CopyInHand, OutboxStays
-----------------------------------------------------------------------------
\* Every step of the queue is a step of the outbox, or none.
LEMMA StepsKeepOut ==
  ASSUME OutInv, [RepliesNext]_replyVars
  PROVE  /\ QueueInLine' /\ OneInHand' /\ CopyInHand'
         /\ Outbox!Next \/ UNCHANGED Outbox!outboxVars
<1>1. CASE UNCHANGED replyVars
  <2>1. Waits' = Waits BY <1>1 DEF Waits, replyVars, queueVars, worldVars
  <2>2. Saying' = Saying BY <1>1 DEF Saying, AgentPlayback, replyVars, queueVars, worldVars
  <2>3. QueueInLine' /\ OneInHand' /\ CopyInHand'
    BY <1>1, <2>2 DEF OutInv, QueueInLine, OneInHand, CopyInHand, replyVars, queueVars, worldVars
  <2>4. OutboxStays
    BY <1>1, <2>1, <2>2 DEF OutboxStays, replyVars, queueVars
  <2> QED BY <2>3, <2>4, OutboxStutters
<1>2. CASE SayInterim \/ SayNotice \/ DeliverReply
  BY <1>2, AgentsKeepOut DEF Outbox!Next
<1>3. CASE Expire
  BY <1>3, ExpiringKeepsOut, OutboxStutters
<1>4. CASE LoopTurns
  BY <1>4, LoopTurnsKeepOut, OutboxStutters DEF Outbox!Next
<1>5. CASE LoopTakes
  BY <1>5, TakingKeepsOut DEF Outbox!Next
<1>6. CASE LoopRefused
  BY <1>6, RefusalKeepsOut DEF Outbox!Next
<1>7. CASE PlaybackEnds
  BY <1>7, EndingKeepsOut, OutboxStutters DEF Outbox!Next
<1>8. CASE Press \/ PressOpens \/ MicOpens \/ PressReadsAloud \/ PressEnds \/ BusyEnds
  BY <1>8, UsersKeepOut, OutboxStutters DEF Outbox!Next
<1>9. CASE CancelReplies
  BY <1>9, CancellingKeepsOut DEF Outbox!Next
<1>10. CASE RecorderStarts
  BY <1>10, RecordingKeepsOut, OutboxStutters DEF Outbox!Next
<1>11. CASE RecorderPutsBack
  BY <1>11, CopyKeepsOut, OutboxStutters
<1>12. CASE RecorderSpawnsStop \/ RecorderOpens \/ RecorderFails \/ RecorderStops
  BY <1>12, DevicesKeepOut, OutboxStutters
<1>13. CASE LateStop
  BY <1>13, LateStopKeepsOut, OutboxStutters DEF Outbox!Next
<1> QED
  BY <1>1, <1>2, <1>3, <1>4, <1>5, <1>6, <1>7, <1>8, <1>9, <1>10, <1>11, <1>12, <1>13
    DEF RepliesNext, LoopTurns

\* The queue starts in line, and empty.
LEMMA StartsInLine ==
  ASSUME RepliesInit
  PROVE  QueueInLine /\ OneInHand /\ CopyInHand /\ Outbox!Init
<1>1. Range(utterances) = {} /\ Lined(utterances) BY EmptyLined DEF RepliesInit
<1>2. Saying = Nobody BY DEF RepliesInit, Saying, AgentPlayback
<1>3. Waits = <<>> BY WaitsIsQueue DEF RepliesInit
<1>4. Outbox!Init BY <1>2, <1>3 DEF Outbox!Init, RepliesInit, Waits, Saying
<1> QED BY <1>1, <1>2, <1>4 DEF RepliesInit, QueueInLine, OneInHand, CopyInHand

\* The queue is in line, and the loop has in hand what it is about to speak: the
\* invariant under which every step of the reply queue is one of the outbox.
THEOREM OutInvariant == RepliesSpec => []OutInv
<1>1. RepliesInit => QueueInLine /\ OneInHand /\ CopyInHand BY StartsInLine
<1>2. QuietInv /\ QueueInLine /\ OneInHand /\ CopyInHand /\ [RepliesNext]_replyVars
        => QueueInLine' /\ OneInHand' /\ CopyInHand'
  BY StepsKeepOut DEF OutInv
<1>3. OutInv <=> QuietInv /\ QueueInLine /\ OneInHand /\ CopyInHand BY DEF OutInv
<1> QED BY <1>1, <1>2, <1>3, QuietInvariant, PTL DEF RepliesSpec

\* The reply queue implements the outbox: each of its steps is one of the outbox
\* or none.  What agents ask to be said is said once, in order, and lost only when a
\* user cuts it off, it aged or an earlier notice says it (enqueue, utterance_loop,
\* requeue_if_stopped).
THEOREM QueueKeepsTheOutbox == RepliesSpec => KeepsTheOutbox
<1>1. RepliesInit => Outbox!Init BY StartsInLine
<1>2. OutInv /\ [RepliesNext]_replyVars => [Outbox!Next]_Outbox!outboxVars
  BY StepsKeepOut
<1> QED BY <1>1, <1>2, OutInvariant, PTL DEF RepliesSpec, KeepsTheOutbox, Outbox!Spec
-----------------------------------------------------------------------------
(* The types of the reply queue: RepliesTyped.                             *)
\* What RepliesTyped says beside OutInv, in parts that each prover can do: the
\* flags, the places, and what is said.
FlagsTyped ==
  /\ ready \in BOOLEAN /\ stateNews \in BOOLEAN /\ statusNews \in BOOLEAN
  /\ capturing \in BOOLEAN
PlacesTyped ==
  /\ loopAt \in {"look", "asleep", "wait", "ask", "speak", "drain"}
  /\ dictation \in {"Idle", "Speaking", "Busy"}
  /\ lock \in {"free", "mic", "recorder"}
  /\ press \in {"none", "gap", "mic", "toggle", "aloud"}
  /\ recorder \in {"none", "putBack", "opening"}
  /\ late \in {"none", "waiting"}
VoiceTyped ==
  /\ voice \in Utterances \cup {"selection", Nobody}
  /\ said \subseteq Utterances

\* Every step leaves the flags flags.
LEMMA FlagsStay == ASSUME FlagsTyped, [RepliesNext]_replyVars PROVE FlagsTyped'
<1> USE DEF FlagsTyped, Quiet
<1>0. CASE UNCHANGED replyVars BY Zenon, <1>0 DEF replyVars, queueVars, worldVars
<1>1. ASSUME NEW u, NEW q, AskWith(u, q) PROVE FlagsTyped'
  BY Zenon, <1>1 DEF AskWith, Enqueued, worldVars
<1>2. CASE SayInterim \/ SayNotice \/ DeliverReply
  BY Zenon, <1>1, <1>2 DEF SayInterim, SayNotice, DeliverReply
<1>3. CASE Expire BY Zenon, <1>3 DEF Expire, worldVars
<1>4. CASE LoopRests \/ LoopTakes \/ LoopHasNoVoice \/ LoopStarts \/ LoopRefused
  BY Zenon, <1>4 DEF LoopRests, LoopTakes, LoopHasNoVoice, LoopStarts, LoopRefused, worldVars
<1>5. CASE LoopSpeaks \/ LoopFails \/ LoopDrained
  BY Zenon, <1>5 DEF LoopSpeaks, LoopFails, LoopDrained, worldVars
<1>6. CASE LoopWakes BY Zenon, <1>6 DEF LoopWakes, worldVars
<1>7. CASE PlaybackEnds \/ Press \/ PressOpens \/ MicOpens
  BY Zenon, <1>7 DEF PlaybackEnds, Press, PressOpens, MicOpens
<1>8. CASE PressReadsAloud \/ PressEnds \/ BusyEnds \/ CancelReplies
  BY Zenon, <1>8 DEF PressReadsAloud, PressEnds, BusyEnds, CancelReplies
<1>9. CASE RecorderStarts BY Zenon, <1>9 DEF RecorderStarts, StopAgent
<1>10. CASE RecorderSpawnsStop BY Zenon, <1>10 DEF RecorderSpawnsStop, queueVars
<1>11. CASE RecorderPutsBack \/ RecorderOpens \/ RecorderFails \/ RecorderStops
  BY Zenon, <1>11 DEF RecorderPutsBack, RecorderOpens, RecorderFails, RecorderStops
<1>12. CASE LateStop BY Zenon, <1>12 DEF LateStop
<1> QED
  BY Zenon, <1>0, <1>2, <1>3, <1>4, <1>5, <1>6, <1>7, <1>8, <1>9, <1>10, <1>11, <1>12
     DEF RepliesNext

\* The loop, the daemon, the lock and the recorder stay at places they have.
LEMMA PlacesStay == ASSUME PlacesTyped, [RepliesNext]_replyVars PROVE PlacesTyped'
<1> USE DEF PlacesTyped, Quiet, LoopGoes
<1>0. CASE UNCHANGED replyVars BY <1>0 DEF replyVars, queueVars, worldVars
<1>1. ASSUME NEW u, NEW q, AskWith(u, q) PROVE PlacesTyped'
  BY <1>1 DEF AskWith, worldVars
<1>2. CASE SayInterim \/ SayNotice \/ DeliverReply
  BY Zenon, <1>1, <1>2 DEF SayInterim, SayNotice, DeliverReply
<1>3. CASE Expire BY <1>3 DEF Expire, worldVars
<1>4. CASE LoopRests \/ LoopTakes \/ LoopHasNoVoice \/ LoopStarts \/ LoopRefused
  BY <1>4 DEF LoopRests, LoopTakes, LoopHasNoVoice, LoopStarts, LoopRefused, worldVars
<1>5. CASE LoopSpeaks \/ LoopFails \/ LoopDrained
  BY <1>5 DEF LoopSpeaks, LoopFails, LoopDrained, worldVars
<1>6. CASE LoopWakes BY <1>6 DEF LoopWakes, worldVars
<1>7. CASE PlaybackEnds \/ Press \/ PressOpens \/ MicOpens
  BY <1>7 DEF PlaybackEnds, Press, PressOpens, MicOpens
<1>8. CASE PressReadsAloud \/ PressEnds \/ BusyEnds \/ CancelReplies
  BY <1>8 DEF PressReadsAloud, PressEnds, BusyEnds, CancelReplies
<1>9. CASE RecorderStarts BY <1>9 DEF RecorderStarts, StopAgent
<1>10. CASE RecorderSpawnsStop BY <1>10 DEF RecorderSpawnsStop, queueVars
<1>11. CASE RecorderPutsBack \/ RecorderOpens \/ RecorderFails \/ RecorderStops
  BY <1>11 DEF RecorderPutsBack, RecorderOpens, RecorderFails, RecorderStops
<1>12. CASE LateStop BY <1>12 DEF LateStop
<1> QED
  BY Zenon, <1>0, <1>2, <1>3, <1>4, <1>5, <1>6, <1>7, <1>8, <1>9, <1>10, <1>11, <1>12
     DEF RepliesNext

\* What is spoken is an utterance that was in hand, or a selection.
LEMMA VoiceStays ==
  ASSUME VoiceTyped, playing \in Utterances \cup {Nobody}, [RepliesNext]_replyVars
  PROVE  VoiceTyped'
<1> USE DEF VoiceTyped, Quiet
<1>0. CASE UNCHANGED replyVars BY <1>0 DEF replyVars, queueVars, worldVars
<1>1. ASSUME NEW u, NEW q, AskWith(u, q) PROVE VoiceTyped'
  BY <1>1 DEF AskWith, worldVars
<1>2. CASE SayInterim \/ SayNotice \/ DeliverReply
  BY Zenon, <1>1, <1>2 DEF SayInterim, SayNotice, DeliverReply
<1>3. CASE Expire BY <1>3 DEF Expire, worldVars
<1>4. CASE LoopRests \/ LoopTakes \/ LoopHasNoVoice \/ LoopStarts \/ LoopRefused
  BY <1>4 DEF LoopRests, LoopTakes, LoopHasNoVoice, LoopStarts, LoopRefused, worldVars
<1>5. CASE LoopSpeaks \/ LoopFails \/ LoopDrained
  BY <1>5 DEF LoopSpeaks, LoopFails, LoopDrained, worldVars
<1>6. CASE LoopWakes BY <1>6 DEF LoopWakes, worldVars
<1>7. CASE PlaybackEnds \/ Press \/ PressOpens \/ MicOpens
  BY <1>7 DEF PlaybackEnds, Press, PressOpens, MicOpens
<1>8. CASE PressReadsAloud \/ PressEnds \/ BusyEnds \/ CancelReplies
  BY <1>8 DEF PressReadsAloud, PressEnds, BusyEnds, CancelReplies
<1>9. CASE RecorderStarts BY <1>9 DEF RecorderStarts, StopAgent
<1>10. CASE RecorderSpawnsStop BY <1>10 DEF RecorderSpawnsStop, queueVars
<1>11. CASE RecorderPutsBack \/ RecorderOpens \/ RecorderFails \/ RecorderStops
  BY <1>11 DEF RecorderPutsBack, RecorderOpens, RecorderFails, RecorderStops
<1>12. CASE LateStop BY <1>12 DEF LateStop
<1> QED
  BY Zenon, <1>0, <1>2, <1>3, <1>4, <1>5, <1>6, <1>7, <1>8, <1>9, <1>10, <1>11, <1>12
     DEF RepliesNext

\* The reply queue's state keeps its types: with OutInv, which has the queue's,
\* what is in hand and what was asked.
THEOREM RepliesKeepTypes == RepliesSpec => []RepliesTyped
<1> DEFINE Rest == FlagsTyped /\ PlacesTyped /\ VoiceTyped
<1>1. RepliesInit => Rest
  BY DEF RepliesInit, FlagsTyped, PlacesTyped, VoiceTyped
<1>2. OutInv => playing \in Utterances \cup {Nobody}
  BY DEF OutInv, OneInHand, QueueInLine
<1>3. OutInv /\ Rest /\ [RepliesNext]_replyVars => Rest'
  BY <1>2, FlagsStay, PlacesStay, VoiceStays
<1>4. OutInv /\ Rest => RepliesTyped
  <2> SUFFICES ASSUME OutInv, Rest PROVE RepliesTyped OBVIOUS
  <2>1. utterances \in Seq(Utterances) BY DEF OutInv, QueueInLine, Lined
  <2>2. copied \in Utterances \cup {Nobody} /\ asked \subseteq Utterances /\ expired \subseteq Interims
    BY DEF OutInv, QueueInLine, CopyInHand
  <2>3. FlagsTyped /\ PlacesTyped /\ VoiceTyped OBVIOUS
  <2> QED
    BY Zenon, <1>2, <2>1, <2>2, <2>3 DEF RepliesTyped, FlagsTyped, PlacesTyped, VoiceTyped
<1> HIDE DEF Rest
<1> QED BY <1>1, <1>3, <1>4, OutInvariant, PTL DEF RepliesSpec
-----------------------------------------------------------------------------
(* The snapshots of agents.json.                                           *)

\* The store is left alone, or a newer record is taken to be written.
StoreStays == UNCHANGED <<record, disk, writes, writeLost>>
RecordsOne == \E new : Records(new)

\* The last snapshot that waits is the newest, unless its write was lost.
NewestIsLast ==
  /\ \E S : writes \in Seq(S)
  /\ writes # <<>> => writes[Len(writes)] = record \/ writeLost
  /\ DiskIsNewest
-----------------------------------------------------------------------------
(* The order of writes.                                                    *)

\* A newer record comes last.
LEMMA RecordingKeepsNewest ==
  ASSUME NewestIsLast, RecordsOne
  PROVE  NewestIsLast'
<1>1. PICK S : writes \in Seq(S)
  BY DEF NewestIsLast
<1>2. PICK new : record' = new /\ writes' = Append(writes, new) /\ writeLost' = FALSE
  BY DEF RecordsOne, Records
<1>3. writes \in Seq(S \cup {new})
  BY <1>1
<1>4. /\ writes' \in Seq(S \cup {new}) /\ writes' # <<>>
      /\ writes'[Len(writes')] = new
  BY <1>2, <1>3, AppendProperties
<1>5. QED BY <1>2, <1>4 DEF NewestIsLast, DiskIsNewest

\* Writing a snapshot drops the older ones and leaves the newer.
LEMMA WritingKeepsNewest ==
  ASSUME NewestIsLast, Write
  PROVE  NewestIsLast'
<1>1. PICK S : writes \in Seq(S)
  BY DEF NewestIsLast
<1>2. PICK i \in DOMAIN writes :
        /\ disk' = writes[i] /\ writes' = SubSeq(writes, i + 1, Len(writes))
        /\ UNCHANGED <<record, writeLost>>
  BY DEF Write, ToWriteAfter
<1>3. i \in 1 .. Len(writes) /\ Len(writes) \in Nat /\ writes # <<>>
  BY <1>1, <1>2
<1>4. /\ writes' \in Seq(S)
      /\ Len(writes') = Len(writes) - i
      /\ \A k \in 1 .. Len(writes) - i : writes'[k] = writes[i + k]
  BY <1>1, <1>2, <1>3
<1>5. writes' = <<>> => disk' = writes[Len(writes)]
  <2>1. writes' = <<>> => i = Len(writes)
    BY <1>3, <1>4
  <2>2. QED BY <1>2, <2>1
<1>6. writes' # <<>> => writes'[Len(writes')] = writes[Len(writes)]
  <2>1. writes' # <<>> => Len(writes') \in 1 .. Len(writes) - i
    BY <1>3, <1>4
  <2>2. writes' # <<>> => writes'[Len(writes')] = writes[i + Len(writes')]
    BY <1>4, <2>1
  <2>3. i + Len(writes') = Len(writes)
    BY <1>3, <1>4
  <2>4. QED BY <2>2, <2>3
<1>7. QED BY <1>2, <1>3, <1>4, <1>5, <1>6 DEF NewestIsLast, DiskIsNewest

\* A write that fails is noted if it was the newest one's.
LEMMA FailingKeepsNewest ==
  ASSUME NewestIsLast, WriteFails
  PROVE  NewestIsLast'
<1>1. PICK S : writes \in Seq(S)
  BY DEF NewestIsLast
<1>2. PICK i \in DOMAIN writes :
        /\ writes' = RemoveAt(writes, i)
        /\ writeLost' = (writeLost \/ i = Len(writes))
        /\ UNCHANGED <<record, disk>>
  BY DEF WriteFails
<1>3. i \in 1 .. Len(writes) /\ Len(writes) \in Nat /\ writes # <<>>
  BY <1>1, <1>2
<1> DEFINE older == SubSeq(writes, 1, i - 1)
           newer == SubSeq(writes, i + 1, Len(writes))
<1>4. writes' = older \o newer
  BY <1>2 DEF RemoveAt
<1>5. /\ older \in Seq(S) /\ Len(older) = i - 1
  BY <1>1, <1>3
<1>6. /\ newer \in Seq(S) /\ Len(newer) = Len(writes) - i
      /\ \A k \in 1 .. Len(writes) - i : newer[k] = writes[i + k]
  BY <1>1, <1>3
<1> HIDE DEF older, newer
<1>7. writes' \in Seq(S) /\ Len(writes') = Len(writes) - 1
  BY <1>3, <1>4, <1>5, <1>6, ConcatProperties
<1>8. ASSUME i < Len(writes)
      PROVE  writes' # <<>> /\ writes'[Len(writes')] = writes[Len(writes)]
  <2>1. /\ Len(writes') > Len(older) /\ Len(writes') - Len(older) = Len(newer)
        /\ Len(newer) \in 1 .. Len(writes) - i /\ i + Len(newer) = Len(writes)
        /\ Len(writes') \in 1 .. Len(older) + Len(newer)
    BY <1>3, <1>5, <1>6, <1>7, <1>8
  <2>2. writes'[Len(writes')] = newer[Len(newer)]
    BY <1>4, <1>5, <1>6, <2>1, ConcatProperties
  <2>3. newer[Len(newer)] = writes[i + Len(newer)]
    BY <1>6, <2>1
  <2>4. writes' # <<>>
    BY <1>3, <1>7, <1>8
  <2>5. QED BY <2>1, <2>2, <2>3, <2>4
<1>9. CASE i < Len(writes)
  BY <1>2, <1>3, <1>7, <1>8, <1>9 DEF NewestIsLast, DiskIsNewest
<1>10. CASE i = Len(writes)
  BY <1>2, <1>7, <1>10 DEF NewestIsLast, DiskIsNewest
<1>11. QED BY <1>3, <1>9, <1>10

\* Every other step leaves the store alone or takes one snapshot.
LEMMA OtherTurnSteps ==
  ASSUME TurnsNext
  PROVE  StoreStays \/ RecordsOne \/ Write \/ WriteFails \/ DaemonDies
<1>1. CASE StartTurn
  BY <1>1 DEF StartTurn, StoreStays, RecordsOne
<1>2. ASSUME NEW g, NEW u, Applies(g, u) PROVE StoreStays \/ RecordsOne
  BY <1>2 DEF Applies, StoreStays, RecordsOne
<1>3. CASE ApplyUpdate \/ GhostRuns
  BY <1>2, <1>3 DEF ApplyUpdate, GhostRuns, StoreStays
<1>4. CASE FinishTurn \/ StopTurn \/ ResetSession
  BY <1>4 DEF FinishTurn, StopTurn, ResetSession, RecordsOne
<1>5. CASE SendChecks \/ SendAsks \/ SendFindsOwnWork
  BY <1>5 DEF SendChecks, SendAsks, SendFindsOwnWork, StoreStays, storeVars
<1>6. CASE \/ LaunchRefused \/ LaunchFails \/ Launch \/ StrayLaunches \/ StrayReports
           \/ LearnsSession \/ WatchHook \/ WatchPoll \/ WatchFindsGone \/ WatchLostTrack
  BY <1>6 DEF LaunchRefused, LaunchFails, Launch, StrayLaunches, StrayReports,
    LearnsSession, WatchHook, WatchPoll, WatchFindsGone, WatchLostTrack, driverFrame,
    StoreStays, storeVars
<1>7. CASE HookArrives \/ HookWhileIdle \/ HookEndsOwnWork \/ ListIdle \/ ListingSeen
  BY <1>7 DEF HookArrives, HookWhileIdle, HookEndsOwnWork, ListIdle, ListingSeen,
    StoreStays, storeVars
<1>8. CASE DriverStops \/ StopAsksIdle \/ StopIdleAnswered \/ StopIdleClears
  BY <1>8 DEF DriverStops, StopAsksIdle, StopIdleAnswered, StopIdleClears, StoreStays,
    storeVars
<1>9. CASE HarnessReplies \/ HarnessAsks \/ HarnessGoesOn \/ HarnessWorksOnItsOwn
  BY <1>9 DEF HarnessReplies, HarnessAsks, HarnessGoesOn, HarnessWorksOnItsOwn,
    harnessFrame, StoreStays, storeVars
<1>10. QED
  BY <1>1, <1>3, <1>4, <1>5, <1>6, <1>7, <1>8, <1>9 DEF TurnsNext

\* NewestIsLast holds in every state.
THEOREM NewestInvariant == TurnsSpec => []NewestIsLast
<1>1. TurnsInit => NewestIsLast
  <2>1. SUFFICES ASSUME TurnsInit PROVE NewestIsLast
    OBVIOUS
  <2>2. writes = <<>> /\ disk = record
    BY <2>1 DEF TurnsInit
  <2>3. writes \in Seq({})
    BY <2>2
  <2>4. QED BY <2>2, <2>3 DEF NewestIsLast, DiskIsNewest
<1>2. ASSUME NewestIsLast, [TurnsNext]_turnVars PROVE NewestIsLast'
  <2>1. CASE StoreStays
    BY <1>2, <2>1 DEF StoreStays, NewestIsLast, DiskIsNewest
  <2>2. CASE RecordsOne
    BY <1>2, <2>2, RecordingKeepsNewest
  <2>3. CASE Write
    BY <1>2, <2>3, WritingKeepsNewest
  <2>4. CASE WriteFails
    BY <1>2, <2>4, FailingKeepsNewest
  <2>5. CASE DaemonDies
    <3>1. writes' = <<>> /\ record' = disk /\ disk' = disk
      BY <2>5 DEF DaemonDies
    <3>2. writes' \in Seq({})
      BY <3>1
    <3>3. QED BY <3>1, <3>2 DEF NewestIsLast, DiskIsNewest
  <2>6. CASE UNCHANGED turnVars
    BY <2>1, <2>6 DEF turnVars, storeVars, StoreStays
  <2>7. QED BY <1>2, <2>1, <2>2, <2>3, <2>4, <2>5, <2>6, OtherTurnSteps
<1>3. QED BY <1>1, <1>2, PTL DEF TurnsSpec

\* Whatever the tasks that write agents.json overtake, and whichever writes
\* fail or a crash loses: with nothing left to write the file holds the
\* record, unless the write of just that failed (AgentRuntime.save).
THEOREM FileHoldsTheNewest == TurnsSpec => []DiskIsNewest
<1>1. NewestIsLast => DiskIsNewest
  BY DEF NewestIsLast
<1>2. QED BY <1>1, NewestInvariant, PTL
-----------------------------------------------------------------------------
(* The sessions let go.                                                    *)

Refs   == [bg : Nat, id : Nat]
Stored == [session : Refs, running : BOOLEAN, since : Nat]

\* A session launched so far, and one nobody let go since.
Known(ref) == ref \in Refs /\ ref.bg <= generations
Live(ref)  == Known(ref) /\ (ref.bg # 0 => ref.bg \notin forgotten)

\* The same after a step, of a session that may be one it put somewhere.
KnownNext(ref) == ref \in Refs /\ ref.bg <= generations'
LiveNext(ref)  == KnownNext(ref) /\ (ref.bg # 0 => ref.bg \notin forgotten')

Fields ==
  /\ generations \in Nat /\ slot.turn \in 0 .. generations
  /\ DOMAIN slot = {"turn", "phase", "ownWork", "polled"}
  /\ DOMAIN turnTask = {"at", "says", "ref", "out", "outReply", "updates", "hooks", "waits"}
  /\ record \in Stored /\ disk \in Stored /\ writes \in Seq(Stored)
  /\ \E S : turnTask.updates \in Seq(S)

\* What is on disk, or on its way there, was launched: a restart brings it
\* back, and it can be let go again.
StoreIsKnown ==
  /\ forgotten \subseteq 0 .. generations
  /\ Known(disk.session)
  /\ \A i \in 1 .. Len(writes) : Known(writes[i].session)
  /\ Live(record.session)

\* What the turn's task still says of its session is not let go while the
\* turn runs.
TurnIsLive ==
  slot.turn # 0 =>
    /\ slot.turn \notin forgotten
    /\ Live(turnTask.ref)
    /\ \A k \in 1 .. Len(turnTask.updates) : Live(turnTask.updates[k].ref)

\* An aborted task is not the turn's.
GhostIsOld == ghost # <<>> => ghost[1].gen \in 1 .. generations /\ ghost[1].gen # slot.turn

LetGoInv == Fields /\ StoreIsKnown /\ TurnIsLive /\ GhostIsOld
-----------------------------------------------------------------------------
\* The other tasks, the listings and the harness leave all of this alone.
Apart ==
  /\ UNCHANGED <<generations, forgotten, record, disk, writes, ghost>>
  /\ slot'.turn = slot.turn /\ DOMAIN slot' = DOMAIN slot
  /\ UNCHANGED <<turnTask.ref, turnTask.updates>> /\ DOMAIN turnTask' = DOMAIN turnTask

\* A step apart from the record and from what the turn's task says keeps
\* the invariant.
LEMMA ApartKeepsLetGo == ASSUME LetGoInv, Apart PROVE LetGoInv'
<1>1. Fields'
  BY DEF Apart, LetGoInv, Fields
<1>2. StoreIsKnown' /\ TurnIsLive' /\ GhostIsOld'
  BY DEF Apart, LetGoInv, StoreIsKnown, TurnIsLive, GhostIsOld, Known, Live
<1>3. QED BY <1>1, <1>2 DEF LetGoInv

\* Which steps these are.
LEMMA StepsApart ==
  ASSUME LetGoInv,
         \/ SendChecks \/ SendAsks \/ SendFindsOwnWork
         \/ LaunchRefused \/ LaunchFails \/ StrayLaunches \/ StrayReports \/ WatchLostTrack
         \/ HookArrives \/ HookWhileIdle \/ HookEndsOwnWork \/ ListIdle \/ ListingSeen
         \/ DriverStops \/ StopAsksIdle \/ StopIdleAnswered \/ StopIdleClears
         \/ HarnessReplies \/ HarnessAsks \/ HarnessGoesOn \/ HarnessWorksOnItsOwn
         \/ UNCHANGED turnVars
  PROVE  Apart
<1> USE DEF LetGoInv, Fields, Apart
<1>1. CASE SendChecks \/ SendAsks \/ ListIdle \/ DriverStops \/ StopAsksIdle
  BY <1>1 DEF SendChecks, SendAsks, ListIdle, DriverStops, StopAsksIdle, taskVars, storeVars,
    talkVars, lifeVars
<1>2. CASE SendFindsOwnWork
  BY <1>2 DEF SendFindsOwnWork, ShowsOwnWork, storeVars
<1>3. CASE LaunchRefused \/ LaunchFails \/ WatchLostTrack
  BY <1>3 DEF LaunchRefused, LaunchFails, WatchLostTrack, Ends, driverFrame, storeVars
<1>4. CASE StrayLaunches \/ StrayReports
  BY <1>4 DEF StrayLaunches, StrayReports, driverFrame, storeVars
<1>5. CASE HookArrives
  BY <1>5 DEF HookArrives, storeVars
<1>6. CASE HookWhileIdle
  BY <1>6 DEF HookWhileIdle, OwnReply, IdleSlot, storeVars
<1>7. CASE HookEndsOwnWork
  BY <1>7 DEF HookEndsOwnWork, EndsIdle, IdleSlot, storeVars
<1>8. CASE ListingSeen \/ StopIdleAnswered
  <2>1. ASSUME NEW phase, FollowsListing(phase)
        PROVE  slot'.turn = slot.turn /\ DOMAIN slot' = DOMAIN slot
    BY <2>1 DEF FollowsListing, EndsIdle, IdleSlot
  <2>2. slot'.turn = slot.turn /\ DOMAIN slot' = DOMAIN slot
    BY <1>8, <2>1 DEF ListingSeen, StopIdleAnswered
  <2>3. QED BY <1>8, <2>2 DEF ListingSeen, StopIdleAnswered, storeVars
<1>9. CASE StopIdleClears
  BY <1>9 DEF StopIdleClears, IdleSlot, storeVars
<1>10. CASE HarnessReplies \/ HarnessAsks \/ HarnessGoesOn \/ HarnessWorksOnItsOwn
  BY <1>10 DEF HarnessReplies, HarnessAsks, HarnessGoesOn, HarnessWorksOnItsOwn, harnessFrame,
    taskVars, storeVars
<1>11. CASE UNCHANGED turnVars
  BY <1>11 DEF turnVars, taskVars, storeVars
<1>12. QED
  BY <1>1, <1>2, <1>3, <1>4, <1>5, <1>6, <1>7, <1>8, <1>9, <1>10, <1>11

\* The driver learned something: the session it tells of is one it launched
\* in this turn, or the turn's own, or none.
LEMMA TellsOfLive ==
  ASSUME LetGoInv, NEW u,
         UNCHANGED <<slot, generations, forgotten, record, disk, writes, ghost>>,
         DOMAIN turnTask' = DOMAIN turnTask,
         turnTask'.updates \in {turnTask.updates, Append(turnTask.updates, u)},
         slot.turn # 0 => Live(turnTask'.ref) /\ Live(u.ref)
  PROVE  LetGoInv'
<1>1. PICK S : turnTask.updates \in Seq(S)
  BY DEF LetGoInv, Fields
<1>2. turnTask.updates \in Seq(S \cup {u})
  BY <1>1
<1>3. /\ turnTask'.updates \in Seq(S \cup {u})
      /\ \A k \in 1 .. Len(turnTask'.updates) :
           \/ k \in 1 .. Len(turnTask.updates) /\ turnTask'.updates[k] = turnTask.updates[k]
           \/ turnTask'.updates[k] = u
  BY <1>2, AppendProperties
<1>4. Fields'
  BY <1>3 DEF LetGoInv, Fields
<1>5. StoreIsKnown' /\ GhostIsOld'
  BY DEF LetGoInv, StoreIsKnown, GhostIsOld, Known, Live
<1>6. \A ref : Live(ref) => Live(ref)'
  BY DEF Live, Known
<1>7. TurnIsLive'
  BY <1>3, <1>6 DEF LetGoInv, TurnIsLive
<1>8. QED BY <1>4, <1>5, <1>7 DEF LetGoInv

\* The steps of the driver that tell the runtime something.
LEMMA DriverKeepsLetGo ==
  ASSUME LetGoInv, Launch \/ LearnsSession \/ WatchHook \/ WatchPoll \/ WatchFindsGone
  PROVE  LetGoInv'
<1>1. /\ UNCHANGED <<slot, generations, forgotten, record, disk, writes, ghost>>
      /\ DOMAIN turnTask' = DOMAIN turnTask
  BY DEF Launch, LearnsSession, WatchHook, WatchPoll, WatchFindsGone, Ends, driverFrame,
    storeVars, LetGoInv, Fields
<1>2. Live(NoSession)
  BY DEF Live, Known, Refs, NoSession, LetGoInv, Fields
<1>3. ASSUME NEW kind, NEW ref, NEW reply PROVE Update(kind, ref, reply).ref = ref
  BY DEF Update
<1>4. CASE Launch
  <2>1. PICK ref \in {[bg |-> slot.turn, id |-> 0], turnTask.ref} :
          turnTask' = [turnTask EXCEPT !.at = "watch", !.ref = ref,
                         !.updates = Append(@, Update("session", ref, 0))]
    BY <1>4 DEF Launch
  <2>2. slot.turn # 0 => Live(ref)
    BY <2>1 DEF Live, Known, Refs, LetGoInv, Fields, TurnIsLive
  <2>3. /\ turnTask'.ref = ref
        /\ turnTask'.updates = Append(turnTask.updates, Update("session", ref, 0))
    BY <2>1 DEF LetGoInv, Fields
  <2>4. QED BY <1>1, <1>3, <2>2, <2>3, TellsOfLive
<1>5. CASE LearnsSession
  <2> DEFINE ref == [turnTask.ref EXCEPT !.id = turnTask.ref.bg]
  <2>1. /\ turnTask'.ref = ref
        /\ turnTask'.updates = Append(turnTask.updates, Update("session", ref, 0))
    BY <1>5 DEF LearnsSession, LetGoInv, Fields
  <2>2. slot.turn # 0 => Live(ref)
    BY DEF Live, Known, Refs, LetGoInv, TurnIsLive
  <2> HIDE DEF ref
  <2>3. QED BY <1>1, <1>3, <2>1, <2>2, TellsOfLive
<1>6. CASE WatchHook \/ WatchPoll
  <2>1. /\ turnTask'.ref = turnTask.ref
        /\ \/ turnTask'.updates = turnTask.updates
           \/ \E kind, reply :
                turnTask'.updates = Append(turnTask.updates, Update(kind, NoSession, reply))
    <3> DEFINE rest == [turnTask EXCEPT !.hooks = Tail(@)]
    <3>1. /\ rest.ref = turnTask.ref /\ rest.updates = turnTask.updates
          /\ DOMAIN rest = DOMAIN turnTask
      BY DEF LetGoInv, Fields
    <3>2. CASE WatchHook
      <4>1. \/ \E kind, reply, waits : turnTask' =
                 [rest EXCEPT !.waits = waits,
                              !.updates = Append(@, Update(kind, NoSession, reply))]
            \/ \E reply : turnTask' =
                 [rest EXCEPT !.updates = Append(@, Update("reply", NoSession, reply))]
            \/ \E out, reply : turnTask' = [rest EXCEPT !.out = out, !.outReply = reply]
            \/ turnTask' = rest
        BY <3>2 DEF WatchHook
      <4> HIDE DEF rest
      <4>2. CASE \E kind, reply, waits : turnTask' =
                   [rest EXCEPT !.waits = waits,
                                !.updates = Append(@, Update(kind, NoSession, reply))]
        <5>1. PICK kind, reply, waits : turnTask' =
                [rest EXCEPT !.waits = waits,
                             !.updates = Append(@, Update(kind, NoSession, reply))]
          BY <4>2
        <5>2. /\ turnTask'.ref = rest.ref
              /\ turnTask'.updates = Append(rest.updates, Update(kind, NoSession, reply))
          BY <3>1, <5>1 DEF LetGoInv, Fields
        <5>3. QED BY <3>1, <5>2
      <4>3. CASE \E reply : turnTask' =
                   [rest EXCEPT !.updates = Append(@, Update("reply", NoSession, reply))]
        BY <3>1, <4>3 DEF LetGoInv, Fields
      <4>4. CASE \/ \E out, reply : turnTask' = [rest EXCEPT !.out = out, !.outReply = reply]
                 \/ turnTask' = rest
        BY <3>1, <4>4 DEF LetGoInv, Fields
      <4>5. QED BY <4>1, <4>2, <4>3, <4>4
    <3>3. CASE WatchPoll
      <4>1. \/ \E out, reply : Ends(out, reply)
            \/ \E waits, kind : turnTask' =
                 [turnTask EXCEPT !.waits = waits,
                                  !.updates = Append(@, Update(kind, NoSession, 0))]
        BY <3>3 DEF WatchPoll
      <4>2. CASE \E out, reply : Ends(out, reply)
        BY <4>2 DEF Ends, LetGoInv, Fields
      <4>3. CASE \E waits, kind : turnTask' =
                   [turnTask EXCEPT !.waits = waits,
                                    !.updates = Append(@, Update(kind, NoSession, 0))]
        <5>1. PICK waits, kind : turnTask' =
                [turnTask EXCEPT !.waits = waits,
                                 !.updates = Append(@, Update(kind, NoSession, 0))]
          BY <4>3
        <5>2. /\ turnTask'.ref = turnTask.ref
              /\ turnTask'.updates = Append(turnTask.updates, Update(kind, NoSession, 0))
          BY <5>1 DEF LetGoInv, Fields
        <5>3. QED BY <5>2
      <4>4. QED BY <4>1, <4>2, <4>3
    <3>4. QED BY <1>6, <3>2, <3>3
  <2>2. PICK kind, reply :
          turnTask'.updates \in {turnTask.updates,
                                 Append(turnTask.updates, Update(kind, NoSession, reply))}
    BY <2>1
  <2>3. slot.turn # 0 => Live(turnTask'.ref)
    BY <2>1 DEF LetGoInv, TurnIsLive
  <2>4. QED BY <1>1, <1>2, <1>3, <2>2, <2>3, TellsOfLive
<1>7. CASE WatchFindsGone
  <2>1. /\ turnTask'.ref = NoSession
        /\ turnTask'.updates = Append(turnTask.updates, Update("session", NoSession, 0))
    BY <1>7 DEF WatchFindsGone, LetGoInv, Fields
  <2>2. QED BY <1>1, <1>2, <1>3, <2>1, TellsOfLive
<1>8. QED BY <1>4, <1>5, <1>6, <1>7

\* Writing brings nothing back that was not launched.
LEMMA WriterKeepsLetGo == ASSUME LetGoInv, Write \/ WriteFails PROVE LetGoInv'
<1>1. /\ UNCHANGED <<slot, turnTask, ghost, generations, forgotten, record>>
      /\ writes \in Seq(Stored)
  BY DEF Write, WriteFails, taskVars, LetGoInv, Fields
<1>2. /\ disk' \in {disk} \cup {writes[i] : i \in 1 .. Len(writes)}
      /\ writes' \in Seq({writes[i] : i \in 1 .. Len(writes)})
  <2> DEFINE S == {writes[i] : i \in 1 .. Len(writes)}
  <2>1. writes \in Seq(S)
    BY <1>1
  <2>2. CASE Write
    <3>1. PICK i \in 1 .. Len(writes) :
            disk' = writes[i] /\ writes' = SubSeq(writes, i + 1, Len(writes))
      BY <1>1, <2>2 DEF Write, ToWriteAfter
    <3>2. Len(writes) \in Int /\ \A k \in i + 1 .. Len(writes) : writes[k] \in S
      BY <2>1, <3>1
    <3>3. SubSeq(writes, i + 1, Len(writes)) \in Seq(S)
      BY <2>1, <3>2, SubSeqProperties
    <3>4. QED BY <3>1, <3>3
  <2>3. CASE WriteFails
    <3>1. PICK i \in 1 .. Len(writes) : disk' = disk /\ writes' = RemoveAt(writes, i)
      BY <1>1, <2>3 DEF WriteFails
    <3>2. /\ Len(writes) \in Int
          /\ \A k \in 1 .. i - 1 : writes[k] \in S
          /\ \A k \in i + 1 .. Len(writes) : writes[k] \in S
      BY <2>1, <3>1
    <3>3. SubSeq(writes, 1, i - 1) \in Seq(S)
      BY <3>2, SubSeqProperties
    <3>4. SubSeq(writes, i + 1, Len(writes)) \in Seq(S)
      BY <3>2, SubSeqProperties
    <3>5. writes' \in Seq(S)
      BY <3>1, <3>3, <3>4, ConcatProperties DEF RemoveAt
    <3>6. QED BY <3>1, <3>5
  <2>4. QED BY <2>2, <2>3
<1>3. \A i \in 1 .. Len(writes) : writes[i] \in Stored /\ Known(writes[i].session)
  BY <1>1 DEF LetGoInv, StoreIsKnown
<1>4. \A i \in 1 .. Len(writes') : \E k \in 1 .. Len(writes) : writes'[i] = writes[k]
  BY <1>2
<1>5. disk' \in Stored /\ Known(disk'.session)
  BY <1>2, <1>3 DEF LetGoInv, Fields, StoreIsKnown
<1>6. writes' \in Seq(Stored)
  <2>1. {writes[i] : i \in 1 .. Len(writes)} \subseteq Stored
    BY <1>3
  <2>2. QED BY <1>2, <2>1
<1>7. \A i \in 1 .. Len(writes') : Known(writes'[i].session)
  BY <1>3, <1>4
<1>8. QED
  BY <1>1, <1>5, <1>6, <1>7
    DEF LetGoInv, Fields, StoreIsKnown, TurnIsLive, GhostIsOld, Known, Live

\* A newer record with a live session is taken to be written.
LEMMA RecordingKeepsStore ==
  ASSUME LetGoInv, NEW new \in Stored, Records(new),
         Live(new.session), UNCHANGED <<generations, forgotten>>
  PROVE  /\ record' \in Stored /\ disk' \in Stored /\ writes' \in Seq(Stored)
         /\ StoreIsKnown'
<1>1. record' = new /\ writes' = Append(writes, new) /\ disk' = disk
  BY DEF Records
<1>2. /\ writes' \in Seq(Stored)
      /\ \A i \in 1 .. Len(writes') :
           (i \in 1 .. Len(writes) /\ writes'[i] = writes[i]) \/ writes'[i] = new
  BY <1>1, AppendProperties DEF LetGoInv, Fields
<1>3. QED BY <1>1, <1>2 DEF LetGoInv, Fields, StoreIsKnown, Known, Live

\* The section that applies an update does so for the turn that runs only.
LEMMA ApplyingKeepsLetGo ==
  ASSUME LetGoInv, NEW g, NEW u, Applies(g, u),
         ghost' = ghost \/ ghost' = <<>>, UNCHANGED <<generations, forgotten>>,
         slot.turn # 0 /\ slot.turn = g => Live(u.ref), slot.turn = g => g # 0
  PROVE  LetGoInv'
<1>1. CASE slot.turn # g
  <2>1. UNCHANGED <<slot, record, disk, writes, turnTask>>
    BY <1>1 DEF Applies, IsCurrentTurn
  <2>2. QED
    BY <2>1 DEF LetGoInv, Fields, StoreIsKnown, TurnIsLive, GhostIsOld, Known, Live
<1>2. CASE slot.turn = g
  <2>1. Live(u.ref) /\ g # 0
    BY <1>2
  <2>2. slot'.turn = slot.turn /\ DOMAIN slot' = DOMAIN slot
    <3>1. \/ \E phase : slot' = [slot EXCEPT !.phase = phase]
          \/ OwnReply(u.reply)
          \/ slot' = slot
      BY <1>2 DEF Applies, IsCurrentTurn
    <3>2. QED BY <3>1 DEF OwnReply, IdleSlot, LetGoInv, Fields
  <2>3. /\ DOMAIN turnTask' = DOMAIN turnTask /\ turnTask'.ref = turnTask.ref
        /\ turnTask'.updates \in {turnTask.updates, Tail(turnTask.updates)}
        /\ turnTask'.updates # turnTask.updates => turnTask.updates # <<>>
    BY <1>2 DEF Applies, IsCurrentTurn, LetGoInv, Fields
  <2>4. PICK S : turnTask.updates \in Seq(S)
    BY DEF LetGoInv, Fields
  <2>5. /\ turnTask'.updates \in Seq(S)
        /\ \A k \in 1 .. Len(turnTask'.updates) : \E j \in 1 .. Len(turnTask.updates) :
             turnTask'.updates[k] = turnTask.updates[j]
    <3>1. CASE turnTask'.updates = turnTask.updates
      BY <2>4, <3>1
    <3>2. CASE turnTask'.updates = Tail(turnTask.updates) /\ turnTask.updates # <<>>
      <4>1. /\ Tail(turnTask.updates) \in Seq(S)
            /\ Len(Tail(turnTask.updates)) = Len(turnTask.updates) - 1
            /\ \A k \in 1 .. Len(Tail(turnTask.updates)) :
                 Tail(turnTask.updates)[k] = turnTask.updates[k + 1]
        BY <2>4, <3>2, HeadTailProperties
      <4>2. Len(turnTask.updates) \in Nat
        BY <2>4
      <4>3. QED BY <3>2, <4>1, <4>2
    <3>3. QED BY <2>3, <3>1, <3>2
  <2>6. /\ record' \in Stored /\ disk' \in Stored /\ writes' \in Seq(Stored)
        /\ StoreIsKnown'
    <3>1. CASE u.kind = "session"
      <4>1. Records([record EXCEPT !.session = u.ref])
        BY <1>2, <3>1 DEF Applies, IsCurrentTurn
      <4>2. /\ [record EXCEPT !.session = u.ref] \in Stored
            /\ [record EXCEPT !.session = u.ref].session = u.ref
        BY <2>1 DEF LetGoInv, Fields, Stored, Live, Known
      <4>3. QED BY <2>1, <4>1, <4>2, RecordingKeepsStore
    <3>2. CASE u.kind # "session"
      <4>1. UNCHANGED <<record, disk, writes>>
        BY <1>2, <3>2 DEF Applies, IsCurrentTurn
      <4>2. QED BY <4>1 DEF LetGoInv, Fields, StoreIsKnown, Known, Live
    <3>3. QED BY <3>1, <3>2
  <2>7. Fields'
    BY <2>2, <2>3, <2>5, <2>6 DEF LetGoInv, Fields
  <2>8. TurnIsLive'
    <3>1. \A ref : Live(ref) => Live(ref)'
      BY DEF Live, Known
    <3>2. QED BY <2>2, <2>3, <2>5, <3>1 DEF LetGoInv, TurnIsLive
  <2>9. GhostIsOld'
    BY <2>2 DEF LetGoInv, GhostIsOld
  <2>10. QED BY <2>6, <2>7, <2>8, <2>9 DEF LetGoInv
<1>3. QED BY <1>1, <1>2

\* The turn's own updates, and the section an aborted task still runs.
LEMMA UpdatesKeepLetGo == ASSUME LetGoInv, ApplyUpdate \/ GhostRuns PROVE LetGoInv'
<1>1. CASE ApplyUpdate
  <2>1. PICK S : turnTask.updates \in Seq(S)
    BY DEF LetGoInv, Fields
  <2>2. Head(turnTask.updates) = turnTask.updates[1] /\ 1 \in 1 .. Len(turnTask.updates)
    BY <1>1, <2>1 DEF ApplyUpdate
  <2>3. Live(Head(turnTask.updates).ref)
    BY <1>1, <2>2 DEF ApplyUpdate, LetGoInv, TurnIsLive
  <2>4. QED BY <1>1, <2>3, ApplyingKeepsLetGo DEF ApplyUpdate
<1>2. CASE GhostRuns
  <2>1. CASE ghost[1].does.kind = "end"
    <3>1. UNCHANGED <<slot, turnTask, record, disk, writes, generations, forgotten>>
      BY <1>2, <2>1 DEF GhostRuns
    <3>2. ghost' = <<>>
      BY <1>2 DEF GhostRuns
    <3>3. QED
      BY <3>1, <3>2 DEF LetGoInv, Fields, StoreIsKnown, TurnIsLive, GhostIsOld, Known, Live
  <2>2. CASE ghost[1].does.kind # "end"
    <3>1. slot.turn # ghost[1].gen
      BY <1>2 DEF GhostRuns, LetGoInv, GhostIsOld
    <3>2. Applies(ghost[1].gen, ghost[1].does)
      BY <1>2, <2>2 DEF GhostRuns
    <3>3. QED BY <1>2, <3>1, <3>2, ApplyingKeepsLetGo DEF GhostRuns
  <2>3. QED BY <2>1, <2>2
<1>3. QED BY <1>1, <1>2

\* An aborted task leaves at most a section of the turn it was of.
LEMMA AbortedIsOld ==
  ASSUME LetGoInv, Aborted, slot.turn # 0, slot'.turn # slot.turn,
         generations' \in Nat, generations' >= generations,
         slot'.turn = 0 \/ slot'.turn > generations
  PROVE  GhostIsOld'
<1>1. ghost' # <<>> => ghost'[1].gen \in 1 .. generations /\ ghost'[1].gen # slot'.turn
  <2>1. \/ ghost' = ghost
        \/ \E does : ghost' = <<[gen |-> slot.turn, does |-> does]>>
    BY DEF Aborted
  <2>2. CASE ghost' = ghost
    BY <2>2 DEF LetGoInv, Fields, GhostIsOld
  <2>3. CASE \E does : ghost' = <<[gen |-> slot.turn, does |-> does]>>
    BY <2>3 DEF LetGoInv, Fields
  <2>4. QED BY <2>1, <2>2, <2>3
<1>2. QED BY <1>1 DEF LetGoInv, Fields, GhostIsOld

\* The newest ids of the session, of a turn or between two, are live.
LEMMA NewestIdsLive ==
  ASSUME LetGoInv
  PROVE  Live(record.session) /\ (slot.turn # 0 => Live(SessionNow))
BY DEF LetGoInv, StoreIsKnown, TurnIsLive, SessionNow

\* A turn starts: in the session the record or the turn it replaces has.
LEMMA StartingKeepsLetGo == ASSUME LetGoInv, StartTurn PROVE LetGoInv'
<1>1. CASE MayStart /\ generations < budget.turns
  <2> DEFINE ref == IF slot.turn = 0 THEN record.session ELSE SessionNow
             new == [session |-> ref, running |-> TRUE, since |-> generations + 1]
  <2>1. /\ slot.turn = 0 => ghost' = ghost
        /\ slot.turn # 0 => Aborted
        /\ Records(new) /\ Spawns(ref, "launch", generations + 1)
        /\ forgotten' = forgotten
    BY <1>1 DEF StartTurn
  <2>2. Live(ref)
    BY NewestIdsLive
  <2> HIDE DEF ref
  <2>3. /\ generations' = generations + 1
        /\ slot'.turn = generations + 1 /\ DOMAIN slot' = DOMAIN slot
        /\ DOMAIN turnTask' = DOMAIN turnTask
        /\ turnTask'.ref = ref /\ turnTask'.updates = <<>>
    BY <2>1 DEF Spawns, NoTask, LetGoInv, Fields
  <2>4. new \in Stored /\ new.session = ref /\ generations \in Nat
    BY <2>2 DEF Live, Known, Stored, LetGoInv, Fields
  <2>5. record' = new /\ writes' = Append(writes, new) /\ disk' = disk
    BY <2>1 DEF Records
  <2> HIDE DEF new
  <2>6. /\ writes' \in Seq(Stored)
        /\ \A i \in 1 .. Len(writes') :
             (i \in 1 .. Len(writes) /\ writes'[i] = writes[i]) \/ writes'[i] = new
    BY <2>4, <2>5, AppendProperties DEF LetGoInv, Fields
  <2>7. \A r : (Known(r) => KnownNext(r)) /\ (Live(r) => LiveNext(r))
    BY <2>1, <2>3, <2>4 DEF Known, Live, KnownNext, LiveNext, Refs
  <2>8. Fields'
    <3>1. turnTask'.updates \in Seq({})
      BY <2>3
    <3>2. QED BY <2>3, <2>4, <2>5, <2>6, <3>1 DEF LetGoInv, Fields
  <2>9. StoreIsKnown'
    <3>1. Known(new.session) /\ Live(new.session)
      BY <2>2, <2>4 DEF Live
    <3>2. \A i \in 1 .. Len(writes') : KnownNext(writes'[i].session)
      BY <2>6, <2>7, <3>1 DEF LetGoInv, StoreIsKnown
    <3>3. forgotten' \subseteq 0 .. generations'
      BY <2>1, <2>3, <2>4 DEF LetGoInv, StoreIsKnown
    <3>4. KnownNext(disk'.session) /\ LiveNext(record'.session)
      BY <2>5, <2>7, <3>1 DEF LetGoInv, StoreIsKnown
    <3>5. QED BY <3>2, <3>3, <3>4 DEF StoreIsKnown, Known, Live, KnownNext, LiveNext
  <2>10. TurnIsLive'
    <3>1. LiveNext(ref)
      BY <2>2, <2>7
    <3>2. generations + 1 \notin forgotten
      BY <2>4 DEF LetGoInv, StoreIsKnown
    <3>3. QED
      BY <2>1, <2>3, <3>1, <3>2 DEF TurnIsLive, Live, Known, LiveNext, KnownNext
  <2>11. GhostIsOld'
    <3>1. CASE slot.turn = 0
      BY <2>1, <2>3, <2>4, <3>1 DEF LetGoInv, GhostIsOld
    <3>2. CASE slot.turn # 0
      BY <2>1, <2>3, <2>4, <3>2, AbortedIsOld DEF LetGoInv, Fields
    <3>3. QED BY <3>1, <3>2
  <2>12. QED BY <2>8, <2>9, <2>10, <2>11 DEF LetGoInv
<1>2. CASE ~(MayStart /\ generations < budget.turns)
  BY <1>2, ApartKeepsLetGo DEF StartTurn, Apart, taskVars
<1>3. QED BY <1>1, <1>2

\* A turn ends, by itself or stopped: its session stays in the record.
LEMMA EndingKeepsLetGo == ASSUME LetGoInv, FinishTurn \/ StopTurn PROVE LetGoInv'
<1>1. /\ slot.turn # 0 /\ slot'.turn = 0 /\ DOMAIN slot' = DOMAIN slot
      /\ turnTask' = NoTask
      /\ UNCHANGED <<generations, forgotten>>
      /\ ghost' = ghost \/ Aborted
  <2>1. CASE FinishTurn
    BY <2>1 DEF FinishTurn, LetGoInv, Fields
  <2>2. CASE StopTurn
    BY <2>2 DEF StopTurn, LetGoInv, Fields
  <2>3. QED BY <2>1, <2>2
<1>2. PICK new \in Stored : Records(new) /\ Live(new.session)
  <2>1. CASE FinishTurn
    <3>1. [record EXCEPT !.running = FALSE, !.since = 0] \in Stored
      BY DEF LetGoInv, Fields, Stored
    <3>2. [record EXCEPT !.running = FALSE, !.since = 0].session = record.session
      BY DEF LetGoInv, Fields, Stored
    <3>3. QED BY <2>1, <3>1, <3>2, NewestIdsLive DEF FinishTurn
  <2>2. CASE StopTurn
    <3>1. Live(SessionNow)
      BY <1>1, NewestIdsLive
    <3>2. [session |-> SessionNow, running |-> FALSE, since |-> 0] \in Stored
      BY <3>1 DEF Stored, Live, Known
    <3>3. QED BY <2>2, <3>1, <3>2 DEF StopTurn
  <2>3. QED BY <2>1, <2>2
<1>3. /\ record' \in Stored /\ disk' \in Stored /\ writes' \in Seq(Stored)
      /\ StoreIsKnown'
  BY <1>1, <1>2, RecordingKeepsStore
<1>4. Fields'
  <2>1. turnTask'.updates \in Seq({}) /\ DOMAIN turnTask' = DOMAIN NoTask
    BY <1>1 DEF NoTask
  <2>2. DOMAIN turnTask' = DOMAIN turnTask
    BY <2>1 DEF NoTask, LetGoInv, Fields
  <2>3. QED BY <1>1, <1>3, <2>1, <2>2 DEF LetGoInv, Fields
<1>5. GhostIsOld'
  <2>1. CASE ghost' = ghost
    BY <1>1, <2>1 DEF LetGoInv, Fields, GhostIsOld
  <2>2. CASE Aborted
    BY <1>1, <2>2, AbortedIsOld DEF LetGoInv, Fields
  <2>3. QED BY <1>1, <2>1, <2>2
<1>6. QED BY <1>1, <1>3, <1>4, <1>5 DEF LetGoInv, TurnIsLive

\* A reset happens between two turns: it lets the record's session go, and
\* the one of no turn.
LEMMA ResettingKeepsLetGo == ASSUME LetGoInv, ResetSession PROVE LetGoInv'
<1> DEFINE new == [record EXCEPT !.session = NoSession]
<1>1. /\ slot.turn = 0 /\ Records(new)
      /\ forgotten' = forgotten \cup {record.session.bg}
      /\ UNCHANGED <<generations, turnTask, ghost>>
      /\ slot'.turn = 0 /\ DOMAIN slot' = DOMAIN slot
  BY DEF ResetSession, IdleSlot, LetGoInv, Fields
<1>2. new \in Stored /\ new.session = NoSession
  BY DEF LetGoInv, Fields, Stored, Refs, NoSession
<1>3. record' = new /\ writes' = Append(writes, new) /\ disk' = disk
  BY <1>1 DEF Records
<1>4. /\ writes' \in Seq(Stored)
      /\ \A i \in 1 .. Len(writes') :
           (i \in 1 .. Len(writes) /\ writes'[i] = writes[i]) \/ writes'[i] = new
  BY <1>2, <1>3, AppendProperties DEF LetGoInv, Fields
<1> HIDE DEF new
<1>5. KnownNext(NoSession) /\ LiveNext(NoSession)
  BY <1>1 DEF KnownNext, LiveNext, NoSession, Refs, LetGoInv, Fields
<1>6. \A r : Known(r) => KnownNext(r)
  BY <1>1 DEF Known, KnownNext
<1>7. Fields'
  BY <1>1, <1>2, <1>3, <1>4 DEF LetGoInv, Fields
<1>8. StoreIsKnown'
  <2>1. \A i \in 1 .. Len(writes') : KnownNext(writes'[i].session)
    BY <1>2, <1>4, <1>5, <1>6 DEF LetGoInv, StoreIsKnown
  <2>2. KnownNext(disk'.session) /\ LiveNext(record'.session)
    BY <1>2, <1>3, <1>5, <1>6 DEF LetGoInv, StoreIsKnown
  <2>3. forgotten' \subseteq 0 .. generations'
    <3>1. record.session.bg \in 0 .. generations
      BY DEF LetGoInv, Fields, StoreIsKnown, Live, Known, Refs
    <3>2. QED BY <1>1, <3>1 DEF LetGoInv, StoreIsKnown
  <2>4. QED BY <2>1, <2>2, <2>3 DEF StoreIsKnown, Known, Live, KnownNext, LiveNext
<1>9. TurnIsLive' /\ GhostIsOld'
  BY <1>1 DEF LetGoInv, TurnIsLive, GhostIsOld
<1>10. QED BY <1>7, <1>8, <1>9 DEF LetGoInv

\* A restart takes what is on disk; what was let go before it, it cannot know.
LEMMA DyingKeepsLetGo == ASSUME LetGoInv, DaemonDies PROVE LetGoInv'
<1>1. /\ record' = disk /\ disk' = disk /\ writes' = <<>> /\ ghost' = <<>> /\ forgotten' = {}
  BY DEF DaemonDies
<1>2. /\ DOMAIN slot' = DOMAIN slot /\ DOMAIN turnTask' = DOMAIN turnTask
      /\ turnTask'.updates = <<>>
      /\ \/ slot'.turn = generations + 1 /\ generations' = generations + 1
            /\ turnTask'.ref = disk.session
         \/ slot'.turn = 0 /\ generations' = generations
  <2>1. /\ DOMAIN NoTask = DOMAIN turnTask /\ NoTask.updates = <<>>
        /\ DOMAIN slot = {"turn", "phase", "ownWork", "polled"}
    BY DEF NoTask, LetGoInv, Fields
  <2>2. CASE disk.running
    <3>1. /\ generations' = generations + 1
          /\ turnTask' = [NoTask EXCEPT !.at = "rewatch", !.says = disk.since,
                             !.ref = disk.session]
          /\ slot' = [turn |-> generations + 1, phase |-> "Working", ownWork |-> FALSE,
                      polled |-> 0]
      BY <2>2 DEF DaemonDies
    <3>2. DOMAIN turnTask' = DOMAIN NoTask
      BY <3>1
    <3>3. turnTask'.updates = NoTask.updates /\ turnTask'.ref = disk.session
      BY <3>1 DEF NoTask
    <3>4. DOMAIN slot' = DOMAIN slot /\ slot'.turn = generations + 1
      BY <2>1, <3>1
    <3>5. QED BY <2>1, <3>1, <3>2, <3>3, <3>4
  <2>3. CASE ~disk.running
    <3>1. /\ generations' = generations /\ turnTask' = NoTask
          /\ slot' = [turn |-> 0, phase |-> "Idle", ownWork |-> FALSE, polled |-> 0]
      BY <2>3 DEF DaemonDies
    <3>2. QED BY <2>1, <3>1
  <2>4. QED BY <2>2, <2>3
<1>3. \A r : Known(r) => KnownNext(r) /\ LiveNext(r)
  BY <1>1, <1>2 DEF Known, KnownNext, LiveNext, Refs, LetGoInv, Fields
<1>4. Fields'
  <2>1. turnTask'.updates \in Seq({}) /\ writes' \in Seq(Stored)
    BY <1>1, <1>2
  <2>2. QED BY <1>1, <1>2, <2>1 DEF LetGoInv, Fields
<1>5. KnownNext(disk.session) /\ LiveNext(disk.session)
  BY <1>3 DEF LetGoInv, StoreIsKnown
<1>6. StoreIsKnown' /\ GhostIsOld'
  BY <1>1, <1>5 DEF StoreIsKnown, GhostIsOld, Known, Live, KnownNext, LiveNext
<1>7. TurnIsLive'
  BY <1>1, <1>2, <1>5 DEF TurnIsLive, Live, Known, KnownNext, LiveNext
<1>8. QED BY <1>4, <1>6, <1>7 DEF LetGoInv

\* At the start there is no session.
LEMMA StartsLetGo == ASSUME TurnsInit PROVE LetGoInv
<1>1. /\ generations = 0 /\ slot.turn = 0 /\ ghost = <<>> /\ forgotten = {}
      /\ DOMAIN slot = {"turn", "phase", "ownWork", "polled"}
      /\ turnTask = NoTask /\ writes = <<>>
  BY DEF TurnsInit
<1>2. disk = record /\ record = [session |-> NoSession, running |-> FALSE, since |-> 0]
  BY DEF TurnsInit
<1>3. record \in Stored /\ record.session = NoSession
  BY <1>2 DEF Stored, Refs, NoSession
<1>4. Known(NoSession) /\ Live(NoSession)
  BY <1>1 DEF Known, Live, Refs, NoSession
<1>5. Fields
  <2>1. turnTask.updates \in Seq({}) /\ writes \in Seq(Stored)
    BY <1>1 DEF NoTask
  <2>2. QED BY <1>1, <1>2, <1>3, <2>1 DEF Fields, NoTask
<1>6. QED BY <1>1, <1>2, <1>3, <1>4, <1>5 DEF LetGoInv, StoreIsKnown, TurnIsLive, GhostIsOld

\* LetGoInv holds in every state.
THEOREM LetGoInvariant == TurnsSpec => []LetGoInv
<1>1. TurnsInit => LetGoInv
  BY StartsLetGo
<1>2. LetGoInv /\ [TurnsNext]_turnVars => LetGoInv'
  BY ApartKeepsLetGo, StepsApart, DriverKeepsLetGo, WriterKeepsLetGo, UpdatesKeepLetGo,
    StartingKeepsLetGo, EndingKeepsLetGo, ResettingKeepsLetGo, DyingKeepsLetGo DEF TurnsNext
<1>3. QED BY <1>1, <1>2, PTL DEF TurnsSpec

\* A session let go by `--reset` stays out of the record while the daemon
\* lives, whatever an aborted task, a stray launch or a turn that ran into
\* the reset still reports (apply_update, TurnUpdates.stop, reset).
THEOREM LetGoStaysGone == TurnsSpec => []ForgottenStays
<1>1. LetGoInv => ForgottenStays
  BY DEF LetGoInv, StoreIsKnown, Live, ForgottenStays
<1>2. QED BY <1>1, LetGoInvariant, PTL
-----------------------------------------------------------------------------
(* The events kept for a session that has no id yet.                       *)
\* The kept events, and what the harness sends, are events of some session;
\* none that is kept is of the session of the turn that runs.
KeptEvents ==
  /\ \E S : kept \in Seq(S)
  /\ \A e \in flying : "session" \in DOMAIN e
\* None of these events is of the session.
ForeignTo(q, id) == \A e \in Range(q) : e.session # id
\* While a turn runs in a session that has an id, no kept event is of it.
KeptForeign ==
  slot.turn # 0 /\ record.session.id # 0 => ForeignTo(kept, record.session.id)
\* The invariant of the kept events.
ForeignInv == KeptEvents /\ KeptForeign

\* forward_unclaimed leaves no event of the session it forwards.
LEMMA ForwardingLeavesForeign ==
  ASSUME KeptEvents, NEW ref
  PROVE  /\ \E S : KeptAfter(ref) \in Seq(S)
         /\ ref.id # 0 => ForeignTo(KeptAfter(ref), ref.id)
<1>1. PICK S : kept \in Seq(S) BY DEF KeptEvents
<1> DEFINE left == Range(kept) \ Range(Forwarded(ref))
<1>2. KeptAfter(ref) = Keeping(kept, left) BY DEF KeptAfter
<1> HIDE DEF left
<1>3. KeptAfter(ref) \in Seq(S) /\ Range(KeptAfter(ref)) = Range(kept) \cap left
  BY <1>1, <1>2, KeepingIsSeq, KeepingRange
<1> USE DEF left
<1>4. ASSUME ref.id # 0 PROVE ForeignTo(KeptAfter(ref), ref.id)
  <2> DEFINE mine == {e \in Range(kept) : e.session = ref.id}
  <2>1. Forwarded(ref) = Keeping(kept, mine) BY <1>4 DEF Forwarded, Of
  <2> HIDE DEF mine
  <2>2. Range(Forwarded(ref)) = Range(kept) \cap mine BY <1>1, <2>1, KeepingRange
  <2> USE DEF mine
  <2> QED BY <1>3, <2>2 DEF ForeignTo
<1> QED BY <1>3, <1>4

\* Keeping one more event, and dropping old ones, brings none of another
\* session in.
LEMMA KeepingOneMore ==
  ASSUME NEW S, NEW q \in Seq(S), NEW from \in 1 .. Len(q) + 1, NEW e
  PROVE  /\ \E X : Keep(SubSeq(q, from, Len(q)), e) \in Seq(X)
         /\ Range(Keep(SubSeq(q, from, Len(q)), e)) \subseteq Range(q) \cup {e}
<1> DEFINE X == S \cup {e}
           t == SubSeq(q, from, Len(q))
           r == IF Len(t) = MaxKept THEN Tail(t) ELSE t
<1>0. Len(q) \in Nat /\ DOMAIN q = 1 .. Len(q) BY LenProperties
<1>1. \A i \in from .. Len(q) : q[i] \in Range(q) BY <1>0 DEF Range
<1>2. t \in Seq(Range(q))
  <2>1. from \in Int /\ Len(q) \in Int BY <1>0
  <2> QED BY <1>1, <2>1, SubSeqProperties
<1>3. r \in Seq(Range(q))
  <2>1. CASE Len(t) = MaxKept
    <3> HIDE DEF t
    <3>1. t # <<>> BY <2>1, TurnBounds, EmptySeq
    <3>2. Tail(t) \in Seq(Range(q)) BY <1>2, <3>1, HeadTailProperties
    <3> QED BY <2>1, <3>2
  <2>2. CASE Len(t) # MaxKept BY <1>2, <2>2
  <2> QED BY <2>1, <2>2
<1>4. Keep(t, e) = Append(r, e) BY DEF Keep
<1> HIDE DEF r, t
<1>5. r \in Seq(Range(q) \cup {e}) /\ Range(r) \subseteq Range(q)
  <2>1. Range(r) \subseteq Range(q) BY <1>3, RangeOfSeq
  <2>2. DOMAIN r = 1 .. Len(r) /\ \A i \in 1 .. Len(r) : r[i] \in Range(q) \cup {e}
    BY <1>3, LenProperties, ElementOfSeq
  <2> QED BY <1>3, <2>1
<1>6. /\ Append(r, e) \in Seq(Range(q) \cup {e})
      /\ Range(Append(r, e)) = Range(r) \cup {e}
  BY <1>5, AppendProperties, RangeOfAppend
<1> USE DEF t
<1> QED BY <1>4, <1>5, <1>6

\* Most steps leave the kept events, the record and the turn alone, or end it.
LEMMA StayingKeepsForeign ==
  ASSUME ForeignInv, UNCHANGED kept, flying' \subseteq flying,
         slot'.turn # 0 => slot.turn # 0 /\ UNCHANGED record
  PROVE  ForeignInv'
BY DEF ForeignInv, KeptEvents, KeptForeign, ForeignTo

\* A turn's session becomes the record's as its events go to the driver.
LEMMA TakingKeepsForeign ==
  ASSUME ForeignInv, NEW ref, kept' = KeptAfter(ref), record'.session = ref, UNCHANGED flying
  PROVE  ForeignInv'
<1>1. /\ \E S : KeptAfter(ref) \in Seq(S)
      /\ ref.id # 0 => ForeignTo(KeptAfter(ref), ref.id)
  BY ForwardingLeavesForeign DEF ForeignInv
<1> HIDE DEF ForeignTo
<1> QED BY <1>1 DEF ForeignInv, KeptEvents, KeptForeign, ForeignTo

\* An update applied: a session that gets its id has its kept events consumed.
LEMMA ApplyingKeepsForeign ==
  ASSUME LetGoInv, ForeignInv, NEW g, NEW u, Applies(g, u), UNCHANGED flying
  PROVE  ForeignInv'
<1>1. CASE slot.turn # g
  BY <1>1, StayingKeepsForeign DEF Applies, IsCurrentTurn
<1>2. CASE slot.turn = g /\ u.kind = "session"
  <2>1. Records([record EXCEPT !.session = u.ref]) /\ kept' = KeptAfter(u.ref)
    BY <1>2 DEF Applies, IsCurrentTurn
  <2>2. record'.session = u.ref BY <2>1 DEF Records, LetGoInv, Fields, Stored
  <2> QED BY <2>1, <2>2, TakingKeepsForeign
<1>3. CASE slot.turn = g /\ u.kind # "session"
  <2>1. UNCHANGED <<record, kept>> BY <1>3 DEF Applies, IsCurrentTurn
  <2>2. slot'.turn = slot.turn
    <3>1. \/ \E phase : slot' = [slot EXCEPT !.phase = phase]
          \/ OwnReply(u.reply)
          \/ slot' = slot
      BY <1>3 DEF Applies, IsCurrentTurn
    <3>2. QED BY <3>1 DEF OwnReply, IdleSlot, LetGoInv, Fields
  <2> QED BY <2>1, <2>2, StayingKeepsForeign
<1> QED BY <1>1, <1>2, <1>3

\* An event that arrives is kept only if it is of another session.
LEMMA ArrivingKeepsForeign ==
  ASSUME ForeignInv, HookArrives PROVE ForeignInv'
<1>1. PICK e \in flying :
        LET got == [e EXCEPT !.at = ReceivedAt]
            mine == record.session.id = e.session IN
        /\ flying' = flying \ {e}
        /\ IF mine /\ slot.turn # 0 THEN UNCHANGED kept
           ELSE IF mine THEN UNCHANGED kept
           ELSE \E from \in 1 .. Len(kept) + 1 :
                  kept' = Keep(SubSeq(kept, from, Len(kept)), got)
  BY DEF HookArrives
<1>2. UNCHANGED <<slot, record>> BY DEF HookArrives, storeVars
<1>3. CASE UNCHANGED kept
  BY <1>1, <1>2, <1>3, StayingKeepsForeign
<1>4. CASE ~UNCHANGED kept
  <2> DEFINE got == [e EXCEPT !.at = ReceivedAt]
  <2>1. PICK from \in 1 .. Len(kept) + 1 : kept' = Keep(SubSeq(kept, from, Len(kept)), got)
    BY <1>1, <1>4
  <2>2. record.session.id # e.session BY <1>1, <1>4
  <2>3. got.session = e.session BY DEF ForeignInv, KeptEvents
  <2>4. PICK S : kept \in Seq(S) BY DEF ForeignInv, KeptEvents
  <2> HIDE DEF got
  <2>5. /\ \E X : Keep(SubSeq(kept, from, Len(kept)), got) \in Seq(X)
        /\ Range(Keep(SubSeq(kept, from, Len(kept)), got)) \subseteq Range(kept) \cup {got}
    BY <2>4, KeepingOneMore
  <2>6. KeptEvents' BY <1>1, <2>1, <2>5 DEF ForeignInv, KeptEvents
  <2>7. Range(kept') \subseteq Range(kept) \cup {got} BY <2>1, <2>5
  <2>8. KeptForeign' BY <1>2, <2>2, <2>3, <2>7 DEF ForeignInv, KeptForeign, ForeignTo
  <2> QED BY <2>6, <2>8 DEF ForeignInv
<1> QED BY <1>3, <1>4

\* Every step keeps the kept events foreign.
LEMMA StepsKeepForeign ==
  ASSUME LetGoInv, ForeignInv, [TurnsNext]_turnVars PROVE ForeignInv'
<1>1. CASE \/ SendChecks \/ SendAsks \/ SendFindsOwnWork
           \/ LaunchRefused \/ LaunchFails \/ StrayLaunches \/ StrayReports \/ WatchLostTrack
           \/ HookWhileIdle \/ HookEndsOwnWork \/ ListIdle \/ ListingSeen
           \/ DriverStops \/ StopAsksIdle \/ StopIdleAnswered \/ StopIdleClears
           \/ HarnessGoesOn \/ HarnessWorksOnItsOwn
           \/ UNCHANGED turnVars
  <2>1. Apart BY <1>1, StepsApart
  <2>2. UNCHANGED <<kept, flying>>
    BY <1>1 DEF SendChecks, SendAsks, SendFindsOwnWork, LaunchRefused, LaunchFails,
       StrayLaunches, StrayReports, WatchLostTrack, HookWhileIdle, HookEndsOwnWork, ListIdle,
       ListingSeen, DriverStops, StopAsksIdle, StopIdleAnswered, StopIdleClears,
       HarnessGoesOn, HarnessWorksOnItsOwn, driverFrame, harnessFrame, eventVars, turnVars
  <2> QED BY <2>1, <2>2, StayingKeepsForeign DEF Apart
<1>2. CASE Launch \/ LearnsSession \/ WatchHook \/ WatchPoll \/ WatchFindsGone
  <2>1. UNCHANGED <<slot, record, kept, flying>>
    BY <1>2 DEF Launch, LearnsSession, WatchHook, WatchPoll, WatchFindsGone, driverFrame,
       storeVars, eventVars
  <2> QED BY <2>1, StayingKeepsForeign
<1>3. CASE Write \/ WriteFails
  <2>1. UNCHANGED <<slot, record, kept, flying>>
    BY <1>3 DEF Write, WriteFails, taskVars, eventVars
  <2> QED BY <2>1, StayingKeepsForeign
<1>4. CASE HarnessReplies \/ HarnessAsks
  <2>1. Apart /\ UNCHANGED kept
    BY <1>4, StepsApart DEF HarnessReplies, HarnessAsks, harnessFrame
  <2>2. \A e \in flying' : "session" \in DOMAIN e
    <3>1. \A kind, bg : "session" \in DOMAIN Event(kind, bg) BY DEF Event
    <3>2. \E bg : flying' \subseteq flying \cup {Event("stop", bg), Event("prompt", bg)}
      <4>1. CASE HarnessReplies BY <4>1 DEF HarnessReplies
      <4>2. CASE HarnessAsks BY <4>2 DEF HarnessAsks
      <4> QED BY <1>4, <4>1, <4>2
    <3> QED BY <3>1, <3>2 DEF ForeignInv, KeptEvents
  <2> QED BY <2>1, <2>2 DEF Apart, ForeignInv, KeptEvents, KeptForeign
<1>5. CASE ApplyUpdate
  BY <1>5, ApplyingKeepsForeign DEF ApplyUpdate
<1>6. CASE GhostRuns
  <2>1. CASE ghost[1].does.kind = "end"
    <3>1. UNCHANGED <<slot, record, kept, flying>> BY <1>6, <2>1 DEF GhostRuns
    <3> QED BY <3>1, StayingKeepsForeign
  <2>2. CASE ghost[1].does.kind # "end"
    BY <1>6, <2>2, ApplyingKeepsForeign DEF GhostRuns
  <2> QED BY <2>1, <2>2
<1>7. CASE HookArrives
  BY <1>7, ArrivingKeepsForeign
<1>8. CASE StartTurn
  <2>1. CASE MayStart /\ generations < budget.turns
    <3> DEFINE ref == IF slot.turn = 0 THEN record.session ELSE SessionNow
    <3>1. /\ Records([session |-> ref, running |-> TRUE, since |-> generations + 1])
          /\ Spawns(ref, "launch", generations + 1) /\ UNCHANGED flying
      BY <1>8, <2>1 DEF StartTurn
    <3> HIDE DEF ref
    <3>2. record'.session = ref /\ kept' = KeptAfter(ref)
      BY <3>1 DEF Records, Spawns
    <3> QED BY <3>1, <3>2, TakingKeepsForeign
  <2>2. CASE ~(MayStart /\ generations < budget.turns)
    <3>1. UNCHANGED <<slot, record, kept, flying>> BY <1>8, <2>2 DEF StartTurn, taskVars
    <3> QED BY <3>1, StayingKeepsForeign
  <2> QED BY <2>1, <2>2
<1>9. CASE FinishTurn \/ StopTurn
  <2>1. slot'.turn = 0
    <3>1. CASE FinishTurn BY <3>1 DEF FinishTurn
    <3>2. CASE StopTurn BY <3>2 DEF StopTurn, LetGoInv, Fields
    <3> QED BY <1>9, <3>1, <3>2
  <2>2. UNCHANGED <<kept, flying>>
    BY <1>9 DEF FinishTurn, StopTurn, eventVars
  <2> QED BY <2>1, <2>2, StayingKeepsForeign
<1>10. CASE ResetSession
  <2>1. slot'.turn = 0 /\ UNCHANGED <<kept, flying>>
    BY <1>10 DEF ResetSession, eventVars, IdleSlot, LetGoInv, Fields
  <2> QED BY <2>1, StayingKeepsForeign
<1>11. CASE DaemonDies
  <2>1. kept' = <<>> /\ flying' = {} BY <1>11 DEF DaemonDies
  <2>2. kept' \in Seq({}) /\ Range(kept') = {} BY <2>1, EmptySeq DEF Range
  <2> QED BY <2>1, <2>2 DEF ForeignInv, KeptEvents, KeptForeign, ForeignTo
<1> QED
  BY <1>1, <1>2, <1>3, <1>4, <1>5, <1>6, <1>7, <1>8, <1>9, <1>10, <1>11 DEF TurnsNext

\* The kept events are of other sessions than the turn that runs.
THEOREM ForeignInvariant == TurnsSpec => []ForeignInv
<1>1. TurnsInit => ForeignInv
  <2> SUFFICES ASSUME TurnsInit PROVE ForeignInv OBVIOUS
  <2>1. kept \in Seq({}) /\ flying = {} /\ slot.turn = 0 BY EmptySeq DEF TurnsInit
  <2> QED BY <2>1 DEF ForeignInv, KeptEvents, KeptForeign
<1>2. LetGoInv /\ ForeignInv /\ [TurnsNext]_turnVars => ForeignInv'
  BY StepsKeepForeign
<1> QED BY <1>1, <1>2, LetGoInvariant, PTL DEF TurnsSpec

\* An event of the session whose turn runs is never kept: it was forwarded or
\* dropped when it came, or when the session got its id (handle_event,
\* take_kept_for).
THEOREM KeptEventsAreForeign == TurnsSpec => []KeptIsForeign
<1>1. ForeignInv => KeptIsForeign
  <2> SUFFICES ASSUME ForeignInv, slot.turn # 0, record.session.id # 0
               PROVE  Of(kept, record.session.id) = <<>>
    BY DEF KeptIsForeign
  <2> DEFINE mine == {e \in Range(kept) : e.session = record.session.id}
  <2>1. PICK S : kept \in Seq(S) BY DEF ForeignInv, KeptEvents
  <2>2. Range(kept) \cap mine = {} BY DEF ForeignInv, KeptForeign, ForeignTo
  <2> HIDE DEF mine
  <2>3. Keeping(kept, mine) = <<>> BY <2>1, <2>2, KeepingNothing
  <2> USE DEF mine
  <2> QED BY <2>3 DEF Of
<1> QED BY <1>1, ForeignInvariant, PTL
-----------------------------------------------------------------------------
(* The row of the overlay.                                                 *)

RowTyped ==
  /\ DOMAIN board = {"turn", "waits", "ended"}
  /\ board.turn \in BOOLEAN /\ board.waits \in BOOLEAN /\ board.ended \in BOOLEAN
  /\ slot.phase \in Phases /\ slot.ownWork \in BOOLEAN

\* A turn shows and does no work of the session's own; between two turns the
\* row shows what the slot does.
RowFollowsSlot ==
  /\ board.waits = (slot.phase = "NeedsYou")
  /\ slot.turn # 0 => board.turn /\ ~slot.ownWork /\ slot.phase # "Idle"
  /\ slot.turn = 0 => /\ slot.phase # "Working"
                      /\ slot.ownWork => board.turn
                      /\ board.turn => ShowsIdle

RowInv == RowTyped /\ RowFollowsSlot

\* What the sections do to the slot and the row.
RowStays  == slot'.turn = slot.turn /\ slot'.phase = slot.phase
             /\ slot'.ownWork = slot.ownWork /\ board' = board
RowIsGone == /\ slot'.turn = 0 /\ slot'.phase = "Idle" /\ slot'.ownWork = FALSE
             /\ \/ board' = NoRow \/ board' = EndedRow
RowIsTurn == /\ slot'.turn # 0 /\ slot'.phase = "Working" /\ slot'.ownWork = FALSE
             /\ board' = TurnRow
RowIsWork == /\ slot'.turn = 0 /\ slot'.phase = "Idle" /\ slot'.ownWork = TRUE
             /\ \/ board' = TurnRow
                \/ slot.turn = 0 /\ slot.ownWork = TRUE /\ board' = WorkingRow
RowWaits  == /\ slot'.turn = slot.turn /\ slot'.phase = "NeedsYou"
             /\ slot'.ownWork = slot.ownWork /\ board' = WaitingRow

RowWorks  == /\ slot.turn # 0 /\ slot'.turn = slot.turn /\ slot'.phase = "Working"
             /\ slot'.ownWork = slot.ownWork /\ board' = WorkingRow
RowMoves  == RowStays \/ RowIsGone \/ RowIsTurn \/ RowIsWork \/ RowWaits \/ RowWorks

\* Whichever of these a section does, the row follows the slot.
LEMMA MovesKeepRow == ASSUME RowInv, RowMoves PROVE RowInv'
<1> USE DEF RowInv, RowTyped, RowFollowsSlot, ShowsIdle, Phases
<1>1. CASE RowStays
  BY <1>1 DEF RowStays
<1>2. CASE RowIsGone
  <2> DEFINE ended == board.ended \/ board.turn \/ board.waits
  <2>1. ended \in BOOLEAN /\ EndedRow = [NoRow EXCEPT !.ended = ended]
    BY Zenon DEF EndedRow
  <2> HIDE DEF ended
  <2>2. EndedRow = [turn |-> FALSE, waits |-> FALSE, ended |-> ended]
    BY <2>1 DEF NoRow
  <2>3. PICK last \in BOOLEAN : board' = [turn |-> FALSE, waits |-> FALSE, ended |-> last]
    BY <1>2, <2>1, <2>2 DEF RowIsGone, NoRow
  <2>4. QED BY <1>2, <2>3 DEF RowIsGone
<1>3. CASE RowIsTurn
  BY <1>3 DEF RowIsTurn, NoRow, TurnRow
<1>4. CASE RowIsWork
  BY <1>4 DEF RowIsWork, NoRow, TurnRow, WorkingRow
<1>5. CASE RowWaits
  BY <1>5 DEF RowWaits, WaitingRow
<1>6. CASE RowWorks
  BY <1>6 DEF RowWorks, WorkingRow
<1>7. QED BY <1>1, <1>2, <1>3, <1>4, <1>5, <1>6 DEF RowMoves

\* A reply of the session's own ends the row it has between two turns.
LEMMA OwnReplyMovesRow == ASSUME LetGoInv, NEW r, OwnReply(r) PROVE RowMoves
<1>1. CASE ShowsIdle
  BY <1>1 DEF OwnReply, IdleSlot, ShowsIdle, RowMoves, RowIsGone, LetGoInv, Fields
<1>2. CASE ~ShowsIdle
  BY <1>2 DEF OwnReply, RowMoves, RowStays, LetGoInv, Fields
<1>3. QED BY <1>1, <1>2

\* What a listing shows is followed between two turns only.
LEMMA ListingMovesRow == ASSUME LetGoInv, RowInv, NEW phase, FollowsListing(phase) PROVE RowMoves
<1> USE DEF LetGoInv, Fields
<1>1. CASE ShowsIdle /\ phase = "Idle"
  <2>1. slot' = IdleSlot /\ board' = NoRow /\ slot.turn = 0
    BY <1>1 DEF FollowsListing, EndsIdle, ShowsIdle
  <2>2. QED BY <2>1 DEF IdleSlot, RowMoves, RowIsGone
<1>2. CASE ShowsIdle /\ phase = "Working" /\ slot.phase = "NeedsYou"
  <2>1. /\ slot' = [slot EXCEPT !.phase = "Idle", !.ownWork = TRUE] /\ slot.turn = 0
        /\ board' = IF slot.ownWork THEN WorkingRow ELSE TurnRow
    BY <1>2 DEF FollowsListing, ShowsIdle
  <2>2. QED BY <2>1 DEF RowMoves, RowIsWork, RowInv, RowTyped
<1>3. CASE ShowsIdle /\ phase = "NeedsYou" /\ slot.phase # "NeedsYou"
  <2>1. slot' = [slot EXCEPT !.phase = "NeedsYou"] /\ board' = WaitingRow /\ slot.turn = 0
    BY <1>3 DEF FollowsListing, ShowsIdle
  <2>2. QED BY <2>1 DEF RowMoves, RowWaits
<1>4. CASE ~ \/ ShowsIdle /\ phase = "Idle"
             \/ ShowsIdle /\ phase = "Working" /\ slot.phase = "NeedsYou"
             \/ ShowsIdle /\ phase = "NeedsYou" /\ slot.phase # "NeedsYou"
  BY <1>4 DEF FollowsListing, RowMoves, RowStays
<1>5. QED BY <1>1, <1>2, <1>3, <1>4

\* An update moves the row of the turn it is for, and of no other.
LEMMA UpdateMovesRow ==
  ASSUME LetGoInv, NEW g, NEW u, Applies(g, u), slot.turn = g => g # 0
  PROVE  RowMoves
<1> USE DEF LetGoInv, Fields
<1>1. CASE slot.turn # g
  BY <1>1 DEF Applies, IsCurrentTurn, RowMoves, RowStays
<1>2. CASE slot.turn = g /\ u.kind = "waits"
  BY <1>2 DEF Applies, IsCurrentTurn, RowMoves, RowWaits
<1>3. CASE slot.turn = g /\ u.kind = "works"
  BY <1>3 DEF Applies, IsCurrentTurn, RowMoves, RowWorks
<1>4. CASE slot.turn = g /\ u.kind = "reply"
  BY <1>4, OwnReplyMovesRow DEF Applies, IsCurrentTurn
<1>5. CASE slot.turn = g /\ u.kind \notin {"waits", "works", "reply"}
  BY <1>5 DEF Applies, IsCurrentTurn, RowMoves, RowStays
<1>6. QED BY <1>1, <1>2, <1>3, <1>4, <1>5

\* Every step moves the row in one of these ways.
LEMMA StepsMoveRow == ASSUME LetGoInv, RowInv, TurnsNext PROVE RowMoves
<1> USE DEF LetGoInv, Fields
<1>1. CASE Write \/ WriteFails
  BY <1>1 DEF Write, WriteFails, taskVars, RowMoves, RowStays
<1>2. CASE SendChecks \/ SendAsks \/ ListIdle \/ DriverStops \/ StopAsksIdle
  BY <1>2 DEF SendChecks, SendAsks, ListIdle, DriverStops, StopAsksIdle, taskVars, RowMoves,
    RowStays
<1>3. CASE SendFindsOwnWork
  BY <1>3 DEF SendFindsOwnWork, ShowsOwnWork, RowMoves, RowStays, RowIsWork, RowInv, RowTyped
<1>4. CASE StartTurn
  <2>1. CASE MayStart /\ generations < budget.turns
    <3>1. PICK ref : Spawns(ref, "launch", generations + 1)
      BY <1>4, <2>1 DEF StartTurn
    <3>2. QED BY <3>1 DEF Spawns, RowMoves, RowIsTurn
  <2>2. CASE ~(MayStart /\ generations < budget.turns)
    BY <1>4, <2>2 DEF StartTurn, taskVars, RowMoves, RowStays
  <2>3. QED BY <2>1, <2>2
<1>5. CASE \/ LaunchRefused \/ LaunchFails \/ Launch \/ StrayLaunches \/ StrayReports
           \/ LearnsSession \/ WatchHook \/ WatchPoll \/ WatchFindsGone \/ WatchLostTrack
  BY <1>5 DEF LaunchRefused, LaunchFails, Launch, StrayLaunches, StrayReports,
    LearnsSession, WatchHook, WatchPoll, WatchFindsGone, WatchLostTrack, driverFrame,
    RowMoves, RowStays
<1>6. CASE ApplyUpdate
  BY <1>6, UpdateMovesRow DEF ApplyUpdate
<1>7. CASE FinishTurn
  <2>1. CASE turnTask.out = "busy"
    BY <1>7, <2>1 DEF FinishTurn, RowMoves, RowIsWork
  <2>2. CASE turnTask.out # "busy"
    BY <1>7, <2>2 DEF FinishTurn, RowMoves, RowIsGone
  <2>3. QED BY <2>1, <2>2
<1>8. CASE GhostRuns
  <2>1. CASE ghost[1].does.kind = "end"
    BY <1>8, <2>1 DEF GhostRuns, RowMoves, RowStays
  <2>2. CASE ghost[1].does.kind # "end"
    BY <1>8, <2>2, UpdateMovesRow DEF GhostRuns, GhostIsOld
  <2>3. QED BY <2>1, <2>2
<1>9. CASE HookArrives
  BY <1>9 DEF HookArrives, RowMoves, RowStays
<1>10. CASE HookWhileIdle
  <2>1. PICK e \in reading :
          CASE e.kind = "stop"   -> OwnReply(e.reply)
            [] e.kind = "prompt" /\ slot.turn = 0 ->
                 slot' = [slot EXCEPT !.phase = "NeedsYou"] /\ board' = WaitingRow
                 /\ UNCHANGED heard
            [] OTHER -> UNCHANGED <<slot, board, heard>>
    BY <1>10 DEF HookWhileIdle
  <2>2. CASE e.kind = "stop"
    BY <2>1, <2>2, OwnReplyMovesRow
  <2>3. CASE e.kind = "prompt" /\ slot.turn = 0
    BY <2>1, <2>3 DEF RowMoves, RowWaits
  <2>4. CASE e.kind # "stop" /\ ~(e.kind = "prompt" /\ slot.turn = 0)
    BY <2>1, <2>4 DEF RowMoves, RowStays
  <2>5. QED BY <2>2, <2>3, <2>4
<1>11. CASE HookEndsOwnWork
  BY <1>11 DEF HookEndsOwnWork, EndsIdle, IdleSlot, ShowsIdle, RowMoves, RowStays, RowIsGone
<1>12. CASE ListingSeen
  BY <1>12, ListingMovesRow DEF ListingSeen
<1>13. CASE StopTurn
  BY <1>13 DEF StopTurn, RowMoves, RowIsGone, RowInv, RowTyped, RowFollowsSlot
<1>14. CASE StopIdleAnswered
  BY <1>14, ListingMovesRow DEF StopIdleAnswered, RowMoves, RowStays
<1>15. CASE StopIdleClears \/ ResetSession
  <2>1. CASE slot.turn = 0 /\ board' = NoRow /\ slot' = IF ShowsIdle THEN IdleSlot ELSE slot
    <3>1. CASE ShowsIdle
      BY <2>1, <3>1 DEF IdleSlot, RowMoves, RowIsGone
    <3>2. CASE ~ShowsIdle
      BY <2>1, <3>2 DEF ShowsIdle, RowMoves, RowIsGone, RowInv, RowTyped, RowFollowsSlot, Phases
    <3>3. QED BY <3>1, <3>2
  <2>2. CASE UNCHANGED <<slot, board>>
    BY <2>2 DEF RowMoves, RowStays
  <2>3. QED BY <1>15, <2>1, <2>2 DEF StopIdleClears, ResetSession
<1>16. CASE HarnessReplies \/ HarnessAsks \/ HarnessGoesOn \/ HarnessWorksOnItsOwn
  BY <1>16 DEF HarnessReplies, HarnessAsks, HarnessGoesOn, HarnessWorksOnItsOwn,
    harnessFrame, taskVars, RowMoves, RowStays
<1>17. CASE DaemonDies
  <2>1. CASE disk.running
    BY <1>17, <2>1 DEF DaemonDies, RowMoves, RowIsTurn
  <2>2. CASE ~disk.running
    BY <1>17, <2>2 DEF DaemonDies, RowMoves, RowIsGone
  <2>3. QED BY <2>1, <2>2
<1>18. QED
  BY <1>1, <1>2, <1>3, <1>4, <1>5, <1>6, <1>7, <1>8, <1>9, <1>10, <1>11, <1>12, <1>13, <1>14,
    <1>15, <1>16, <1>17 DEF TurnsNext

\* RowInv holds in every state.
LEMMA RowInvariant == TurnsSpec => []RowInv
<1>1. TurnsInit => RowInv
  <2>1. SUFFICES ASSUME TurnsInit PROVE RowInv
    OBVIOUS
  <2>2. QED BY <2>1 DEF TurnsInit, RowInv, RowTyped, RowFollowsSlot, ShowsIdle, Phases
<1>2. LetGoInv /\ RowInv /\ [TurnsNext]_turnVars => RowInv'
  <2>1. UNCHANGED turnVars => RowMoves
    BY DEF turnVars, taskVars, RowMoves, RowStays
  <2>2. QED BY <2>1, StepsMoveRow, MovesKeepRow
<1>3. QED BY <1>1, <1>2, LetGoInvariant, PTL DEF TurnsSpec

\* The overlay's row shows what the runtime knows, for any interleaving of
\* the sections that send its events: the turn's own, those of a stopped
\* turn, hook events, listings, stops, resets and a restart.
THEOREM RowShowsTheSlot == TurnsSpec => []BoardAgrees
<1>1. RowInv => BoardAgrees
  BY DEF RowInv, RowTyped, RowFollowsSlot, BoardAgrees, Row, ShowsIdle, Phases
<1>2. QED BY <1>1, RowInvariant, PTL
-----------------------------------------------------------------------------
(* What replaces a turn.                                                   *)

\* Which turn runs changes when one starts, ends, is stopped or is lost.
LEMMA TurnChanges ==
  ASSUME LetGoInv, TurnsNext
  PROVE  \/ UNCHANGED crashes /\ slot'.turn \in {0, slot.turn}
         \/ UNCHANGED crashes /\ StartTurn
         \/ DaemonDies
<1>1. CASE StartTurn
  BY <1>1 DEF StartTurn, lifeVars
<1>2. CASE ApplyUpdate \/ GhostRuns
  <2>1. ASSUME NEW g, NEW u, Applies(g, u) PROVE slot'.turn = slot.turn
    <3>1. \/ \E phase : slot' = [slot EXCEPT !.phase = phase]
          \/ OwnReply(u.reply)
          \/ slot' = slot
      BY <2>1 DEF Applies, IsCurrentTurn
    <3>2. QED BY <3>1 DEF OwnReply, IdleSlot, LetGoInv, Fields
  <2>2. QED BY <1>2, <2>1 DEF ApplyUpdate, GhostRuns, lifeVars
<1>3. CASE Write \/ WriteFails \/ FinishTurn \/ StopTurn \/ ResetSession
  <2>1. CASE Write \/ WriteFails
    BY <2>1 DEF Write, WriteFails, taskVars, lifeVars
  <2>2. CASE FinishTurn
    BY <2>2 DEF FinishTurn, lifeVars
  <2>3. CASE StopTurn
    BY <2>3 DEF StopTurn, lifeVars, LetGoInv, Fields
  <2>4. CASE ResetSession
    BY <2>4 DEF ResetSession, IdleSlot, lifeVars, LetGoInv, Fields
  <2>5. QED BY <1>3, <2>1, <2>2, <2>3, <2>4
<1>4. CASE Launch \/ LearnsSession \/ WatchHook \/ WatchPoll \/ WatchFindsGone
  BY <1>4 DEF Launch, LearnsSession, WatchHook, WatchPoll, WatchFindsGone, driverFrame,
    lifeVars
<1>5. ASSUME \/ SendChecks \/ SendAsks \/ SendFindsOwnWork
             \/ LaunchRefused \/ LaunchFails \/ StrayLaunches \/ StrayReports \/ WatchLostTrack
             \/ HookArrives \/ HookWhileIdle \/ HookEndsOwnWork \/ ListIdle \/ ListingSeen
             \/ DriverStops \/ StopAsksIdle \/ StopIdleAnswered \/ StopIdleClears
             \/ HarnessReplies \/ HarnessAsks \/ HarnessGoesOn \/ HarnessWorksOnItsOwn
      PROVE  UNCHANGED crashes /\ slot'.turn = slot.turn
  <2>1. slot'.turn = slot.turn
    BY <1>5, StepsApart DEF Apart
  <2>2. UNCHANGED lifeVars
    BY <1>5 DEF SendChecks, SendAsks, SendFindsOwnWork, LaunchRefused, LaunchFails,
      StrayLaunches, StrayReports, WatchLostTrack, HookArrives, HookWhileIdle,
      HookEndsOwnWork, ListIdle, ListingSeen, DriverStops, StopAsksIdle, StopIdleAnswered,
      StopIdleClears, HarnessReplies, HarnessAsks, HarnessGoesOn, HarnessWorksOnItsOwn,
      driverFrame, harnessFrame
  <2>3. QED BY <2>1, <2>2 DEF lifeVars
<1>6. QED BY <1>1, <1>2, <1>3, <1>4, <1>5 DEF TurnsNext

\* The crashes are counted.
CrashesCounted == crashes \in Nat

\* Of two requests that both saw the agent free, the second to look again
\* finds the turn of the first: a turn that works is not replaced, unless
\* the daemon itself dies (start_turn).
THEOREM WorkingTurnsLast == TurnsSpec => WorkIsNotCutOff
<1>1. ASSUME LetGoInv, CrashesCounted, [TurnsNext]_turnVars
      PROVE  /\ CrashesCounted'
             /\ [slot.turn # 0 /\ slot.turn' \notin {0, slot.turn} /\ UNCHANGED crashes
                   => slot.phase = "NeedsYou"]_turnVars
  <2>1. CASE StartTurn /\ UNCHANGED crashes
    <3>1. CASE MayStart
      BY <1>1, <2>1, <3>1 DEF MayStart, TurnWorks, CrashesCounted
    <3>2. CASE ~MayStart
      BY <1>1, <2>1, <3>2 DEF StartTurn, taskVars, CrashesCounted
    <3>3. QED BY <3>1, <3>2
  <2>2. CASE UNCHANGED crashes /\ slot'.turn \in {0, slot.turn}
    BY <1>1, <2>2 DEF CrashesCounted
  <2>3. CASE DaemonDies
    BY <1>1, <2>3 DEF DaemonDies, CrashesCounted
  <2>4. CASE UNCHANGED turnVars
    BY <1>1, <2>4 DEF turnVars, lifeVars, CrashesCounted
  <2>5. QED BY <1>1, <2>1, <2>2, <2>3, <2>4, TurnChanges
<1>2. TurnsInit => CrashesCounted
  BY DEF TurnsInit, CrashesCounted
<1>3. QED BY <1>1, <1>2, LetGoInvariant, PTL DEF TurnsSpec, WorkIsNotCutOff
-----------------------------------------------------------------------------
(* The types of the turns: TurnsTyped, with the types of what its parts    *)
(* come from (the updates and the outcome of the task, the snapshots, the  *)
(* events on their way, the harness).                                      *)
Told     == 0 .. MaxTurns + MaxOwn
Outcomes == {"none", "busy", "failed", "polled", "reply"}
Updates  == [kind : {"session", "waits", "works", "reply"}, ref : SessionRefs, reply : Told]
Slots    == [turn : 0 .. MaxTurns, phase : Phases, ownWork : BOOLEAN, polled : Told]
Tasks    == [at : {"none", "launch", "watch", "rewatch"}, says : 0 .. MaxTurns,
             ref : SessionRefs, out : Outcomes, outReply : Told, updates : Seq(Updates),
             hooks : Seq(HookEvents), waits : BOOLEAN]
Places   == [open : SUBSET Turns, work : [Turns -> Told], waits : SUBSET Turns,
             own : 0 .. MaxOwn, asks : Nat, replied : SUBSET Answers]

CountsTyped == budget \in TurnBudgets /\ generations \in 0 .. MaxTurns
SlotTyped  == slot \in Slots
TaskTyped  == turnTask \in Tasks /\ (turnTask.at = "none") = (slot.turn = 0)
FileTyped  ==
  /\ record \in Snapshots /\ disk \in Snapshots /\ writes \in Seq(Snapshots)
  /\ record.running = (slot.turn # 0)
EventsTyped ==
  /\ kept \in Seq(HookEvents) /\ Len(kept) <= MaxKept
  /\ flying \subseteq HookEvents /\ reading \subseteq HookEvents
HarnessTyped ==
  /\ harness \in Places
  /\ strays \subseteq [gen : Turns, ref : SessionRefs, started : BOOLEAN]
CommandsTyped ==
  /\ sending \in [Senders -> [at : {"none", "ask", "own", "second"}, bg : 0 .. MaxTurns]]
  /\ DOMAIN stopping = {"at", "ref"}
  /\ stopping.at \in {"none", "stop", "ask", "idle", "clear"} /\ stopping.ref \in SessionRefs
  /\ listed \in Phases \cup {"none"}
ShownTyped ==
  /\ board \in [turn : BOOLEAN, waits : BOOLEAN, ended : BOOLEAN]
  /\ heard \in [Answers -> 0 .. 2]
TypesInv ==
  /\ CountsTyped /\ SlotTyped /\ TaskTyped /\ FileTyped /\ EventsTyped /\ HarnessTyped
  /\ CommandsTyped /\ ShownTyped

\* What is kept is not longer.
LEMMA KeepingShortens ==
  ASSUME NEW X, NEW q \in Seq(X), NEW those
  PROVE  Len(Keeping(q, those)) <= Len(q)
<1> DEFINE Good == {p \in Seq(X) : Len(Keeping(p, those)) <= Len(p)}
<1>1. <<>> \in Good
  BY KeepingOfNone, EmptySeq
<1>2. ASSUME NEW p \in Good, NEW x \in X PROVE Append(p, x) \in Good
  <2>1. p \in Seq(X) /\ Len(Keeping(p, those)) <= Len(p) /\ Append(p, x) \in Seq(X)
    BY AppendProperties
  <2>2. /\ x \in those => Keeping(Append(p, x), those) = Append(Keeping(p, those), x)
        /\ x \notin those => Keeping(Append(p, x), those) = Keeping(p, those)
    BY <2>1, KeepingAppend
  <2>3. Keeping(p, those) \in Seq(X) BY <2>1, KeepingIsSeq
  <2>4. /\ Len(Append(p, x)) = Len(p) + 1 /\ Len(p) \in Nat
        /\ Len(Append(Keeping(p, those), x)) = Len(Keeping(p, those)) + 1
        /\ Len(Keeping(p, those)) \in Nat
    BY <2>1, <2>3, AppendProperties, LenProperties
  <2> QED BY <2>1, <2>2, <2>4
<1>3. Seq(X) \subseteq Good
  <2> HIDE DEF Good
  <2> QED BY <1>1, <1>2, SequencesBySets
<1> QED BY <1>3

\* An event forwarded, kept, or consumed with the others of its session.
LEMMA ForwardingTyped ==
  ASSUME EventsTyped, NEW ref, NEW g
  PROVE  /\ NotBefore(Forwarded(ref), g) \in Seq(HookEvents)
         /\ KeptAfter(ref) \in Seq(HookEvents) /\ Len(KeptAfter(ref)) <= MaxKept
<1>1. kept \in Seq(HookEvents) /\ Len(kept) \in Nat BY LenProperties DEF EventsTyped
<1>2. \A those : /\ Keeping(kept, those) \in Seq(HookEvents)
                 /\ Len(Keeping(kept, those)) <= Len(kept)
  BY <1>1, KeepingIsSeq, KeepingShortens
<1>3. \A id : Of(kept, id) \in Seq(HookEvents)
  BY <1>2 DEF Of
<1>4. Forwarded(ref) \in Seq(HookEvents)
  BY <1>3, EmptySeq DEF Forwarded
<1>5. \A q \in Seq(HookEvents) : \A those : Keeping(q, those) \in Seq(HookEvents)
  BY KeepingIsSeq
<1>6. NotBefore(Forwarded(ref), g) \in Seq(HookEvents)
  BY <1>4, <1>5 DEF NotBefore
<1>7. Len(KeptAfter(ref)) \in Nat
  BY <1>2, LenProperties DEF KeptAfter
<1> QED BY <1>1, <1>2, <1>6, <1>7, TurnBounds DEF KeptAfter, EventsTyped

\* The sessions of the record and of the turn's task.
LEMMA SessionsTyped ==
  ASSUME TypesInv
  PROVE  /\ record.session \in SessionRefs /\ turnTask.ref \in SessionRefs
         /\ SessionNow \in SessionRefs /\ NoSession \in SessionRefs
BY TurnBounds DEF TypesInv, TaskTyped, FileTyped, Tasks, Snapshots, SessionNow, NoSession, SessionRefs

\* The phase a listing shows.
LEMMA ListedTyped == ASSUME NEW bg PROVE ListedPhase(bg) \in Phases
BY DEF ListedPhase, Phases

\* The driver's steps keep the types of the task.
LEMMA DriverKeepsTask ==
  ASSUME TypesInv,
         \/ LaunchRefused \/ LaunchFails \/ Launch \/ LearnsSession \/ WatchHook \/ WatchPoll
         \/ WatchFindsGone \/ WatchLostTrack
  PROVE  TaskTyped' /\ UNCHANGED driverFrame
<1>0. UNCHANGED driverFrame
  BY DEF LaunchRefused, LaunchFails, Launch, LearnsSession, WatchHook, WatchPoll,
     WatchFindsGone, WatchLostTrack
<1> SUFFICES TaskTyped' BY <1>0
<1>1. turnTask \in Tasks /\ turnTask.ref \in SessionRefs /\ UNCHANGED slot
      /\ (turnTask.at = "none") = (slot.turn = 0) /\ slot.turn \in 0 .. MaxTurns
      /\ turnTask.says \in Told
  BY <1>0, TurnBounds DEF TypesInv, TaskTyped, SlotTyped, Slots, Tasks, driverFrame, Told
<1>2. 0 \in Told /\ NoSession \in SessionRefs
  BY TurnBounds, SessionsTyped DEF Told
<1>3. ASSUME NEW at \in {"launch", "watch", "rewatch"}, NEW ref \in SessionRefs,
             NEW out \in Outcomes, NEW outReply \in Told, NEW updates \in Seq(Updates),
             NEW hooks \in Seq(HookEvents), NEW waits \in BOOLEAN, turnTask.at # "none",
             turnTask' = [turnTask EXCEPT !.at = at, !.ref = ref, !.out = out,
               !.outReply = outReply, !.updates = updates, !.hooks = hooks, !.waits = waits]
      PROVE  TaskTyped'
  BY <1>1, <1>3 DEF TaskTyped, Tasks
<1>4. ASSUME NEW kind \in {"session", "waits", "works", "reply"}, NEW ref \in SessionRefs,
             NEW reply \in Told
      PROVE  Append(turnTask.updates, Update(kind, ref, reply)) \in Seq(Updates)
  <2>1. Update(kind, ref, reply) \in Updates BY DEF Update, Updates
  <2> QED BY <1>1, <2>1, AppendProperties DEF Tasks
<1>5. CASE LaunchRefused \/ LaunchFails \/ WatchLostTrack
  BY <1>1, <1>2, <1>5 DEF LaunchRefused, LaunchFails, WatchLostTrack, Driving, Ends, TaskTyped,
     Tasks, Outcomes
<1>6. CASE Launch
  <2> DEFINE ref == IF turnTask.ref.id = 0 THEN [bg |-> slot.turn, id |-> 0] ELSE turnTask.ref
  <2>1. /\ turnTask' = [turnTask EXCEPT !.at = "watch", !.ref = ref,
                          !.updates = Append(@, Update("session", ref, 0))]
        /\ turnTask.at = "launch"
    BY <1>6 DEF Launch, Driving
  <2>2. ref \in SessionRefs BY <1>1, TurnBounds DEF SessionRefs
  <2> HIDE DEF ref
  <2>3. Append(turnTask.updates, Update("session", ref, 0)) \in Seq(Updates)
    BY <1>2, <1>4, <2>2
  <2> QED BY <1>1, <2>1, <2>2, <2>3 DEF TaskTyped, Tasks
<1>7. CASE LearnsSession
  <2> DEFINE ref == [turnTask.ref EXCEPT !.id = turnTask.ref.bg]
  <2>1. /\ turnTask' = [turnTask EXCEPT !.ref = ref,
                          !.updates = Append(@, Update("session", ref, 0))]
        /\ turnTask.at \in {"watch", "rewatch"}
    BY <1>7 DEF LearnsSession
  <2>2. ref \in SessionRefs BY <1>1, TurnBounds DEF SessionRefs
  <2> HIDE DEF ref
  <2>3. Append(turnTask.updates, Update("session", ref, 0)) \in Seq(Updates)
    BY <1>2, <1>4, <2>2
  <2> QED BY <1>1, <2>1, <2>2, <2>3 DEF TaskTyped, Tasks
<1>8. CASE WatchFindsGone
  <2>1. Append(turnTask.updates, Update("session", NoSession, 0)) \in Seq(Updates)
    BY <1>2, <1>4
  <2> QED BY <1>1, <1>2, <1>8, <2>1 DEF WatchFindsGone, TaskTyped, Tasks, Outcomes
<1>9. CASE WatchPoll
  <2>1. turnTask.at \in {"watch", "rewatch"} BY <1>9 DEF WatchPoll
  <2>2. \/ Ends("failed", 0) \/ Ends("polled", turnTask.says)
        \/ \E kind \in {"waits", "works"}, waits \in BOOLEAN : turnTask' =
             [turnTask EXCEPT !.waits = waits,
                              !.updates = Append(@, Update(kind, NoSession, 0))]
    BY <1>9 DEF WatchPoll
  <2>3. CASE Ends("failed", 0) \/ Ends("polled", turnTask.says)
    BY <1>1, <1>2, <2>1, <2>3 DEF Ends, TaskTyped, Tasks, Outcomes
  <2>4. CASE \E kind \in {"waits", "works"}, waits \in BOOLEAN : turnTask' =
               [turnTask EXCEPT !.waits = waits,
                                !.updates = Append(@, Update(kind, NoSession, 0))]
    <3>1. PICK kind \in {"waits", "works"}, waits \in BOOLEAN : turnTask' =
             [turnTask EXCEPT !.waits = waits,
                              !.updates = Append(@, Update(kind, NoSession, 0))]
      BY <2>4
    <3>2. Append(turnTask.updates, Update(kind, NoSession, 0)) \in Seq(Updates)
      BY <1>2, <1>4
    <3> QED BY <1>1, <2>1, <3>1, <3>2 DEF TaskTyped, Tasks
  <2> QED BY <2>2, <2>3, <2>4
<1>10. CASE WatchHook
  <2> DEFINE e == Head(turnTask.hooks)
             rest == [turnTask EXCEPT !.hooks = Tail(@)]
  <2>1. turnTask.at \in {"watch", "rewatch"} /\ turnTask.hooks # <<>> BY <1>10 DEF WatchHook
  <2>2. Tail(turnTask.hooks) \in Seq(HookEvents) /\ e \in HookEvents
    BY <1>1, <2>1, HeadTailProperties DEF Tasks
  <2>3. rest \in Tasks /\ rest.at = turnTask.at /\ rest.updates = turnTask.updates
    BY <1>1, <2>2 DEF Tasks
  <2>4. \/ turnTask' = [rest EXCEPT !.updates = Append(@, Update("reply", NoSession, e.reply))]
        \/ turnTask' = [rest EXCEPT !.out = "reply", !.outReply = e.reply]
        \/ turnTask' = [rest EXCEPT !.waits = TRUE,
                          !.updates = Append(@, Update("waits", NoSession, 0))]
        \/ turnTask' = rest
    BY <1>10 DEF WatchHook
  <2>5. e.reply \in Told BY <2>2 DEF HookEvents, Answers, Told
  <2>6. /\ Append(turnTask.updates, Update("reply", NoSession, e.reply)) \in Seq(Updates)
        /\ Append(turnTask.updates, Update("waits", NoSession, 0)) \in Seq(Updates)
    BY <1>2, <1>4, <2>5
  <2> HIDE DEF rest, e
  <2> QED BY <1>1, <2>1, <2>3, <2>4, <2>5, <2>6 DEF TaskTyped, Tasks, Outcomes
<1> QED BY <1>5, <1>6, <1>7, <1>8, <1>9, <1>10

\* A step that leaves the turn's task alone, or puts none in place of it.
LEMMA NoTaskTyped == TypesInv => NoTask \in Tasks
<1>1. 0 \in 0 .. MaxTurns /\ 0 \in Told BY TurnBounds DEF Told
<1>2. <<>> \in Seq(Updates) /\ <<>> \in Seq(HookEvents) BY EmptySeq
<1> QED BY <1>1, <1>2, SessionsTyped DEF NoTask, Tasks, Outcomes

\* The writer's snapshots, and a new one, keep their types.
LEMMA RecordingTyped ==
  ASSUME TypesInv, NEW new \in Snapshots, Records(new)
  PROVE  /\ record' = new /\ record' \in Snapshots /\ disk' \in Snapshots
         /\ writes' \in Seq(Snapshots)
<1>1. Append(writes, new) \in Seq(Snapshots) BY AppendProperties DEF TypesInv, FileTyped
<1> QED BY <1>1 DEF Records, TypesInv, FileTyped

\* What a reply changes.
LEMMA OwnReplyTyped ==
  ASSUME TypesInv, NEW r, OwnReply(r)
  PROVE  /\ SlotTyped' /\ slot'.turn = slot.turn
         /\ ShownTyped'
<1> USE DEF TypesInv, SlotTyped, Slots, ShownTyped
<1>1. SlotTyped' /\ slot'.turn = slot.turn
  <2>1. 0 \in Told /\ "Idle" \in Phases BY TurnBounds DEF Told, Phases
  <2>2. slot' = [IdleSlot EXCEPT !.polled = 0] \/ slot' = [slot EXCEPT !.polled = 0]
    BY DEF OwnReply
  <2>3. IdleSlot \in Slots /\ IdleSlot.turn = slot.turn BY <2>1 DEF IdleSlot
  <2> QED BY <2>1, <2>2, <2>3
<1>2. board' \in [turn : BOOLEAN, waits : BOOLEAN, ended : BOOLEAN]
  <2>1. EndedRow \in [turn : BOOLEAN, waits : BOOLEAN, ended : BOOLEAN]
    <3> DEFINE ended == board.ended \/ board.turn \/ board.waits
    <3>1. ended \in BOOLEAN /\ EndedRow = [NoRow EXCEPT !.ended = ended] BY Zenon DEF EndedRow
    <3> HIDE DEF ended
    <3> QED BY <3>1 DEF NoRow
  <2> QED BY <2>1 DEF OwnReply
<1>3. heard' \in [Answers -> 0 .. 2]
  <2>1. heard' = heard \/ heard' = [heard EXCEPT ![r] = IF @ = 2 THEN 2 ELSE @ + 1]
    BY DEF OwnReply, Delivers
  <2>2. heard \in [Answers -> 0 .. 2] OBVIOUS
  <2> QED BY <2>1, <2>2
<1> QED BY <1>1, <1>2, <1>3

\* An update applied keeps the types.
LEMMA ApplyingKeepsTypes ==
  ASSUME TypesInv, slot.turn # 0, NEW u \in Updates, Applies(slot.turn, u),
         turnTask.updates # <<>>
  PROVE  /\ SlotTyped' /\ TaskTyped' /\ FileTyped' /\ ShownTyped'
         /\ kept' \in Seq(HookEvents) /\ Len(kept') <= MaxKept
<1> DEFINE rest == IF turnTask.updates # <<>> /\ Head(turnTask.updates) = u
                   THEN Tail(turnTask.updates) ELSE turnTask.updates
<1>0. /\ turnTask \in Tasks /\ slot \in Slots /\ record \in Snapshots /\ u.ref \in SessionRefs
      /\ (turnTask.at = "none") = (slot.turn = 0) /\ record.running = (slot.turn # 0)
  BY DEF TypesInv, TaskTyped, SlotTyped, FileTyped, Updates
<1>1. rest \in Seq(Updates)
  BY <1>0, HeadTailProperties DEF Tasks
<1>2. CASE u.kind = "session"
  <2> DEFINE more == turnTask.hooks \o NotBefore(Forwarded(u.ref), slot.turn)
  <2>1. /\ Records([record EXCEPT !.session = u.ref])
        /\ kept' = KeptAfter(u.ref)
        /\ turnTask' = [turnTask EXCEPT !.updates = rest, !.hooks = more]
        /\ UNCHANGED <<slot, board, heard>>
    BY <1>2 DEF Applies, IsCurrentTurn
  <2>2. NotBefore(Forwarded(u.ref), slot.turn) \in Seq(HookEvents)
        /\ KeptAfter(u.ref) \in Seq(HookEvents) /\ Len(KeptAfter(u.ref)) <= MaxKept
    BY ForwardingTyped DEF TypesInv
  <2>3. more \in Seq(HookEvents) BY <1>0, <2>2, ConcatProperties DEF Tasks
  <2>4. [record EXCEPT !.session = u.ref] \in Snapshots
        /\ [record EXCEPT !.session = u.ref].running = record.running
    BY <1>0 DEF Snapshots
  <2> HIDE DEF rest, more
  <2>5. TaskTyped' BY <1>0, <1>1, <2>1, <2>3 DEF TaskTyped, Tasks
  <2>6. FileTyped' BY <1>0, <2>1, <2>4, RecordingTyped DEF FileTyped
  <2>7. SlotTyped' /\ ShownTyped' BY <2>1 DEF SlotTyped, ShownTyped, TypesInv
  <2> QED BY <2>1, <2>2, <2>5, <2>6, <2>7
<1>3. CASE u.kind # "session"
  <2>1. /\ turnTask' = [turnTask EXCEPT !.updates = rest]
        /\ UNCHANGED <<record, disk, writes, kept>>
    BY <1>3 DEF Applies, IsCurrentTurn
  <2> HIDE DEF rest
  <2>2. SlotTyped' /\ slot'.turn = slot.turn /\ ShownTyped'
    <3>1. CASE u.kind = "waits"
      <4>1. /\ slot' = [slot EXCEPT !.phase = "NeedsYou"]
            /\ board' = WaitingRow /\ UNCHANGED heard
        BY <3>1 DEF Applies, IsCurrentTurn
      <4> QED BY <1>0, <4>1 DEF TypesInv, SlotTyped, Slots, Phases, ShownTyped, WaitingRow
    <3>2. CASE u.kind = "works"
      <4>1. /\ slot' = [slot EXCEPT !.phase = "Working"]
            /\ board' = WorkingRow /\ UNCHANGED heard
        BY <3>2 DEF Applies, IsCurrentTurn
      <4> QED BY <1>0, <4>1 DEF TypesInv, SlotTyped, Slots, Phases, ShownTyped, WorkingRow
    <3>3. CASE u.kind = "reply"
      <4>1. OwnReply(u.reply) BY <3>3 DEF Applies, IsCurrentTurn
      <4> QED BY <4>1, OwnReplyTyped
    <3> QED BY <1>3, <3>1, <3>2, <3>3 DEF Updates
  <2>3. TaskTyped' BY <1>0, <1>1, <2>1, <2>2 DEF TaskTyped, Tasks
  <2>4. FileTyped' BY <1>0, <2>1, <2>2 DEF FileTyped, TypesInv
  <2> QED BY <2>1, <2>2, <2>3, <2>4 DEF TypesInv, EventsTyped
<1> QED BY <1>2, <1>3

\* The counts keep their types: a turn starts, or is watched again, only
\* within the budget.
LEMMA CountsKeepTypes == ASSUME TypesInv, [TurnsNext]_turnVars PROVE CountsTyped'
<1>1. UNCHANGED budget
  BY DEF TurnsNext, turnVars, Write, WriteFails, SendChecks, SendAsks, SendFindsOwnWork, StartTurn,
     LaunchRefused, LaunchFails, Launch, StrayLaunches, StrayReports, LearnsSession, WatchHook,
     WatchPoll, WatchFindsGone, WatchLostTrack, ApplyUpdate, FinishTurn, GhostRuns, HookArrives,
     HookWhileIdle, HookEndsOwnWork, ListIdle, ListingSeen, StopTurn, DriverStops, StopAsksIdle,
     StopIdleAnswered, StopIdleClears, ResetSession, HarnessReplies, HarnessAsks, HarnessGoesOn,
     HarnessWorksOnItsOwn, DaemonDies, driverFrame, harnessFrame, lifeVars
<1>2. \/ UNCHANGED generations
      \/ generations < budget.turns /\ generations' = generations + 1
  <2>1. CASE StartTurn BY <2>1 DEF StartTurn, Spawns
  <2>2. CASE DaemonDies BY <2>2 DEF DaemonDies
  <2>3. CASE ~StartTurn /\ ~DaemonDies
    BY <2>3 DEF TurnsNext, turnVars, Write, WriteFails, SendChecks, SendAsks, SendFindsOwnWork,
     LaunchRefused, LaunchFails, Launch, StrayLaunches, StrayReports, LearnsSession, WatchHook,
     WatchPoll, WatchFindsGone, WatchLostTrack, ApplyUpdate, FinishTurn, GhostRuns, HookArrives,
     HookWhileIdle, HookEndsOwnWork, ListIdle, ListingSeen, StopTurn, DriverStops, StopAsksIdle,
     StopIdleAnswered, StopIdleClears, ResetSession, HarnessReplies, HarnessAsks, HarnessGoesOn,
     HarnessWorksOnItsOwn, driverFrame, harnessFrame
  <2> QED BY <2>1, <2>2, <2>3
<1>3. budget.turns \in 1 .. MaxTurns BY TurnBounds DEF TypesInv, CountsTyped
<1> QED BY <1>1, <1>2, <1>3, TurnBounds DEF TypesInv, CountsTyped

\* Keeping one more event keeps at most as many as there is room for.
LEMMA KeepingOneMoreTyped ==
  ASSUME NEW X, NEW q \in Seq(X), Len(q) <= MaxKept, NEW from \in 1 .. Len(q) + 1, NEW e \in X
  PROVE  /\ Keep(SubSeq(q, from, Len(q)), e) \in Seq(X)
         /\ Len(Keep(SubSeq(q, from, Len(q)), e)) <= MaxKept
<1> DEFINE t == SubSeq(q, from, Len(q))
           r == IF Len(t) = MaxKept THEN Tail(t) ELSE t
<1>0. Len(q) \in Nat /\ DOMAIN q = 1 .. Len(q) /\ MaxKept \in Nat \ {0}
  BY LenProperties, TurnBounds
<1>1. t \in Seq(X) /\ Len(t) <= Len(q) /\ Len(t) \in Nat
  <2>1. from \in Int /\ Len(q) \in Int /\ \A i \in from .. Len(q) : q[i] \in X
    BY <1>0, ElementOfSeq
  <2>2. t \in Seq(X) /\ Len(t) = (IF from <= Len(q) THEN Len(q) - from + 1 ELSE 0)
    BY <2>1, SubSeqProperties
  <2> HIDE DEF t
  <2> QED BY <1>0, <2>1, <2>2
<1> HIDE DEF t
<1>2. r \in Seq(X) /\ Len(r) < MaxKept
  <2>1. CASE Len(t) = MaxKept
    <3>1. t # <<>> BY <1>0, <2>1, EmptySeq
    <3>2. Tail(t) \in Seq(X) /\ Len(Tail(t)) = Len(t) - 1 BY <1>1, <3>1, HeadTailProperties
    <3> QED BY <1>0, <2>1, <3>2
  <2>2. CASE Len(t) # MaxKept BY <1>0, <1>1, <2>2
  <2> QED BY <2>1, <2>2
<1> HIDE DEF r
<1>3. Append(r, e) \in Seq(X) /\ Len(Append(r, e)) = Len(r) + 1 /\ Len(r) \in Nat
  BY <1>2, AppendProperties, LenProperties
<1>4. Keep(t, e) = Append(r, e) BY DEF Keep, r
<1> USE DEF t
<1> QED BY <1>0, <1>2, <1>3, <1>4

\* A section an aborted task still runs changes nothing but that it ran.
LEMMA GhostOnlyGoes ==
  ASSUME LetGoInv, GhostRuns
  PROVE  UNCHANGED <<slot, turnTask, record, disk, writes, writeLost, kept, board, heard>>
BY DEF GhostRuns, Applies, IsCurrentTurn, LetGoInv, GhostIsOld

\* The events on their way, and those kept, keep their types.
LEMMA EventsKeepTypes ==
  ASSUME LetGoInv, TypesInv, [TurnsNext]_turnVars PROVE EventsTyped'
<1> USE DEF EventsTyped
<1>0. EventsTyped BY DEF TypesInv
<1>1. CASE \/ Write \/ WriteFails \/ SendChecks \/ SendAsks \/ SendFindsOwnWork
           \/ StrayLaunches \/ StrayReports \/ FinishTurn \/ ListIdle \/ ListingSeen \/ StopTurn
           \/ DriverStops \/ StopAsksIdle \/ StopIdleAnswered \/ StopIdleClears \/ ResetSession
  BY <1>0, <1>1 DEF Write, WriteFails, SendChecks, SendAsks, SendFindsOwnWork, StrayLaunches,
     StrayReports, FinishTurn, ListIdle, ListingSeen, StopTurn, DriverStops, StopAsksIdle,
     StopIdleAnswered, StopIdleClears, ResetSession, driverFrame, eventVars
<1>2. CASE \/ LaunchRefused \/ LaunchFails \/ Launch \/ LearnsSession \/ WatchHook \/ WatchPoll
           \/ WatchFindsGone \/ WatchLostTrack
  <2>1. UNCHANGED driverFrame BY <1>2, DriverKeepsTask
  <2> QED BY <1>0, <2>1 DEF driverFrame, eventVars
<1>3. CASE HookWhileIdle \/ HookEndsOwnWork \/ HarnessGoesOn \/ HarnessWorksOnItsOwn
           \/ UNCHANGED turnVars
  BY <1>0, <1>3 DEF HookWhileIdle, HookEndsOwnWork, HarnessGoesOn, HarnessWorksOnItsOwn,
     harnessFrame, turnVars, eventVars
<1>4. CASE HarnessReplies \/ HarnessAsks
  <2>1. \A bg \in harness.open, kind \in {"stop", "prompt"} :
          Works(bg) => Event(kind, bg) \in HookEvents
    BY TurnBounds DEF TypesInv, HarnessTyped, Places, Works, Event, HookEvents, Told, Answers
  <2>2. PICK bg \in harness.open, kind \in {"stop", "prompt"} :
          /\ Works(bg) /\ UNCHANGED <<kept, reading>>
          /\ flying' = flying \cup {Event(kind, bg)} \/ UNCHANGED flying
    BY <1>4 DEF HarnessReplies, HarnessAsks, harnessFrame
  <2> QED BY <1>0, <2>1, <2>2
<1>5. CASE ApplyUpdate
  <2>1. Head(turnTask.updates) \in Updates
    BY <1>5 DEF ApplyUpdate, TypesInv, TaskTyped, Tasks
  <2>2. kept' \in Seq(HookEvents) /\ Len(kept') <= MaxKept
    BY <1>5, <2>1, ApplyingKeepsTypes DEF ApplyUpdate
  <2> QED BY <1>0, <1>5, <2>2 DEF ApplyUpdate
<1>6. CASE GhostRuns
  BY <1>0, <1>6, GhostOnlyGoes DEF GhostRuns
<1>7. CASE HookArrives
  <2>1. PICK e \in flying :
          LET got == [e EXCEPT !.at = ReceivedAt] IN
          /\ flying' = flying \ {e}
          /\ \/ UNCHANGED <<kept, reading>>
             \/ reading' = reading \cup {got} /\ UNCHANGED kept
             \/ /\ UNCHANGED reading
                /\ \E from \in 1 .. Len(kept) + 1 :
                     kept' = Keep(SubSeq(kept, from, Len(kept)), got)
    BY <1>7 DEF HookArrives
  <2> DEFINE got == [e EXCEPT !.at = ReceivedAt]
  <2>2. ReceivedAt \in 0 .. 2 * MaxTurns + 1
    BY TurnBounds DEF ReceivedAt, TypesInv, CountsTyped
  <2>3. got \in HookEvents BY <1>0, <2>2 DEF HookEvents
  <2> HIDE DEF got
  <2>4. ASSUME NEW from \in 1 .. Len(kept) + 1,
               kept' = Keep(SubSeq(kept, from, Len(kept)), got)
        PROVE  kept' \in Seq(HookEvents) /\ Len(kept') <= MaxKept
    BY <1>0, <2>3, <2>4, KeepingOneMoreTyped
  <2> USE DEF got
  <2> QED BY <1>0, <2>1, <2>3, <2>4
<1>8. CASE StartTurn
  <2>1. kept' = kept \/ \E ref : kept' = KeptAfter(ref) BY <1>8 DEF StartTurn, Spawns
  <2>2. UNCHANGED <<flying, reading>> BY <1>8 DEF StartTurn
  <2>3. \A ref : KeptAfter(ref) \in Seq(HookEvents) /\ Len(KeptAfter(ref)) <= MaxKept
    BY <1>0, ForwardingTyped
  <2> QED BY <1>0, <2>1, <2>2, <2>3
<1>9. CASE DaemonDies
  <2>1. kept' = <<>> /\ flying' = {} /\ reading' = {} BY <1>9 DEF DaemonDies
  <2> QED BY <2>1, TurnBounds, EmptySeq
<1> QED
  BY <1>1, <1>2, <1>3, <1>4, <1>5, <1>6, <1>7, <1>8, <1>9 DEF TurnsNext

\* The harness and the launches that go on keep their types.
LEMMA LaunchingTyped ==
  ASSUME TypesInv, NEW g \in Turns, NEW ref \in SessionRefs, Launches(g, ref, g)
  PROVE  harness' \in Places
<1> DEFINE bg == IF ref.id = 0 THEN g ELSE ref.bg
<1>1. bg \in Turns BY TurnBounds DEF SessionRefs, Turns
<1>2. harness' = [harness EXCEPT !.open = @ \cup {bg}, !.work[bg] = g, !.waits = @ \ {bg}]
  BY DEF Launches
<1>3. g \in Told BY TurnBounds DEF Turns, Told
<1> HIDE DEF bg
<1> QED BY <1>1, <1>2, <1>3 DEF TypesInv, HarnessTyped, Places

\* A session that is stopped works no longer.
LEMMA StoppedTyped == ASSUME TypesInv, NEW bg PROVE Stopped(bg) \in Places
<1>1. harness \in Places /\ 0 \in Told BY TurnBounds DEF TypesInv, HarnessTyped, Told
<1>2. Stopped(bg) = [harness EXCEPT !.work[bg] = 0, !.waits = @ \ {bg}] BY DEF Stopped
<1> QED BY <1>1, <1>2 DEF Places

\* A stopped turn leaves its launch behind.
LEMMA AbortedTyped ==
  ASSUME TypesInv, slot.turn # 0, Aborted
  PROVE  strays' \subseteq [gen : Turns, ref : SessionRefs, started : BOOLEAN]
<1>1. slot.turn \in Turns BY TurnBounds DEF TypesInv, SlotTyped, Slots, Turns
<1>2. strays' = strays \cup (IF turnTask.at = "launch"
                             THEN {[gen |-> slot.turn, ref |-> turnTask.ref, started |-> FALSE]}
                             ELSE {})
  BY Zenon DEF Aborted
<1>3. turnTask.ref \in SessionRefs BY SessionsTyped
<1>4. [gen |-> slot.turn, ref |-> turnTask.ref, started |-> FALSE]
        \in [gen : Turns, ref : SessionRefs, started : BOOLEAN]
  BY <1>1, <1>3
<1> QED BY <1>2, <1>4 DEF TypesInv, HarnessTyped

\* Every step keeps the types of the harness and of the launches that go on.
LEMMA HarnessKeepsTypes ==
  ASSUME TypesInv, [TurnsNext]_turnVars PROVE HarnessTyped'
<1> USE DEF HarnessTyped
<1>0. HarnessTyped BY DEF TypesInv
<1>1. CASE \/ Write \/ WriteFails \/ SendChecks \/ SendAsks \/ SendFindsOwnWork
           \/ FinishTurn \/ ListIdle \/ ListingSeen \/ StopAsksIdle \/ StopIdleAnswered
           \/ StopIdleClears \/ ResetSession
  BY <1>0, <1>1 DEF Write, WriteFails, SendChecks, SendAsks, SendFindsOwnWork,
     FinishTurn, ListIdle, ListingSeen, StopAsksIdle,
     StopIdleAnswered, StopIdleClears, ResetSession, taskVars
<1>2. CASE \/ LaunchRefused \/ LaunchFails \/ LearnsSession \/ WatchHook \/ WatchPoll
           \/ WatchFindsGone \/ WatchLostTrack
  BY <1>0, <1>2 DEF LaunchRefused, LaunchFails, LearnsSession, WatchHook, WatchPoll,
     WatchFindsGone, WatchLostTrack
<1>3. CASE ApplyUpdate \/ GhostRuns \/ HookArrives \/ HookWhileIdle \/ HookEndsOwnWork
           \/ UNCHANGED turnVars
  BY <1>0, <1>3 DEF ApplyUpdate, GhostRuns, HookArrives, HookWhileIdle, HookEndsOwnWork,
     turnVars, taskVars
<1>4. CASE HarnessReplies \/ HarnessAsks \/ HarnessGoesOn \/ HarnessWorksOnItsOwn
  <2>1. UNCHANGED strays
    BY <1>4 DEF HarnessReplies, HarnessAsks, HarnessGoesOn, HarnessWorksOnItsOwn, harnessFrame,
       taskVars
  <2>2. harness \in Places BY <1>0
  <2>3. CASE HarnessReplies
    <3>1. PICK bg \in harness.open :
            /\ Works(bg)
            /\ harness' = [harness EXCEPT !.work[bg] = 0,
                                          !.replied = @ \cup {harness.work[bg]}]
      BY <2>3 DEF HarnessReplies
    <3>2. harness.work[bg] \in Answers
      BY <2>2, <3>1, TurnBounds DEF Places, Works, Told, Answers
    <3>3. 0 \in Told /\ harness.replied \cup {harness.work[bg]} \subseteq Answers
      BY <2>2, <3>2, TurnBounds DEF Places, Told
    <3>4. harness' \in Places BY <2>2, <3>1, <3>3 DEF Places
    <3> QED BY <2>1, <3>4, <1>0
  <2>4. CASE HarnessAsks
    <3>1. PICK bg \in harness.open :
            harness' = [harness EXCEPT !.waits = @ \cup {bg}, !.asks = @ + 1]
      BY <2>4 DEF HarnessAsks
    <3>2. bg \in Turns /\ harness.asks + 1 \in Nat BY <2>2 DEF Places
    <3>3. harness' \in Places BY <2>2, <3>1, <3>2 DEF Places
    <3> QED BY <2>1, <3>3, <1>0
  <2>5. CASE HarnessGoesOn
    BY <2>1, <2>2, <2>5, <1>0 DEF HarnessGoesOn, Places
  <2>6. CASE HarnessWorksOnItsOwn
    <3>1. PICK bg \in harness.open :
            /\ harness.own < budget.own
            /\ harness' = [harness EXCEPT !.own = @ + 1,
                             !.work[bg] = MaxTurns + harness.own + 1]
      BY <2>6 DEF HarnessWorksOnItsOwn
    <3>2. budget.own \in 0 .. MaxOwn BY TurnBounds DEF TypesInv, CountsTyped
    <3>3. harness.own \in 0 .. MaxOwn BY <2>2 DEF Places
    <3>4. harness.own + 1 \in 0 .. MaxOwn /\ MaxTurns + harness.own + 1 \in Told
      BY <3>1, <3>2, <3>3, TurnBounds DEF Told
    <3> QED BY <2>1, <2>2, <3>1, <3>4, <1>0 DEF Places
  <2> QED BY <1>4, <2>3, <2>4, <2>5, <2>6
<1>5. CASE Launch
  <2>1. slot.turn # 0 /\ Launches(slot.turn, turnTask.ref, slot.turn) /\ UNCHANGED strays
    BY <1>5 DEF Launch, Driving, TypesInv, TaskTyped
  <2>2. slot.turn \in Turns BY <2>1, TurnBounds DEF TypesInv, SlotTyped, Slots, Turns
  <2> QED BY <1>0, <2>1, <2>2, LaunchingTyped, SessionsTyped
<1>6. CASE StrayLaunches
  <2>1. PICK l \in strays :
          /\ strays' = (strays \ {l}) \cup {[l EXCEPT !.started = TRUE]}
          /\ Launches(l.gen, l.ref, l.gen)
    BY <1>6 DEF StrayLaunches
  <2>2. l \in [gen : Turns, ref : SessionRefs, started : BOOLEAN] BY <1>0
  <2> QED BY <1>0, <2>1, <2>2, LaunchingTyped
<1>7. CASE StrayReports
  <2>1. \E bg : harness' = Stopped(bg) BY <1>7 DEF StrayReports, StrayStops
  <2>2. strays' \subseteq strays BY <1>7 DEF StrayReports
  <2> QED BY <1>0, <2>1, <2>2, StoppedTyped
<1>8. CASE DriverStops
  <2>1. UNCHANGED strays /\ (harness' = harness \/ harness' = Stopped(stopping.ref.bg))
    BY <1>8 DEF DriverStops, taskVars
  <2> QED BY <1>0, <2>1, StoppedTyped
<1>9. CASE StartTurn
  <2>1. UNCHANGED harness BY <1>9 DEF StartTurn
  <2>2. UNCHANGED strays \/ (slot.turn # 0 /\ Aborted) BY <1>9 DEF StartTurn, taskVars
  <2> QED BY <1>0, <2>1, <2>2, AbortedTyped
<1>10. CASE StopTurn
  <2>1. UNCHANGED harness /\ slot.turn # 0 /\ Aborted BY <1>10 DEF StopTurn
  <2> QED BY <1>0, <2>1, AbortedTyped
<1>11. CASE DaemonDies
  BY <1>0, <1>11 DEF DaemonDies
<1> QED
  BY <1>1, <1>2, <1>3, <1>4, <1>5, <1>6, <1>7, <1>8, <1>9, <1>10, <1>11 DEF TurnsNext

\* The requests, the stops and the listings keep their types.
LEMMA CommandsKeepTypes ==
  ASSUME TypesInv, [TurnsNext]_turnVars PROVE CommandsTyped'
<1> USE DEF CommandsTyped
<1>0. /\ CommandsTyped /\ record.session \in SessionRefs /\ NoSession \in SessionRefs
      /\ record.session.bg \in 0 .. MaxTurns /\ 0 \in 0 .. MaxTurns
  BY SessionsTyped, TurnBounds DEF TypesInv, SessionRefs
<1>1. CASE \/ Write \/ WriteFails \/ StrayLaunches \/ StrayReports \/ FinishTurn \/ ResetSession
           \/ ApplyUpdate \/ GhostRuns \/ HookArrives \/ HookWhileIdle \/ HookEndsOwnWork
           \/ HarnessReplies \/ HarnessAsks \/ HarnessGoesOn \/ HarnessWorksOnItsOwn
           \/ UNCHANGED turnVars
  <2>1. UNCHANGED commandVars
    BY <1>1 DEF Write, WriteFails, StrayLaunches, StrayReports, FinishTurn, ResetSession,
       ApplyUpdate, GhostRuns, HookArrives, HookWhileIdle, HookEndsOwnWork, HarnessReplies,
       HarnessAsks, HarnessGoesOn, HarnessWorksOnItsOwn, driverFrame, harnessFrame, turnVars
  <2> QED BY <1>0, <2>1 DEF commandVars
<1>2. CASE \/ LaunchRefused \/ LaunchFails \/ Launch \/ LearnsSession \/ WatchHook \/ WatchPoll
           \/ WatchFindsGone \/ WatchLostTrack
  <2>1. UNCHANGED driverFrame BY <1>2, DriverKeepsTask
  <2> QED BY <1>0, <2>1 DEF driverFrame, commandVars
<1>3. CASE SendChecks \/ SendAsks \/ SendFindsOwnWork \/ StartTurn
  <2>1. UNCHANGED <<stopping, listed>>
    BY <1>3 DEF SendChecks, SendAsks, SendFindsOwnWork, StartTurn
  <2>2. \E s : \E at \in {"none", "ask", "own", "second"}, bg \in 0 .. MaxTurns : Goes(s, at, bg)
    <3>1. CASE SendChecks BY <1>0, <3>1 DEF SendChecks
    <3>2. CASE SendAsks BY <1>0, <3>2 DEF SendAsks
    <3>3. CASE SendFindsOwnWork BY <1>0, <3>3 DEF SendFindsOwnWork
    <3>4. CASE StartTurn BY <1>0, <3>4 DEF StartTurn
    <3> QED BY <1>3, <3>1, <3>2, <3>3, <3>4
  <2>3. PICK s : \E at \in {"none", "ask", "own", "second"}, bg \in 0 .. MaxTurns : Goes(s, at, bg)
    BY <2>2
  <2>4. PICK at \in {"none", "ask", "own", "second"}, bg \in 0 .. MaxTurns : Goes(s, at, bg)
    BY <2>3
  <2>5. [at |-> at, bg |-> bg] \in [at : {"none", "ask", "own", "second"}, bg : 0 .. MaxTurns]
    OBVIOUS
  <2>6. sending' = [sending EXCEPT ![s] = [at |-> at, bg |-> bg]] BY <2>4 DEF Goes
  <2>7. sending' \in [Senders -> [at : {"none", "ask", "own", "second"}, bg : 0 .. MaxTurns]]
    <3> HIDE DEF CommandsTyped
    <3>1. sending \in [Senders -> [at : {"none", "ask", "own", "second"}, bg : 0 .. MaxTurns]]
      BY <1>0 DEF CommandsTyped
    <3> QED BY <2>5, <2>6, <3>1
  <2> QED BY <1>0, <2>1, <2>7
<1>4. CASE ListIdle \/ ListingSeen
  <2>1. UNCHANGED <<sending, stopping>> BY <1>4 DEF ListIdle, ListingSeen
  <2>2. listed' \in Phases \cup {"none"} BY <1>4, ListedTyped DEF ListIdle, ListingSeen
  <2> QED BY <1>0, <2>1, <2>2
<1>5. CASE StopTurn \/ DriverStops \/ StopAsksIdle \/ StopIdleAnswered \/ StopIdleClears
  <2>1. UNCHANGED <<sending, listed>>
    BY <1>5 DEF StopTurn, DriverStops, StopAsksIdle, StopIdleAnswered, StopIdleClears
  <2>2. \E at \in {"none", "stop", "ask", "idle", "clear"}, ref \in SessionRefs :
          StopGoes(at, ref)
    <3>1. CASE StopTurn BY <3>1, SessionsTyped DEF StopTurn
    <3>2. CASE DriverStops BY <1>0, <3>2 DEF DriverStops
    <3>3. CASE StopAsksIdle BY <1>0, <3>3 DEF StopAsksIdle
    <3>4. CASE StopIdleAnswered BY <1>0, <3>4 DEF StopIdleAnswered
    <3>5. CASE StopIdleClears BY <1>0, <3>5 DEF StopIdleClears
    <3> QED BY <1>5, <3>1, <3>2, <3>3, <3>4, <3>5
  <2> QED BY <1>0, <2>1, <2>2 DEF StopGoes
<1>6. CASE DaemonDies
  <2>1. sending' = NobodySends /\ listed' = "none" /\ StopGoes("none", NoSession)
    BY <1>6 DEF DaemonDies
  <2> QED BY <1>0, <2>1 DEF NobodySends, StopGoes
<1> QED BY <1>1, <1>2, <1>3, <1>4, <1>5, <1>6 DEF TurnsNext

\* The rows the sections show.
LEMMA RowsTyped ==
  ASSUME TypesInv
  PROVE  {NoRow, TurnRow, WaitingRow, WorkingRow}
           \subseteq [turn : BOOLEAN, waits : BOOLEAN, ended : BOOLEAN]
<1>1. NoRow \in [turn : BOOLEAN, waits : BOOLEAN, ended : BOOLEAN] BY DEF NoRow
<1>2. TurnRow \in [turn : BOOLEAN, waits : BOOLEAN, ended : BOOLEAN] BY <1>1 DEF TurnRow
<1>3. board \in [turn : BOOLEAN, waits : BOOLEAN, ended : BOOLEAN] BY DEF TypesInv, ShownTyped
<1>4. WaitingRow \in [turn : BOOLEAN, waits : BOOLEAN, ended : BOOLEAN] BY <1>3 DEF WaitingRow
<1>5. WorkingRow \in [turn : BOOLEAN, waits : BOOLEAN, ended : BOOLEAN] BY <1>3 DEF WorkingRow
<1> QED BY <1>1, <1>2, <1>4, <1>5

\* What a listing shows of the slot and of the row.
LEMMA ListingTyped ==
  ASSUME TypesInv, NEW phase, FollowsListing(phase)
  PROVE  SlotTyped' /\ slot'.turn = slot.turn
         /\ board' \in [turn : BOOLEAN, waits : BOOLEAN, ended : BOOLEAN]
<1>0. slot \in Slots /\ board \in [turn : BOOLEAN, waits : BOOLEAN, ended : BOOLEAN]
  BY DEF TypesInv, SlotTyped, ShownTyped
<1>1. \/ slot' \in {slot, IdleSlot, [slot EXCEPT !.phase = "NeedsYou"],
                    [slot EXCEPT !.phase = "Idle", !.ownWork = TRUE]}
  BY DEF FollowsListing, EndsIdle
<1>2. board' \in {board, NoRow, WorkingRow, TurnRow, WaitingRow}
  BY DEF FollowsListing, EndsIdle
<1>3. SlotTyped' /\ slot'.turn = slot.turn
  BY <1>0, <1>1 DEF SlotTyped, Slots, IdleSlot, Phases
<1>4. board' \in [turn : BOOLEAN, waits : BOOLEAN, ended : BOOLEAN]
  BY <1>0, <1>2, RowsTyped
<1> QED BY <1>3, <1>4

\* The turn, its task and the file's record keep their types together.
TurnTyped == SlotTyped /\ TaskTyped /\ FileTyped /\ ShownTyped
\* Steps that leave them alone.
LEMMA OthersKeepTurn ==
  ASSUME LetGoInv, TypesInv,
         \/ SendChecks \/ SendAsks \/ StrayLaunches \/ StrayReports \/ ListIdle \/ StopAsksIdle
         \/ DriverStops \/ GhostRuns \/ HarnessReplies \/ HarnessAsks \/ HarnessGoesOn
         \/ HarnessWorksOnItsOwn \/ UNCHANGED turnVars
  PROVE  TurnTyped'
<1>1. UNCHANGED <<slot, turnTask, record, disk, writes, board, heard>>
  <2>1. CASE GhostRuns BY <2>1, GhostOnlyGoes
  <2>2. CASE ~GhostRuns
    BY <2>2 DEF SendChecks, SendAsks, StrayLaunches, StrayReports, ListIdle, StopAsksIdle,
       DriverStops, HarnessReplies, HarnessAsks, HarnessGoesOn, HarnessWorksOnItsOwn,
       driverFrame, harnessFrame, turnVars, taskVars, storeVars, talkVars
  <2> QED BY <2>1, <2>2
<1> QED BY <1>1 DEF TypesInv, TurnTyped, SlotTyped, TaskTyped, FileTyped, ShownTyped

\* The writer and the driver.
LEMMA WriterKeepsTurn ==
  ASSUME TypesInv, Write \/ WriteFails PROVE TurnTyped'
<1>0. writes \in Seq(Snapshots) /\ Len(writes) \in Nat /\ DOMAIN writes = 1 .. Len(writes)
  BY LenProperties DEF TypesInv, FileTyped
<1>1. UNCHANGED <<slot, turnTask, record, board, heard>>
  BY DEF Write, WriteFails, taskVars, talkVars
<1>2. disk' \in Snapshots /\ writes' \in Seq(Snapshots)
  <2>1. CASE Write
    <3>1. PICK i \in DOMAIN writes : disk' = writes[i] /\ writes' = ToWriteAfter(i)
      BY <2>1 DEF Write
    <3>2. writes[i] \in Snapshots BY <1>0, ElementOfSeq
    <3>3. SubSeq(writes, i + 1, Len(writes)) \in Seq(Snapshots)
      <4>1. i + 1 \in Int /\ Len(writes) \in Int
            /\ \A j \in i + 1 .. Len(writes) : writes[j] \in Snapshots
        BY <1>0, ElementOfSeq
      <4> QED BY <4>1, SubSeqProperties
    <3> QED BY <3>1, <3>2, <3>3 DEF ToWriteAfter
  <2>2. CASE WriteFails
    <3>1. PICK i \in DOMAIN writes : writes' = RemoveAt(writes, i) /\ UNCHANGED disk
      BY <2>2 DEF WriteFails
    <3>2. RemoveAt(writes, i) \in Seq(Snapshots)
      <4>1. i \in Int /\ i - 1 \in Int /\ i + 1 \in Int /\ Len(writes) \in Int BY <1>0
      <4>2. \A j \in 1 .. i - 1 : writes[j] \in Snapshots BY <1>0, ElementOfSeq
      <4>3. \A j \in i + 1 .. Len(writes) : writes[j] \in Snapshots BY <1>0, ElementOfSeq
      <4>4. SubSeq(writes, 1, i - 1) \in Seq(Snapshots) BY <4>1, <4>2, SubSeqProperties
      <4>5. SubSeq(writes, i + 1, Len(writes)) \in Seq(Snapshots)
        BY <4>1, <4>3, SubSeqProperties
      <4> QED BY <4>4, <4>5, ConcatProperties DEF RemoveAt
    <3> QED BY <3>1, <3>2 DEF TypesInv, FileTyped
  <2> QED BY <2>1, <2>2
<1> QED BY <1>1, <1>2 DEF TypesInv, TurnTyped, SlotTyped, TaskTyped, FileTyped, ShownTyped

\* The steps between two turns that show something else of the session.
LEMMA ShowingKeepsTurn ==
  ASSUME TypesInv,
         \/ SendFindsOwnWork \/ ListingSeen \/ StopIdleAnswered \/ StopIdleClears
         \/ HookWhileIdle \/ HookEndsOwnWork
  PROVE  TurnTyped'
<1>0. slot \in Slots /\ board \in [turn : BOOLEAN, waits : BOOLEAN, ended : BOOLEAN]
  BY DEF TypesInv, SlotTyped, ShownTyped
<1>1. UNCHANGED <<turnTask, record, disk, writes>>
  BY DEF SendFindsOwnWork, ListingSeen, StopIdleAnswered, StopIdleClears, HookWhileIdle,
     HookEndsOwnWork, storeVars
<1>2. SlotTyped' /\ slot'.turn = slot.turn /\ ShownTyped'
  <2>1. CASE HookWhileIdle
    <3>1. PICK e \in reading :
            \/ OwnReply(e.reply)
            \/ slot' = [slot EXCEPT !.phase = "NeedsYou"] /\ board' = WaitingRow /\ UNCHANGED heard
            \/ UNCHANGED <<slot, board, heard>>
      BY <2>1 DEF HookWhileIdle
    <3>2. CASE OwnReply(e.reply) BY <3>2, OwnReplyTyped
    <3>3. CASE slot' = [slot EXCEPT !.phase = "NeedsYou"] /\ board' = WaitingRow
               /\ UNCHANGED heard
      BY <1>0, <3>3 DEF TypesInv, SlotTyped, ShownTyped, Slots, Phases, WaitingRow
    <3>4. CASE UNCHANGED <<slot, board, heard>>
      BY <3>4 DEF TypesInv, SlotTyped, ShownTyped
    <3> QED BY <3>1, <3>2, <3>3, <3>4
  <2>2. CASE ListingSeen \/ StopIdleAnswered
    <3>1. UNCHANGED heard BY <2>2 DEF ListingSeen, StopIdleAnswered, talkVars
    <3>2. (\E phase : FollowsListing(phase)) \/ UNCHANGED <<slot, board>>
      BY <2>2 DEF ListingSeen, StopIdleAnswered
    <3>3. CASE \E phase : FollowsListing(phase)
      BY <3>1, <3>3, ListingTyped DEF TypesInv, ShownTyped
    <3>4. CASE UNCHANGED <<slot, board>>
      BY <3>1, <3>4 DEF TypesInv, SlotTyped, ShownTyped
    <3> QED BY <3>2, <3>3, <3>4
  <2>3. CASE SendFindsOwnWork \/ StopIdleClears \/ HookEndsOwnWork
    <3>1. UNCHANGED heard BY <2>3 DEF SendFindsOwnWork, StopIdleClears, HookEndsOwnWork, talkVars
    <3>2. slot' \in {slot, IdleSlot, [slot EXCEPT !.phase = "Idle", !.ownWork = TRUE]}
      BY <2>3 DEF SendFindsOwnWork, ShowsOwnWork, StopIdleClears, HookEndsOwnWork, EndsIdle
    <3>3. board' \in {board, NoRow, TurnRow}
      BY <2>3 DEF SendFindsOwnWork, ShowsOwnWork, StopIdleClears, HookEndsOwnWork, EndsIdle
    <3>4. SlotTyped' /\ slot'.turn = slot.turn
      BY <1>0, <3>2 DEF SlotTyped, Slots, IdleSlot, Phases
    <3>5. board' \in [turn : BOOLEAN, waits : BOOLEAN, ended : BOOLEAN]
      BY <1>0, <3>3, RowsTyped
    <3> QED BY <3>1, <3>4, <3>5 DEF TypesInv, ShownTyped
  <2> QED BY <2>1, <2>2, <2>3
<1> QED BY <1>1, <1>2 DEF TypesInv, TurnTyped, TaskTyped, FileTyped

\* A hook event that arrives, an update, and the driver.
LEMMA TaskKeepsTurn ==
  ASSUME TypesInv,
         \/ LaunchRefused \/ LaunchFails \/ Launch \/ LearnsSession \/ WatchHook \/ WatchPoll
         \/ WatchFindsGone \/ WatchLostTrack \/ ApplyUpdate \/ HookArrives
  PROVE  TurnTyped'
<1>1. CASE ApplyUpdate
  <2>1. slot.turn # 0 /\ turnTask.updates # <<>> /\ Applies(slot.turn, Head(turnTask.updates))
    BY <1>1 DEF ApplyUpdate
  <2>2. Head(turnTask.updates) \in Updates BY <2>1 DEF TypesInv, TaskTyped, Tasks
  <2> QED BY <2>1, <2>2, ApplyingKeepsTypes DEF TurnTyped
<1>2. CASE HookArrives
  <2>1. UNCHANGED <<slot, record, disk, writes, board, heard>>
    BY <1>2 DEF HookArrives, storeVars, talkVars
  <2>2. ReceivedAt \in 0 .. 2 * MaxTurns + 1
    BY TurnBounds DEF ReceivedAt, TypesInv, CountsTyped
  <2>3. UNCHANGED turnTask \/ \E e \in flying :
          turnTask' = [turnTask EXCEPT !.hooks = Append(@, [e EXCEPT !.at = ReceivedAt])]
    BY <1>2 DEF HookArrives
  <2>4. TaskTyped'
    <3>1. turnTask \in Tasks /\ (turnTask.at = "none") = (slot.turn = 0)
      BY DEF TypesInv, TaskTyped
    <3>2. CASE UNCHANGED turnTask BY <2>1, <3>1, <3>2 DEF TaskTyped
    <3>3. CASE ~UNCHANGED turnTask
      <4>1. PICK e \in flying :
              turnTask' = [turnTask EXCEPT !.hooks = Append(@, [e EXCEPT !.at = ReceivedAt])]
        BY <2>3, <3>3
      <4>2. [e EXCEPT !.at = ReceivedAt] \in HookEvents
        BY <2>2 DEF TypesInv, EventsTyped, HookEvents
      <4>3. Append(turnTask.hooks, [e EXCEPT !.at = ReceivedAt]) \in Seq(HookEvents)
        BY <3>1, <4>2, AppendProperties DEF Tasks
      <4> QED BY <2>1, <3>1, <4>1, <4>3 DEF TaskTyped, Tasks
    <3> QED BY <3>2, <3>3
  <2> QED BY <2>1, <2>4 DEF TurnTyped, TypesInv, SlotTyped, FileTyped, ShownTyped
<1>3. CASE ~ApplyUpdate /\ ~HookArrives
  <2>1. TaskTyped' /\ UNCHANGED driverFrame BY <1>3, DriverKeepsTask
  <2>2. UNCHANGED <<slot, record, disk, writes, board, heard>>
    BY <2>1 DEF driverFrame, storeVars, talkVars
  <2> QED BY <2>1, <2>2 DEF TurnTyped, TypesInv, SlotTyped, FileTyped, ShownTyped
<1> QED BY <1>1, <1>2, <1>3

\* A turn starts, unless another one works by then.
LEMMA StartKeepsTurn == ASSUME TypesInv, StartTurn PROVE TurnTyped'
<1>1. UNCHANGED heard BY DEF StartTurn, talkVars
<1>2. CASE MayStart /\ generations < budget.turns
  <2> DEFINE g == generations + 1
             ref == IF slot.turn = 0 THEN record.session ELSE SessionNow
             hooks == NotBefore(Forwarded(ref), g)
             new == [session |-> ref, running |-> TRUE, since |-> g]
  <2>1. Records(new) /\ Spawns(ref, "launch", g)
    BY <1>2 DEF StartTurn
  <2>2. g \in 0 .. MaxTurns /\ g # 0
    BY <1>2, TurnBounds DEF TypesInv, CountsTyped
  <2>3. ref \in SessionRefs BY SessionsTyped
  <2>4. hooks \in Seq(HookEvents) BY ForwardingTyped DEF TypesInv
  <2>5. new \in Snapshots /\ new.running BY <2>2, <2>3 DEF Snapshots
  <2>6. /\ turnTask' = [NoTask EXCEPT !.at = "launch", !.says = g, !.ref = ref, !.hooks = hooks]
        /\ slot' = [slot EXCEPT !.turn = g, !.phase = "Working", !.ownWork = FALSE]
        /\ board' = TurnRow
    BY <2>1 DEF Spawns
  <2> HIDE DEF g, ref, hooks, new
  <2>7. SlotTyped' /\ slot'.turn # 0
    BY <2>2, <2>6 DEF TypesInv, SlotTyped, Slots, Phases
  <2>8. TaskTyped'
    <3>1. NoTask \in Tasks BY NoTaskTyped
    <3>2. turnTask' \in Tasks /\ turnTask'.at = "launch"
      BY <2>2, <2>3, <2>4, <2>6, <3>1 DEF Tasks
    <3> QED BY <2>7, <3>2 DEF TaskTyped
  <2>9. FileTyped' BY <2>1, <2>5, <2>7, RecordingTyped DEF FileTyped
  <2>10. ShownTyped' BY <1>1, <2>6, RowsTyped DEF TypesInv, ShownTyped
  <2> QED BY <2>7, <2>8, <2>9, <2>10 DEF TurnTyped
<1>3. CASE ~(MayStart /\ generations < budget.turns)
  <2>1. UNCHANGED <<slot, turnTask, record, disk, writes, board>>
    BY <1>3 DEF StartTurn, taskVars
  <2> QED BY <1>1, <2>1 DEF TurnTyped, TypesInv, SlotTyped, TaskTyped, FileTyped, ShownTyped
<1> QED BY <1>2, <1>3

\* A turn ends by itself or is stopped, and the session is reset.
LEMMA EndKeepsTurn == ASSUME TypesInv, FinishTurn \/ StopTurn \/ ResetSession PROVE TurnTyped'
<1>0. /\ slot \in Slots /\ board \in [turn : BOOLEAN, waits : BOOLEAN, ended : BOOLEAN]
      /\ turnTask \in Tasks /\ record \in Snapshots /\ heard \in [Answers -> 0 .. 2]
      /\ 0 \in 0 .. MaxTurns /\ 0 \in Told /\ NoSession \in SessionRefs
  BY SessionsTyped, TurnBounds DEF TypesInv, SlotTyped, TaskTyped, FileTyped, ShownTyped, Told
<1>1. NoTask \in Tasks /\ NoTask.at = "none" BY NoTaskTyped DEF NoTask
<1>2. EndedRow \in [turn : BOOLEAN, waits : BOOLEAN, ended : BOOLEAN]
  <2> DEFINE ended == board.ended \/ board.turn \/ board.waits
  <2>1. ended \in BOOLEAN /\ EndedRow = [NoRow EXCEPT !.ended = ended] BY Zenon DEF EndedRow
  <2> HIDE DEF ended
  <2> QED BY <2>1 DEF NoRow
<1>3. CASE FinishTurn
  <2> DEFINE new == [record EXCEPT !.running = FALSE, !.since = 0]
  <2>1. /\ turnTask' = NoTask /\ Records(new)
        /\ slot' = [turn |-> 0, phase |-> "Idle", ownWork |-> turnTask.out = "busy",
                    polled |-> PolledAfter(turnTask.out, turnTask.outReply)]
        /\ board' \in {TurnRow, EndedRow}
        /\ heard' = heard \/ Delivers(turnTask.outReply)
    BY <1>3 DEF FinishTurn
  <2>2. new \in Snapshots /\ new.running = FALSE BY <1>0 DEF Snapshots
  <2> HIDE DEF new
  <2>3. (turnTask.out = "busy") \in BOOLEAN /\ PolledAfter(turnTask.out, turnTask.outReply) \in Told
    BY <1>0 DEF PolledAfter, Tasks
  <2>4. slot' \in Slots /\ slot'.turn = 0
    <3> DEFINE works == turnTask.out = "busy"
    <3>1. works \in BOOLEAN BY <2>3
    <3>2. slot' = [turn |-> 0, phase |-> "Idle", ownWork |-> works,
                   polled |-> PolledAfter(turnTask.out, turnTask.outReply)]
      BY <2>1
    <3> HIDE DEF works
    <3> QED BY <1>0, <2>3, <3>1, <3>2 DEF Slots, Phases
  <2>5. heard' \in [Answers -> 0 .. 2] BY <1>0, <2>1 DEF Delivers
  <2>6. board' \in [turn : BOOLEAN, waits : BOOLEAN, ended : BOOLEAN]
    BY <2>1, <1>2, RowsTyped
  <2>7. TaskTyped' BY <1>1, <2>1, <2>4 DEF TaskTyped
  <2>8. FileTyped' BY <2>1, <2>2, <2>4, RecordingTyped DEF FileTyped
  <2> QED BY <2>4, <2>5, <2>6, <2>7, <2>8 DEF TurnTyped, SlotTyped, ShownTyped
<1>4. CASE StopTurn
  <2> DEFINE new == [session |-> SessionNow, running |-> FALSE, since |-> 0]
  <2>1. /\ turnTask' = NoTask /\ Records(new) /\ UNCHANGED heard
        /\ slot' = [slot EXCEPT !.turn = 0, !.phase = "Idle"] /\ board' = NoRow
    BY <1>4 DEF StopTurn
  <2>2. new \in Snapshots /\ new.running = FALSE BY <1>0, SessionsTyped DEF Snapshots
  <2> HIDE DEF new
  <2>3. slot' \in Slots /\ slot'.turn = 0 BY <1>0, <2>1 DEF Slots, Phases
  <2>4. TaskTyped' BY <1>1, <2>1, <2>3 DEF TaskTyped
  <2>5. FileTyped' BY <2>1, <2>2, <2>3, RecordingTyped DEF FileTyped
  <2> QED BY <1>0, <2>1, <2>3, <2>4, <2>5, RowsTyped DEF TurnTyped, SlotTyped, ShownTyped
<1>5. CASE ResetSession
  <2> DEFINE new == [record EXCEPT !.session = NoSession]
  <2>1. /\ UNCHANGED <<turnTask, heard>> /\ Records(new)
        /\ slot' \in {IdleSlot, slot} /\ board' = NoRow
    BY <1>5 DEF ResetSession, talkVars
  <2>2. new \in Snapshots /\ new.running = record.running BY <1>0 DEF Snapshots
  <2> HIDE DEF new
  <2>3. slot' \in Slots /\ slot'.turn = slot.turn BY <1>0, <2>1 DEF IdleSlot, Slots, Phases
  <2>4. TaskTyped' BY <2>1, <2>3 DEF TaskTyped, TypesInv
  <2>5. FileTyped' BY <2>1, <2>2, <2>3, RecordingTyped DEF FileTyped, TypesInv
  <2> QED BY <1>0, <2>1, <2>3, <2>4, <2>5, RowsTyped DEF TurnTyped, SlotTyped, ShownTyped
<1> QED BY <1>3, <1>4, <1>5

\* The daemon dies: the next one reads the file, and watches a turn again.
LEMMA DeathKeepsTurn == ASSUME TypesInv, CountsTyped', DaemonDies PROVE TurnTyped'
<1>0. disk \in Snapshots /\ 0 \in 0 .. MaxTurns /\ 0 \in Told /\ NoTask \in Tasks
  BY NoTaskTyped, TurnBounds DEF TypesInv, FileTyped, Told
<1>1. record' = disk /\ UNCHANGED <<disk, heard>> /\ writes' = <<>> BY DEF DaemonDies
<1>2. record' \in Snapshots /\ disk' \in Snapshots /\ writes' \in Seq(Snapshots)
  BY <1>0, <1>1, EmptySeq
<1>3. CASE disk.running
  <2>1. /\ generations' = generations + 1
        /\ turnTask' = [NoTask EXCEPT !.at = "rewatch", !.says = disk.since, !.ref = disk.session]
        /\ slot' = [turn |-> generations', phase |-> "Working", ownWork |-> FALSE, polled |-> 0]
        /\ board' = TurnRow
    BY <1>3 DEF DaemonDies
  <2>2. generations' \in 1 .. MaxTurns
    BY <2>1, TurnBounds DEF TypesInv, CountsTyped
  <2>3. SlotTyped' /\ slot'.turn # 0 BY <1>0, <2>1, <2>2 DEF SlotTyped, Slots, Phases
  <2>4. TaskTyped'
    <3>1. disk.since \in 0 .. MaxTurns /\ disk.session \in SessionRefs BY <1>0 DEF Snapshots
    <3>2. turnTask' \in Tasks /\ turnTask'.at = "rewatch" BY <1>0, <2>1, <3>1 DEF Tasks
    <3> QED BY <2>3, <3>2 DEF TaskTyped
  <2>5. record'.running = (slot'.turn # 0)
    BY <1>0, <1>1, <1>3, <2>3 DEF Snapshots
  <2> QED BY <1>1, <1>2, <2>1, <2>3, <2>4, <2>5, RowsTyped
          DEF TurnTyped, FileTyped, ShownTyped, TypesInv
<1>4. CASE ~disk.running
  <2>1. /\ turnTask' = NoTask /\ board' = NoRow
        /\ slot' = [turn |-> 0, phase |-> "Idle", ownWork |-> FALSE, polled |-> 0]
    BY <1>4 DEF DaemonDies
  <2>2. SlotTyped' /\ slot'.turn = 0 BY <1>0, <2>1 DEF SlotTyped, Slots, Phases
  <2>3. TaskTyped' BY <1>0, <2>1, <2>2 DEF TaskTyped, NoTask
  <2>4. record'.running = (slot'.turn # 0)
    BY <1>0, <1>1, <1>4, <2>2 DEF Snapshots
  <2> QED BY <1>1, <1>2, <2>1, <2>2, <2>3, <2>4, RowsTyped
          DEF TurnTyped, FileTyped, ShownTyped, TypesInv
<1> QED BY <1>3, <1>4

\* The types at the start.
LEMMA StartsTyped == ASSUME TurnsInit PROVE TypesInv
<1>0. /\ 0 \in 0 .. MaxTurns /\ 0 \in Told /\ <<>> \in Seq(Updates) /\ <<>> \in Seq(HookEvents)
      /\ <<>> \in Seq(Snapshots) /\ 0 \in 0 .. MaxOwn /\ Len(<<>>) <= MaxKept
  BY TurnBounds, EmptySeq DEF Told
<1>1. NoSession \in SessionRefs BY <1>0 DEF NoSession, SessionRefs
<1>2. CountsTyped /\ SlotTyped
  BY <1>0 DEF TurnsInit, CountsTyped, SlotTyped, Slots, Phases
<1>3. TaskTyped
  <2>1. NoTask \in Tasks BY <1>0, <1>1 DEF NoTask, Tasks, Outcomes
  <2> QED BY <2>1 DEF TurnsInit, TaskTyped, NoTask
<1>4. FileTyped BY <1>0, <1>1 DEF TurnsInit, FileTyped, Snapshots
<1>5. EventsTyped BY <1>0 DEF TurnsInit, EventsTyped
<1>6. HarnessTyped
  <2>1. [s \in Turns |-> 0] \in [Turns -> Told] BY <1>0
  <2> QED BY <1>0, <2>1 DEF TurnsInit, HarnessTyped, Places
<1>7. CommandsTyped BY <1>0, <1>1 DEF TurnsInit, CommandsTyped, NobodySends
<1>8. ShownTyped BY DEF TurnsInit, ShownTyped
<1> QED BY <1>2, <1>3, <1>4, <1>5, <1>6, <1>7, <1>8 DEF TypesInv

\* The state of the turns is typed, the tasks, the harness and all that is kept
\* or sent included.
THEOREM TypesInvariant == TurnsSpec => []TypesInv
<1>1. TurnsInit => TypesInv BY StartsTyped
<1>2. LetGoInv /\ TypesInv /\ [TurnsNext]_turnVars => TypesInv'
  <2> SUFFICES ASSUME LetGoInv, TypesInv, [TurnsNext]_turnVars PROVE TypesInv' OBVIOUS
  <2>1. CountsTyped' /\ EventsTyped' /\ HarnessTyped' /\ CommandsTyped'
    BY CountsKeepTypes, EventsKeepTypes, HarnessKeepsTypes, CommandsKeepTypes
  <2>2. TurnTyped'
    BY <2>1, OthersKeepTurn, WriterKeepsTurn, ShowingKeepsTurn, TaskKeepsTurn, StartKeepsTurn,
       EndKeepsTurn, DeathKeepsTurn DEF TurnsNext
  <2> QED BY <2>1, <2>2 DEF TypesInv, TurnTyped
<1> QED BY <1>1, <1>2, LetGoInvariant, PTL DEF TurnsSpec

\* The turns of an agent keep their types: the slot and the turn's task agree
\* on whether a turn runs, and so do the record and both; as many events are
\* kept as there is room for.
THEOREM TurnsKeepTypes == TurnsSpec => []TurnsTyped
<1>1. TypesInv => TurnsTyped
  <2> SUFFICES ASSUME TypesInv PROVE TurnsTyped OBVIOUS
  <2>1. budget \in TurnBudgets BY DEF TypesInv, CountsTyped
  <2>2. slot \in Slots BY DEF TypesInv, SlotTyped
  <2>3. /\ turnTask.at \in {"none", "launch", "watch", "rewatch"}
        /\ turnTask.hooks \in Seq(HookEvents) /\ (turnTask.at = "none") = (slot.turn = 0)
    BY DEF TypesInv, TaskTyped, Tasks
  <2>4. /\ record \in Snapshots /\ disk \in Snapshots /\ writes \in Seq(Snapshots)
        /\ record.running = (slot.turn # 0)
    BY DEF TypesInv, FileTyped
  <2>5. kept \in Seq(HookEvents) /\ Len(kept) <= MaxKept /\ reading \subseteq HookEvents
    BY DEF TypesInv, EventsTyped
  <2>6. strays \subseteq [gen : Turns, ref : SessionRefs, started : BOOLEAN]
    BY DEF TypesInv, HarnessTyped
  <2>7. /\ sending \in [Senders -> [at : {"none", "ask", "own", "second"}, bg : 0 .. MaxTurns]]
        /\ stopping.at \in {"none", "stop", "ask", "idle", "clear"}
        /\ listed \in Phases \cup {"none"}
    BY DEF TypesInv, CommandsTyped
  <2>8. /\ board \in [turn : BOOLEAN, waits : BOOLEAN, ended : BOOLEAN]
        /\ heard \in [Answers -> 0 .. 2]
    BY DEF TypesInv, ShownTyped
  <2>9. /\ Range(turnTask.hooks) \subseteq HookEvents /\ Range(writes) \subseteq Snapshots
        /\ Range(kept) \subseteq HookEvents
    BY <2>3, <2>4, <2>5, RangeOfSeq
  <2> QED
    BY Zenon, <2>1, <2>2, <2>3, <2>4, <2>5, <2>6, <2>7, <2>8, <2>9
       DEF TurnsTyped, Slots, Told
<1> QED BY <1>1, TypesInvariant, PTL
=============================================================================
