---------------------------- MODULE SourcesProofs ----------------------------
(***************************************************************************)
(* What the sources fetch: MCP sessions and Linear's jobs on them, Google    *)
(* Calendar, Spotify, the pushed branches and the details of GitHub; and,   *)
(* made of lists like what they fetch, the order of the tabs and the tree of *)
(* a project's issues.  Each part is proved by itself about its own          *)
(* variables, for every value of its constants.                             *)
(***************************************************************************)
EXTENDS LinearFetch, CalendarFetch, SpotifyFetch, GitHubFetch, GitHubDetail, TabOrder,
        IssueTree, FiniteSetTheorems, SequenceTheorems, WellFoundedInduction, TLAPS

-----------------------------------------------------------------------------
(* What is made of lists *)

\* Proofs about a recursion go by its least counterexample.
LEMMA LeastOfNats ==
    ASSUME NEW T \in SUBSET Nat, T # {}
    PROVE  \E x \in T : \A y \in T : x <= y
<1>1. PICK x \in T : \A y \in T : ~ (<<y, x>> \in OpToRel(<, Nat))
  BY WFMin, NatLessThanWellFounded
<1>2. \A y \in T : ~ (y < x)
  BY <1>1 DEF OpToRel
<1> QED
  BY <1>2

\* One step of Kept, from what is kept of the entries before.
KeepNext(list, ids, n, before) ==
    IF list[n] \in ids THEN Append(before, list[n]) ELSE before

KeepsUpTo(list, ids, S, m) ==
    \E f \in [0 .. m -> Seq(S)] :
        /\ f[0] = <<>>
        /\ \A n \in 1 .. m : f[n] = KeepNext(list, ids, n, f[n - 1])

\* The recursion of Kept has a function that satisfies it, up to any length.
LEMMA KeptSteps ==
    ASSUME NEW S, NEW list \in Seq(S), NEW ids
    PROVE  KeepsUpTo(list, ids, S, Len(list))
<1> DEFINE T == {m \in 0 .. Len(list) : ~ KeepsUpTo(list, ids, S, m)}
<1> SUFFICES ASSUME T # {} PROVE FALSE
  OBVIOUS
<1>1. T \in SUBSET Nat
  OBVIOUS
<1>2. PICK m \in T : \A y \in T : m <= y
  BY <1>1, LeastOfNats
<1>3. KeepsUpTo(list, ids, S, 0)
  <2> DEFINE f == [n \in 0 .. 0 |-> <<>>]
  <2>1. f \in [0 .. 0 -> Seq(S)] /\ f[0] = <<>>
    OBVIOUS
  <2>2. 1 .. 0 = {}
    OBVIOUS
  <2> HIDE DEF f
  <2> QED
    BY <2>1, <2>2, Zenon DEF KeepsUpTo
<1>4. m \in 1 .. Len(list) /\ m - 1 \in 0 .. Len(list)
  BY <1>2, <1>3
<1>5. KeepsUpTo(list, ids, S, m - 1)
  BY <1>2, <1>4
<1>6. PICK f \in [0 .. m - 1 -> Seq(S)] :
          /\ f[0] = <<>>
          /\ \A n \in 1 .. m - 1 : f[n] = KeepNext(list, ids, n, f[n - 1])
  BY <1>5 DEF KeepsUpTo
<1>7. KeepNext(list, ids, m, f[m - 1]) \in Seq(S)
  <2>1. list[m] \in S /\ f[m - 1] \in Seq(S)
    BY <1>4, ElementOfSeq
  <2> QED
    BY <2>1 DEF KeepNext
<1> DEFINE g == [n \in 0 .. m |-> IF n = m THEN KeepNext(list, ids, m, f[m - 1]) ELSE f[n]]
<1>8. g \in [0 .. m -> Seq(S)] /\ g[0] = <<>>
  BY <1>4, <1>6, <1>7
<1>9. \A n \in 1 .. m : g[n] = KeepNext(list, ids, n, g[n - 1])
  BY <1>4, <1>6
<1>10. KeepsUpTo(list, ids, S, m)
  BY <1>8, <1>9 DEF KeepsUpTo
<1> QED
  BY <1>2, <1>10

KeptBy(list, ids, S, f) ==
    /\ f \in [0 .. Len(list) -> Seq(S)] /\ f[0] = <<>> /\ Kept(list, ids) = f[Len(list)]
    /\ \A n \in 1 .. Len(list) : f[n] = KeepNext(list, ids, n, f[n - 1])

\* So Kept is its last value.
LEMMA KeptIs ==
    ASSUME NEW S, NEW list \in Seq(S), NEW ids
    PROVE  \E f : KeptBy(list, ids, S, f)
<1> DEFINE Is(g) == g = [n \in 0 .. Len(list) |->
                           IF n = 0 THEN <<>>
                           ELSE IF list[n] \in ids THEN Append(g[n - 1], list[n]) ELSE g[n - 1]]
           kept == CHOOSE g : Is(g)
<1>1. PICK f \in [0 .. Len(list) -> Seq(S)] :
          /\ f[0] = <<>>
          /\ \A n \in 1 .. Len(list) : f[n] = KeepNext(list, ids, n, f[n - 1])
  <2>1. KeepsUpTo(list, ids, S, Len(list))
    BY KeptSteps
  <2> QED
    BY <2>1, Zenon DEF KeepsUpTo
<1>2. Is(f)
  <2>1. f = [n \in 0 .. Len(list) |-> f[n]]
    OBVIOUS
  <2>2. \A n \in 0 .. Len(list) : f[n] = IF n = 0 THEN <<>>
                           ELSE IF list[n] \in ids THEN Append(f[n - 1], list[n]) ELSE f[n - 1]
    <3> SUFFICES ASSUME NEW n \in 0 .. Len(list)
                 PROVE  f[n] = IF n = 0 THEN <<>>
                               ELSE IF list[n] \in ids THEN Append(f[n - 1], list[n]) ELSE f[n - 1]
      OBVIOUS
    <3>1. CASE n = 0
      BY <1>1, <3>1
    <3>2. CASE n # 0
      <4>1. n \in 1 .. Len(list)
        BY <3>2
      <4>2. f[n] = KeepNext(list, ids, n, f[n - 1])
        BY <1>1, <4>1
      <4> QED
        BY <3>2, <4>2 DEF KeepNext
    <3> QED
      BY <3>1, <3>2
  <2> QED
    BY <2>1, <2>2
<1>3. Is(kept)
  BY <1>2, Zenon
<1>4. Kept(list, ids) = kept[Len(list)]
  BY DEF Kept
<1> HIDE DEF kept
<1>5. Len(list) \in Nat
  OBVIOUS
<1>6. kept[0] = <<>>
  BY <1>3, <1>5
<1>7. \A n \in 1 .. Len(list) : kept[n] = KeepNext(list, ids, n, kept[n - 1])
  <2> SUFFICES ASSUME NEW n \in 1 .. Len(list)
               PROVE  kept[n] = KeepNext(list, ids, n, kept[n - 1])
    OBVIOUS
  <2>1. n \in 0 .. Len(list) /\ n # 0
    OBVIOUS
  <2>2. kept[n] = IF n = 0 THEN <<>>
                  ELSE IF list[n] \in ids THEN Append(kept[n - 1], list[n]) ELSE kept[n - 1]
    BY <1>3, <2>1
  <2> QED
    BY <2>1, <2>2 DEF KeepNext
<1> DEFINE T == {n \in 0 .. Len(list) : kept[n] # f[n]}
<1>8. T = {}
  <2> SUFFICES ASSUME T # {} PROVE FALSE
    OBVIOUS
  <2>1. T \in SUBSET Nat
    OBVIOUS
  <2>2. PICK m \in T : \A y \in T : m <= y
    BY <2>1, LeastOfNats
  <2>3. m \in 1 .. Len(list) /\ m - 1 \in 0 .. Len(list)
    BY <1>1, <1>6, <2>2
  <2>4. m - 1 \notin T
    BY <2>2, <2>3
  <2>5. kept[m - 1] = f[m - 1]
    BY <2>3, <2>4
  <2> QED
    BY <1>1, <1>7, <2>2, <2>3, <2>5
<1>9. kept[Len(list)] = f[Len(list)]
  BY <1>5, <1>8
<1>10. KeptBy(list, ids, S, f)
  BY <1>1, <1>4, <1>9 DEF KeptBy
<1> QED
  BY <1>10

\* `out' is what `list' has up to `n' that is in `ids', and `h' says from which places.
Picked(list, ids, n, out, h) ==
    /\ h \in [1 .. Len(out) -> 1 .. n]
    /\ \A a, b \in 1 .. Len(out) : a < b => h[a] < h[b]
    /\ \A a \in 1 .. Len(out) : out[a] = list[h[a]] /\ list[h[a]] \in ids
    /\ \A i \in 1 .. n : list[i] \in ids => \E a \in 1 .. Len(out) : h[a] = i

\* One more entry of the list is kept or not, and the order stays.
LEMMA PickNext ==
    ASSUME NEW S, NEW list \in Seq(S), NEW ids, NEW n \in 1 .. Len(list),
           NEW before \in Seq(S), NEW h, Picked(list, ids, n - 1, before, h)
    PROVE  \E g : Picked(list, ids, n, KeepNext(list, ids, n, before), g)
<1> DEFINE out == KeepNext(list, ids, n, before)
<1>1. CASE list[n] \notin ids
  <2>1. out = before
    BY <1>1 DEF KeepNext
  <2>2. Picked(list, ids, n, before, h)
    <3>1. h \in [1 .. Len(before) -> 1 .. n]
      BY DEF Picked
    <3>2. \A i \in 1 .. n : list[i] \in ids => i \in 1 .. n - 1
      BY <1>1
    <3> QED
      BY <3>1, <3>2 DEF Picked
  <2> QED
    BY <2>1, <2>2
<1>2. CASE list[n] \in ids
  <2> DEFINE L == Len(before)
             g == [a \in 1 .. L + 1 |-> IF a = L + 1 THEN n ELSE h[a]]
  <2>1. /\ out = Append(before, list[n]) /\ list[n] \in S /\ L \in Nat
        /\ Len(out) = L + 1 /\ out[L + 1] = list[n]
        /\ \A a \in 1 .. L : out[a] = before[a]
    <3>1. out = Append(before, list[n]) /\ list[n] \in S
      BY <1>2, ElementOfSeq DEF KeepNext
    <3> QED
      BY <3>1, AppendProperties
  <2> HIDE DEF out
  <2>2. \A a \in 1 .. L : h[a] \in 1 .. n - 1
    BY DEF Picked
  <2>3. g \in [1 .. Len(out) -> 1 .. n]
    BY <2>1, <2>2
  <2>4. \A a, b \in 1 .. Len(out) : a < b => g[a] < g[b]
    <3> SUFFICES ASSUME NEW a \in 1 .. L + 1, NEW b \in 1 .. L + 1, a < b PROVE g[a] < g[b]
      BY <2>1
    <3>1. a \in 1 .. L /\ g[a] = h[a] /\ h[a] \in 1 .. n - 1
      BY <2>1, <2>2
    <3>2. CASE b = L + 1
      BY <3>1, <3>2
    <3>3. CASE b # L + 1
      <4>1. b \in 1 .. L /\ g[b] = h[b]
        BY <2>1, <3>3
      <4> QED
        BY <3>1, <4>1 DEF Picked
    <3> QED
      BY <3>2, <3>3
  <2>5. \A a \in 1 .. Len(out) : out[a] = list[g[a]] /\ list[g[a]] \in ids
    <3> SUFFICES ASSUME NEW a \in 1 .. L + 1 PROVE out[a] = list[g[a]] /\ list[g[a]] \in ids
      BY <2>1
    <3>1. CASE a = L + 1
      BY <1>2, <2>1, <3>1
    <3>2. CASE a # L + 1
      BY <2>1, <3>2 DEF Picked
    <3> QED
      BY <3>1, <3>2
  <2>6. ASSUME NEW i \in 1 .. n, list[i] \in ids PROVE \E a \in 1 .. Len(out) : g[a] = i
    <3>1. CASE i = n
      BY <2>1, <3>1
    <3>2. CASE i # n
      <4>1. PICK a \in 1 .. L : h[a] = i
        BY <2>6, <3>2 DEF Picked
      <4>2. a \in 1 .. L + 1 /\ a # L + 1
        BY <2>1
      <4> QED
        BY <2>1, <4>1, <4>2
    <3> QED
      BY <3>1, <3>2
  <2> HIDE DEF g
  <2>7. Picked(list, ids, n, out, g)
    BY <2>3, <2>4, <2>5, <2>6 DEF Picked
  <2> QED
    BY <2>7 DEF out
<1> QED
  BY <1>1, <1>2

\* What is kept comes from rising places of the list.
LEMMA KeptPicks ==
    ASSUME NEW S, NEW list \in Seq(S), NEW ids
    PROVE  /\ Kept(list, ids) \in Seq(S)
           /\ \E h : Picked(list, ids, Len(list), Kept(list, ids), h)
<1>0. PICK f : KeptBy(list, ids, S, f)
  BY KeptIs
<1>1. /\ f \in [0 .. Len(list) -> Seq(S)] /\ f[0] = <<>> /\ Kept(list, ids) = f[Len(list)]
      /\ \A n \in 1 .. Len(list) : f[n] = KeepNext(list, ids, n, f[n - 1])
  BY <1>0 DEF KeptBy
<1> DEFINE T == {n \in 0 .. Len(list) : ~ \E h : Picked(list, ids, n, f[n], h)}
<1>2. T = {}
  <2> SUFFICES ASSUME T # {} PROVE FALSE
    OBVIOUS
  <2>1. T \in SUBSET Nat
    OBVIOUS
  <2>2. PICK m \in T : \A y \in T : m <= y
    BY <2>1, LeastOfNats
  <2>3. \E h : Picked(list, ids, 0, f[0], h)
    <3>1. Picked(list, ids, 0, <<>>, <<>>)
      BY DEF Picked
    <3> QED
      BY <1>1, <3>1
  <2>4. m \in 1 .. Len(list) /\ m - 1 \in 0 .. Len(list)
    BY <2>2, <2>3
  <2>5. PICK h : Picked(list, ids, m - 1, f[m - 1], h)
    <3>1. m - 1 \notin T
      <4> SUFFICES ASSUME m - 1 \in T PROVE FALSE
        OBVIOUS
      <4>1. m <= m - 1
        BY <2>2, Zenon
      <4> QED
        BY <2>4, <4>1
    <3> QED
      BY <2>4, <3>1
  <2>6. f[m - 1] \in Seq(S)
    BY <1>1, <2>4
  <2>7. \E g : Picked(list, ids, m, KeepNext(list, ids, m, f[m - 1]), g)
    BY <2>4, <2>5, <2>6, PickNext
  <2> QED
    BY <1>1, <2>2, <2>4, <2>7
<1>3. Len(list) \in 0 .. Len(list)
  OBVIOUS
<1> QED
  BY <1>1, <1>2, <1>3

\* s comes before t in the list.
Before(list, s, t) == \E i, j \in 1 .. Len(list) : i < j /\ list[i] = s /\ list[j] = t

\* What is kept is what is in the set, in its order, and twice only if it was.
LEMMA KeptFacts ==
    ASSUME NEW S, NEW list \in Seq(S), NEW ids
    PROVE  LET out == Kept(list, ids)
           IN  /\ out \in Seq(S) /\ ToSet(out) = ToSet(list) \cap ids
               /\ IsInjective(list) => IsInjective(out)
               /\ \A s, t \in ids : Before(out, s, t) <=> Before(list, s, t)
<1> DEFINE out == Kept(list, ids)
<1>1. out \in Seq(S)
  BY KeptPicks
<1>2. PICK h : Picked(list, ids, Len(list), out, h)
  BY KeptPicks
<1> HIDE DEF out
<1>3. /\ Len(out) \in Nat /\ DOMAIN out = 1 .. Len(out)
      /\ Len(list) \in Nat /\ DOMAIN list = 1 .. Len(list)
  BY <1>1
<1>4. \A a \in 1 .. Len(out) : h[a] \in 1 .. Len(list)
  BY <1>2 DEF Picked
<1>5. \A a \in 1 .. Len(out) : out[a] = list[h[a]] /\ list[h[a]] \in ids
  BY <1>2 DEF Picked
<1>6. \A i \in 1 .. Len(list) : list[i] \in ids => \E a \in 1 .. Len(out) : h[a] = i
  BY <1>2 DEF Picked
<1>7. \A a, b \in 1 .. Len(out) : a < b => h[a] < h[b]
  BY <1>2 DEF Picked
<1>8. ToSet(out) = ToSet(list) \cap ids
  <2>1. ASSUME NEW x \in ToSet(out) PROVE x \in ToSet(list) /\ x \in ids
    <3>1. PICK a \in 1 .. Len(out) : out[a] = x
      BY <1>3 DEF ToSet
    <3> QED
      BY <1>3, <1>4, <1>5, <3>1 DEF ToSet
  <2>2. ASSUME NEW x \in ToSet(list), x \in ids PROVE x \in ToSet(out)
    <3>1. PICK i \in 1 .. Len(list) : list[i] = x
      BY <1>3 DEF ToSet
    <3>2. PICK a \in 1 .. Len(out) : h[a] = i
      BY <1>6, <2>2, <3>1
    <3> QED
      BY <1>3, <1>5, <3>1, <3>2 DEF ToSet
  <2> QED
    BY <2>1, <2>2
<1>9. ASSUME IsInjective(list), NEW a \in 1 .. Len(out), NEW b \in 1 .. Len(out), out[a] = out[b]
      PROVE  a = b
  <2>1. h[a] = h[b]
    BY <1>3, <1>4, <1>5, <1>9 DEF IsInjective
  <2>2. h[a] \in Nat
    BY <1>4
  <2> QED
    BY <1>3, <1>7, <2>1, <2>2
<1>10. ASSUME NEW s \in ids, NEW t \in ids PROVE Before(out, s, t) <=> Before(list, s, t)
  <2>1. ASSUME Before(out, s, t) PROVE Before(list, s, t)
    <3>1. PICK a, b \in 1 .. Len(out) : a < b /\ out[a] = s /\ out[b] = t
      BY <2>1 DEF Before
    <3> QED
      BY <1>4, <1>5, <1>7, <3>1 DEF Before
  <2>2. ASSUME Before(list, s, t) PROVE Before(out, s, t)
    <3>1. PICK i, j \in 1 .. Len(list) : i < j /\ list[i] = s /\ list[j] = t
      BY <2>2 DEF Before
    <3>2. PICK a \in 1 .. Len(out) : h[a] = i
      BY <1>6, <3>1
    <3>3. PICK b \in 1 .. Len(out) : h[b] = j
      BY <1>6, <3>1
    <3>4. out[a] = s /\ out[b] = t
      BY <1>5, <3>1, <3>2, <3>3
    <3>5. ~ (b < a) /\ b # a
      BY <1>7, <3>1, <3>2, <3>3
    <3>6. a < b
      BY <1>3, <3>5
    <3> QED
      BY <3>4, <3>6 DEF Before
  <2> QED
    BY <2>1, <2>2
<1> QED
  BY <1>1, <1>3, <1>8, <1>9, <1>10 DEF out, IsInjective

\* What two lists have, put one after the other.
LEMMA ConcatFacts ==
    ASSUME NEW S, NEW one \in Seq(S), NEW two \in Seq(S)
    PROVE  LET both == one \o two
           IN  /\ both \in Seq(S) /\ ToSet(both) = ToSet(one) \cup ToSet(two)
               /\ IsInjective(one) /\ IsInjective(two) /\ ToSet(one) \cap ToSet(two) = {}
                    => IsInjective(both)
               /\ \A s, t : Before(both, s, t) <=>
                     Before(one, s, t) \/ Before(two, s, t)
                     \/ (s \in ToSet(one) /\ t \in ToSet(two))
<1> DEFINE both == one \o two
           m == Len(one)
           n == Len(two)
<1>1. /\ both \in Seq(S) /\ Len(both) = m + n /\ m \in Nat /\ n \in Nat
      /\ DOMAIN one = 1 .. m /\ DOMAIN two = 1 .. n /\ DOMAIN both = 1 .. m + n
      /\ \A i \in 1 .. m + n : both[i] = IF i <= m THEN one[i] ELSE two[i - m]
  BY ConcatProperties
<1> HIDE DEF both, m, n
<1>2. \A i \in 1 .. m : i \in 1 .. m + n /\ both[i] = one[i] /\ both[i] \in ToSet(one)
  <2> SUFFICES ASSUME NEW i \in 1 .. m
               PROVE  i \in 1 .. m + n /\ both[i] = one[i] /\ both[i] \in ToSet(one)
    OBVIOUS
  <2>1. i \in 1 .. m + n /\ i <= m
    BY <1>1
  <2> QED
    BY <1>1, <2>1 DEF ToSet
<1>3. \A i \in 1 .. n : i + m \in 1 .. m + n /\ both[i + m] = two[i] /\ two[i] \in ToSet(two)
  <2> SUFFICES ASSUME NEW i \in 1 .. n
               PROVE  i + m \in 1 .. m + n /\ both[i + m] = two[i] /\ two[i] \in ToSet(two)
    OBVIOUS
  <2>1. i + m \in 1 .. m + n /\ ~ (i + m <= m) /\ (i + m) - m = i
    BY <1>1
  <2> QED
    BY <1>1, <2>1 DEF ToSet
<1>4. \A i \in 1 .. m + n : \/ i \in 1 .. m
                            \/ i - m \in 1 .. n /\ both[i] = two[i - m] /\ both[i] \in ToSet(two)
  BY <1>1 DEF ToSet
<1>5. ToSet(both) = ToSet(one) \cup ToSet(two)
  <2>1. ToSet(both) \subseteq ToSet(one) \cup ToSet(two)
    BY <1>1, <1>2, <1>4 DEF ToSet
  <2>2. ASSUME NEW x \in ToSet(one) PROVE x \in ToSet(both)
    <3>1. PICK i \in 1 .. m : one[i] = x
      BY <1>1 DEF ToSet
    <3> QED
      BY <1>1, <1>2, <3>1 DEF ToSet
  <2>3. ASSUME NEW x \in ToSet(two) PROVE x \in ToSet(both)
    <3>1. PICK i \in 1 .. n : two[i] = x
      BY <1>1 DEF ToSet
    <3> QED
      BY <1>1, <1>3, <3>1 DEF ToSet
  <2> QED
    BY <2>1, <2>2, <2>3
<1>6. ASSUME IsInjective(one), IsInjective(two), ToSet(one) \cap ToSet(two) = {},
             NEW i \in 1 .. m + n, NEW j \in 1 .. m + n, both[i] = both[j]
      PROVE  i = j
  <2>1. CASE i \in 1 .. m /\ j \in 1 .. m
    BY <1>1, <1>2, <1>6, <2>1 DEF IsInjective
  <2>2. CASE i \notin 1 .. m /\ j \notin 1 .. m
    <3>1. i - m = j - m
      BY <1>1, <1>4, <1>6, <2>2 DEF IsInjective
    <3> QED
      BY <1>1, <3>1
  <2>3. CASE (i \in 1 .. m) # (j \in 1 .. m)
    BY <1>2, <1>4, <1>6, <2>3
  <2> QED
    BY <2>1, <2>2, <2>3
<1>7. ASSUME NEW s, NEW t, Before(both, s, t)
      PROVE  Before(one, s, t) \/ Before(two, s, t) \/ (s \in ToSet(one) /\ t \in ToSet(two))
  <2>1. PICK i, j \in 1 .. m + n : i < j /\ both[i] = s /\ both[j] = t
    BY <1>1, <1>7 DEF Before
  <2>2. CASE j \in 1 .. m
    <3>1. i \in 1 .. m
      BY <1>1, <2>1, <2>2
    <3>2. one[i] = s /\ one[j] = t
      BY <1>2, <2>1, <2>2, <3>1
    <3>3. \E a, b \in 1 .. m : a < b /\ one[a] = s /\ one[b] = t
      BY <2>1, <2>2, <3>1, <3>2
    <3>4. Before(one, s, t)
      BY <3>3, Zenon DEF Before, m
    <3> QED
      BY <3>4
  <2>3. CASE i \in 1 .. m /\ j \notin 1 .. m
    BY <1>2, <1>4, <2>1, <2>3
  <2>4. CASE i \notin 1 .. m
    <3>1. j \notin 1 .. m /\ i - m < j - m
      BY <1>1, <2>1, <2>4
    <3> QED
      BY <1>4, <2>1, <2>4, <3>1 DEF Before, n
  <2> QED
    BY <2>2, <2>3, <2>4
<1>8. ASSUME NEW s, NEW t, Before(one, s, t) PROVE Before(both, s, t)
  <2>1. PICK i, j \in 1 .. m : i < j /\ one[i] = s /\ one[j] = t
    BY <1>8 DEF Before, m
  <2> QED
    BY <1>1, <1>2, <2>1 DEF Before
<1>9. ASSUME NEW s, NEW t, Before(two, s, t) PROVE Before(both, s, t)
  <2>1. PICK i, j \in 1 .. n : i < j /\ two[i] = s /\ two[j] = t
    BY <1>9 DEF Before, n
  <2>2. i + m < j + m
    BY <1>1, <2>1
  <2> QED
    BY <1>1, <1>3, <2>1, <2>2 DEF Before
<1>10. ASSUME NEW s \in ToSet(one), NEW t \in ToSet(two) PROVE Before(both, s, t)
  <2>1. PICK i \in 1 .. m : one[i] = s
    BY <1>1 DEF ToSet
  <2>2. PICK j \in 1 .. n : two[j] = t
    BY <1>1 DEF ToSet
  <2>3. i < j + m
    BY <1>1, <2>1, <2>2
  <2> QED
    BY <1>1, <1>2, <1>3, <2>1, <2>2, <2>3 DEF Before
<1> QED
  BY <1>1, <1>5, <1>6, <1>7, <1>8, <1>9, <1>10 DEF both, IsInjective

\* FlattenSeq, unfolded: `f' has what the first lists of `seqs' make together.
FlattensUpTo(seqs, S, m) ==
    \E f \in [1 .. m -> Seq(S)] :
        /\ f[1] = seqs[1]
        /\ \A n \in 2 .. m : f[n] = f[n - 1] \o seqs[n]

\* The recursion of FlattenSeq has a function that satisfies it, up to any length.
LEMMA FlattenSteps ==
    ASSUME NEW S, NEW seqs \in Seq(Seq(S)), seqs # <<>>
    PROVE  FlattensUpTo(seqs, S, Len(seqs))
<1> DEFINE T == {m \in 1 .. Len(seqs) : ~ FlattensUpTo(seqs, S, m)}
<1>0. Len(seqs) \in Nat \ {0} /\ Len(seqs) \in 1 .. Len(seqs)
  BY EmptySeq
<1> SUFFICES ASSUME T # {} PROVE FALSE
  BY <1>0
<1>1. T \in SUBSET Nat
  OBVIOUS
<1>2. PICK m \in T : \A y \in T : m <= y
  BY <1>1, LeastOfNats
<1>3. FlattensUpTo(seqs, S, 1)
  <2> DEFINE f == [n \in 1 .. 1 |-> seqs[1]]
  <2>1. f \in [1 .. 1 -> Seq(S)] /\ f[1] = seqs[1]
    BY <1>0
  <2>2. 2 .. 1 = {}
    OBVIOUS
  <2> HIDE DEF f
  <2> QED
    BY <2>1, <2>2, Zenon DEF FlattensUpTo
<1>4. m \in 2 .. Len(seqs) /\ m - 1 \in 1 .. Len(seqs) /\ m - 1 < m
  BY <1>2, <1>3
<1>5. FlattensUpTo(seqs, S, m - 1)
  BY <1>2, <1>4
<1>6. PICK f \in [1 .. m - 1 -> Seq(S)] :
          /\ f[1] = seqs[1]
          /\ \A n \in 2 .. m - 1 : f[n] = f[n - 1] \o seqs[n]
  BY <1>5 DEF FlattensUpTo
<1>7. f[m - 1] \o seqs[m] \in Seq(S)
  <2>1. seqs[m] \in Seq(S) /\ f[m - 1] \in Seq(S)
    BY <1>4, <1>6, ElementOfSeq
  <2> QED
    BY <2>1, ConcatProperties
<1> DEFINE g == [n \in 1 .. m |-> IF n = m THEN f[m - 1] \o seqs[m] ELSE f[n]]
<1>8. g \in [1 .. m -> Seq(S)] /\ g[1] = seqs[1]
  BY <1>4, <1>6, <1>7
<1>9. ASSUME NEW n \in 2 .. m PROVE g[n] = g[n - 1] \o seqs[n]
  <2>1. n - 1 \in 1 .. m - 1 /\ n \in 1 .. m /\ n - 1 \in 1 .. m /\ n - 1 # m
    BY <1>4
  <2>2. g[n - 1] = f[n - 1]
    BY <2>1
  <2>3. CASE n = m
    BY <1>4, <2>1, <2>2, <2>3
  <2>4. CASE n # m
    <3>1. n \in 2 .. m - 1
      BY <1>4, <2>4
    <3> QED
      BY <1>6, <2>1, <2>2, <2>4, <3>1
  <2> QED
    BY <2>3, <2>4
<1>10. FlattensUpTo(seqs, S, m)
  BY <1>8, <1>9 DEF FlattensUpTo
<1> QED
  BY <1>2, <1>10

FlattenedBy(seqs, S, f) ==
    /\ f \in [1 .. Len(seqs) -> Seq(S)] /\ f[1] = seqs[1]
    /\ \A n \in 2 .. Len(seqs) : f[n] = f[n - 1] \o seqs[n]
    /\ FlattenSeq(seqs) = f[Len(seqs)]

\* So FlattenSeq is its last value.
LEMMA FlattenIs ==
    ASSUME NEW S, NEW seqs \in Seq(Seq(S)), seqs # <<>>
    PROVE  \E f : FlattenedBy(seqs, S, f)
<1> DEFINE Is(g) == g = [i \in 1 .. Len(seqs) |-> IF i = 1 THEN seqs[i] ELSE g[i - 1] \o seqs[i]]
           flatten == CHOOSE g : Is(g)
<1>0. Len(seqs) \in Nat \ {0} /\ Len(seqs) \in 1 .. Len(seqs) /\ 1 \in 1 .. Len(seqs)
  BY EmptySeq
<1>1. PICK f \in [1 .. Len(seqs) -> Seq(S)] :
          /\ f[1] = seqs[1]
          /\ \A n \in 2 .. Len(seqs) : f[n] = f[n - 1] \o seqs[n]
  <2>1. FlattensUpTo(seqs, S, Len(seqs))
    BY FlattenSteps
  <2> QED
    BY <2>1, Zenon DEF FlattensUpTo
<1>2. Is(f)
  <2>1. f = [n \in 1 .. Len(seqs) |-> f[n]]
    OBVIOUS
  <2>2. \A n \in 1 .. Len(seqs) : f[n] = IF n = 1 THEN seqs[n] ELSE f[n - 1] \o seqs[n]
    <3> SUFFICES ASSUME NEW n \in 1 .. Len(seqs)
                 PROVE  f[n] = IF n = 1 THEN seqs[n] ELSE f[n - 1] \o seqs[n]
      OBVIOUS
    <3>1. CASE n = 1
      BY <1>1, <3>1
    <3>2. CASE n # 1
      <4>1. n \in 2 .. Len(seqs)
        BY <3>2
      <4> QED
        BY <1>1, <3>2, <4>1
    <3> QED
      BY <3>1, <3>2
  <2> QED
    BY <2>1, <2>2
<1>3. Is(flatten)
  BY <1>2, Zenon
<1>4. FlattenSeq(seqs) = flatten[Len(seqs)]
  BY <1>0 DEF FlattenSeq
<1> HIDE DEF flatten
<1>5. flatten[1] = seqs[1]
  BY <1>0, <1>3
<1>6. ASSUME NEW n \in 2 .. Len(seqs) PROVE flatten[n] = flatten[n - 1] \o seqs[n]
  <2>1. n \in 1 .. Len(seqs) /\ n # 1
    OBVIOUS
  <2> QED
    BY <1>3, <2>1
<1> DEFINE T == {n \in 1 .. Len(seqs) : flatten[n] # f[n]}
<1>7. T = {}
  <2> SUFFICES ASSUME T # {} PROVE FALSE
    OBVIOUS
  <2>1. T \in SUBSET Nat
    OBVIOUS
  <2>2. PICK m \in T : \A y \in T : m <= y
    BY <2>1, LeastOfNats
  <2>3. m \in 2 .. Len(seqs) /\ m - 1 \in 1 .. Len(seqs)
    BY <1>1, <1>5, <2>2
  <2>4. m - 1 \notin T
    BY <2>2, <2>3
  <2> QED
    BY <1>1, <1>6, <2>2, <2>3, <2>4
<1>8. FlattenedBy(seqs, S, f)
  BY <1>0, <1>1, <1>4, <1>7 DEF FlattenedBy
<1> QED
  BY <1>8

\* The first `n' of some lists, made into one.
Joined(seqs, n) == FlattenSeq([i \in 1 .. n |-> seqs[i]])

\* No lists joined are the empty list.
LEMMA JoinedNone == ASSUME NEW seqs PROVE Joined(seqs, 0) = <<>>
<1>1. [i \in 1 .. 0 |-> seqs[i]] = <<>>
  OBVIOUS
<1> QED
  BY <1>1 DEF Joined, FlattenSeq

\* One more list is put behind those joined before.
LEMMA JoinedNext ==
    ASSUME NEW S, NEW m \in Nat, NEW seqs \in [1 .. m -> Seq(S)], NEW n \in Nat, n < m
    PROVE  /\ Joined(seqs, n) \in Seq(S)
           /\ Joined(seqs, n + 1) = Joined(seqs, n) \o seqs[n + 1]
<1> DEFINE one == [i \in 1 .. n |-> seqs[i]]
           two == [i \in 1 .. n + 1 |-> seqs[i]]
<1>1. /\ one \in Seq(Seq(S)) /\ Len(one) = n
      /\ two \in Seq(Seq(S)) /\ Len(two) = n + 1 /\ two # <<>>
      /\ \A i \in 1 .. n : one[i] = seqs[i]
      /\ \A i \in 1 .. n + 1 : two[i] = seqs[i]
  <2>1. \A i \in 1 .. n + 1 : seqs[i] \in Seq(S)
    OBVIOUS
  <2>2. one \in [1 .. n -> Seq(S)] /\ two \in [1 .. n + 1 -> Seq(S)]
    BY <2>1
  <2>3. n + 1 \in Nat
    OBVIOUS
  <2> HIDE DEF one, two
  <2>4. one \in Seq(Seq(S)) /\ Len(one) = n
    BY <2>2, SeqDef, LenProperties
  <2>5. two \in Seq(Seq(S)) /\ Len(two) = n + 1
    BY <2>2, <2>3, SeqDef, LenProperties
  <2>6. two # <<>>
    BY <2>5
  <2> QED
    BY <2>4, <2>5, <2>6 DEF one, two
<1>2. Joined(seqs, n) = FlattenSeq(one) /\ Joined(seqs, n + 1) = FlattenSeq(two)
  BY DEF Joined
<1> HIDE DEF one, two
<1>3. PICK g : FlattenedBy(two, S, g)
  BY <1>1, FlattenIs
<1>4. CASE n = 0
  <2>1. Joined(seqs, 0) = <<>>
    BY JoinedNone
  <2>2. Joined(seqs, 1) = seqs[1] /\ seqs[1] \in Seq(S)
    BY <1>1, <1>2, <1>3, <1>4 DEF FlattenedBy
  <2>3. <<>> \o seqs[1] = seqs[1]
    BY <2>2, ConcatEmptySeq
  <2>4. <<>> \in Seq(S)
    OBVIOUS
  <2>5. n + 1 = 1
    BY <1>4
  <2> QED
    BY ONLY <1>4, <2>1, <2>2, <2>3, <2>4, <2>5
<1>5. CASE n # 0
  <2>1. one # <<>>
    BY <1>1, <1>5
  <2>2. PICK f : FlattenedBy(one, S, f)
    BY <1>1, <2>1, FlattenIs
  <2> DEFINE T == {k \in 1 .. n : f[k] # g[k]}
  <2>3. T = {}
    <3> SUFFICES ASSUME T # {} PROVE FALSE
      OBVIOUS
    <3>1. T \in SUBSET Nat
      OBVIOUS
    <3>2. PICK k \in T : \A y \in T : k <= y
      BY <3>1, LeastOfNats
    <3>3. 1 \notin T
      BY <1>1, <1>3, <1>5, <2>2 DEF FlattenedBy
    <3>4. k \in 2 .. n /\ k \in 2 .. n + 1 /\ k - 1 \in 1 .. n /\ k - 1 < k
      BY <3>2, <3>3
    <3>5. k - 1 \notin T
      BY <3>2, <3>4
    <3>6. f[k - 1] = g[k - 1]
      BY <3>4, <3>5
    <3>7. f[k] = f[k - 1] \o one[k] /\ g[k] = g[k - 1] \o two[k]
      BY <1>1, <1>3, <2>2, <3>4 DEF FlattenedBy
    <3>8. one[k] = two[k]
      BY <1>1, <3>4
    <3> QED
      BY <3>2, <3>6, <3>7, <3>8
  <2>4. f[n] = g[n] /\ FlattenSeq(one) = f[n] /\ f[n] \in Seq(S)
    <3>1. n \in 1 .. n
      BY <1>5
    <3>2. f[n] = g[n]
      BY ONLY <2>3, <3>1
    <3> QED
      BY <1>1, <2>2, <3>1, <3>2 DEF FlattenedBy
  <2>5. FlattenSeq(two) = g[n + 1] /\ g[n + 1] = g[n] \o two[n + 1]
    <3>1. n + 1 \in 2 .. n + 1 /\ (n + 1) - 1 = n
      BY <1>5
    <3> QED
      BY <1>1, <1>3, <3>1 DEF FlattenedBy
  <2>6. two[n + 1] = seqs[n + 1]
    BY <1>1
  <2> QED
    BY <1>2, <2>4, <2>5, <2>6
<1> QED
  BY <1>4, <1>5

\* The entries of a list that come before the i-th when it is sorted.
Ahead(keys, N, i) == {j \in 1 .. N : Earlier(keys, j, i)}

\* Their number is a place of its own for each entry, and each place is taken.
LEMMA RankFacts ==
    ASSUME NEW N \in Nat, NEW keys \in [1 .. N -> Int]
    PROVE  /\ \A i \in 1 .. N : Cardinality(Ahead(keys, N, i)) \in 0 .. N - 1
           /\ \A i, j \in 1 .. N : Earlier(keys, i, j)
                 => Cardinality(Ahead(keys, N, i)) < Cardinality(Ahead(keys, N, j))
           /\ \A n \in 1 .. N : \E i \in 1 .. N : Cardinality(Ahead(keys, N, i)) = n - 1
<1>1. \A i, j, k \in 1 .. N : Earlier(keys, i, j) /\ Earlier(keys, j, k) => Earlier(keys, i, k)
  BY DEF Earlier
<1>2. /\ \A i \in 1 .. N : ~ Earlier(keys, i, i)
      /\ \A i, j \in 1 .. N : i # j => Earlier(keys, i, j) \/ Earlier(keys, j, i)
  BY DEF Earlier
<1>3. IsFiniteSet(1 .. N) /\ Cardinality(1 .. N) = N
  <2>1. Cardinality(1 .. N) = IF 1 > N THEN 0 ELSE N - 1 + 1
    BY FS_Interval
  <2> QED
    BY <2>1, FS_Interval
<1>4. ASSUME NEW i \in 1 .. N
      PROVE  IsFiniteSet(Ahead(keys, N, i)) /\ Cardinality(Ahead(keys, N, i)) \in 0 .. N - 1
  <2>1. Ahead(keys, N, i) \in SUBSET (1 .. N) /\ i \notin Ahead(keys, N, i)
    BY <1>2 DEF Ahead
  <2>2. /\ IsFiniteSet(Ahead(keys, N, i)) /\ Cardinality(Ahead(keys, N, i)) <= N
        /\ Cardinality(Ahead(keys, N, i)) # N
    <3>1. /\ IsFiniteSet(Ahead(keys, N, i)) /\ Cardinality(Ahead(keys, N, i)) <= Cardinality(1 .. N)
          /\ Cardinality(1 .. N) = Cardinality(Ahead(keys, N, i)) => 1 .. N = Ahead(keys, N, i)
      BY ONLY <1>3, <2>1, FS_Subset
    <3> QED
      BY <1>3, <2>1, <3>1
  <2>3. Cardinality(Ahead(keys, N, i)) \in Nat
    BY <2>2, FS_CardinalityType
  <2> QED
    BY <2>2, <2>3
<1>5. ASSUME NEW i \in 1 .. N, NEW j \in 1 .. N, Earlier(keys, i, j)
      PROVE  Cardinality(Ahead(keys, N, i)) < Cardinality(Ahead(keys, N, j))
  <2>1. Ahead(keys, N, i) \cup {i} \in SUBSET Ahead(keys, N, j) /\ i \notin Ahead(keys, N, i)
    BY <1>1, <1>2, <1>5 DEF Ahead
  <2>2. Cardinality(Ahead(keys, N, i) \cup {i}) = Cardinality(Ahead(keys, N, i)) + 1
    BY <1>4, <2>1, FS_AddElement
  <2>3. Cardinality(Ahead(keys, N, i) \cup {i}) <= Cardinality(Ahead(keys, N, j))
    BY <1>4, <2>1, FS_Subset
  <2>4. Cardinality(Ahead(keys, N, i)) \in Int /\ Cardinality(Ahead(keys, N, j)) \in Int
    BY <1>4
  <2> QED
    BY <2>2, <2>3, <2>4
<1>6. ASSUME NEW n \in 1 .. N PROVE \E i \in 1 .. N : Cardinality(Ahead(keys, N, i)) = n - 1
  <2> DEFINE rank == [i \in 1 .. N |-> Cardinality(Ahead(keys, N, i))]
  <2>1. rank \in [1 .. N -> 0 .. N - 1]
    BY <1>4
  <2>2. ASSUME NEW i \in 1 .. N, NEW j \in 1 .. N, rank[i] = rank[j] PROVE i = j
    <3> SUFFICES ASSUME i # j PROVE FALSE
      OBVIOUS
    <3>1. Cardinality(Ahead(keys, N, i)) = Cardinality(Ahead(keys, N, j))
      BY <2>2
    <3>2. Cardinality(Ahead(keys, N, i)) \in Int
      BY <1>4
    <3>3. \/ Cardinality(Ahead(keys, N, i)) < Cardinality(Ahead(keys, N, j))
          \/ Cardinality(Ahead(keys, N, j)) < Cardinality(Ahead(keys, N, i))
      BY <1>2, <1>5
    <3> QED
      BY <3>1, <3>2, <3>3
  <2>3. rank \in Injection(1 .. N, 0 .. N - 1)
    BY <2>1, <2>2 DEF Injection, IsInjective
  <2>4. IsFiniteSet(0 .. N - 1) /\ Cardinality(0 .. N - 1) = N
    <3>1. /\ IsFiniteSet(0 .. N - 1)
          /\ Cardinality(0 .. N - 1) = IF 0 > N - 1 THEN 0 ELSE (N - 1) - 0 + 1
      BY FS_Interval
    <3> QED
      BY <3>1
  <2> HIDE DEF rank
  <2>5. rank \in Surjection(1 .. N, 0 .. N - 1)
    BY <1>3, <2>3, <2>4, FS_Injection
  <2>6. n - 1 \in 0 .. N - 1
    OBVIOUS
  <2>7. PICK i \in 1 .. N : rank[i] = n - 1
    BY <2>5, <2>6 DEF Surjection
  <2> QED
    BY <2>7 DEF rank
<1> QED
  BY <1>4, <1>5, <1>6

\* A sorted list has the entries of the list, by their keys.
SortsBy(list, keys, out, p) ==
    /\ Len(out) = Len(list)
    /\ p \in [1 .. Len(list) -> 1 .. Len(list)]
    /\ \A n \in 1 .. Len(list) : out[n] = list[p[n]]
    /\ \A i \in 1 .. Len(list) : \E n \in 1 .. Len(list) : p[n] = i
    /\ \A m, n \in 1 .. Len(list) : m < n => Earlier(keys, p[m], p[n])

\* A sorted list is the list, each entry at the place of its rank.
LEMMA SortedFacts ==
    ASSUME NEW S, NEW list \in Seq(S), NEW keys \in [1 .. Len(list) -> Int]
    PROVE  /\ SortedBy(list, keys) \in Seq(S)
           /\ \E p : SortsBy(list, keys, SortedBy(list, keys), p)
<1> DEFINE N == Len(list)
           Rank(i) == Cardinality(Ahead(keys, N, i))
           p == [n \in 1 .. N |-> CHOOSE i \in 1 .. N : Rank(i) = n - 1]
           out == SortedBy(list, keys)
<1>1. N \in Nat /\ keys \in [1 .. N -> Int]
  OBVIOUS
<1>2. /\ \A i \in 1 .. N : Rank(i) \in 0 .. N - 1
      /\ \A i, j \in 1 .. N : Earlier(keys, i, j) => Rank(i) < Rank(j)
      /\ \A n \in 1 .. N : \E i \in 1 .. N : Rank(i) = n - 1
  BY <1>1, RankFacts
<1>3. out = [n \in 1 .. N |-> list[CHOOSE i \in 1 .. N : Rank(i) = n - 1]]
  BY DEF SortedBy, Ahead
<1> HIDE DEF N, out, Rank
<1>4. \A n \in 1 .. N : p[n] \in 1 .. N /\ Rank(p[n]) = n - 1
  BY <1>2
<1>5. \A n \in 1 .. N : out[n] = list[p[n]]
  BY <1>3
<1> HIDE DEF p
<1>6. \A i \in 1 .. N : list[i] \in S
  BY DEF N
<1>7. out \in Seq(S) /\ Len(out) = N
  <2>1. out \in [1 .. N -> S]
    BY <1>3, <1>4, <1>6 DEF p
  <2> QED
    BY <1>1, <2>1, SeqDef, LenProperties
<1>8. \A i, j \in 1 .. N : Rank(i) = Rank(j) => i = j
  <2> SUFFICES ASSUME NEW i \in 1 .. N, NEW j \in 1 .. N, Rank(i) = Rank(j), i # j PROVE FALSE
    OBVIOUS
  <2>1. Earlier(keys, i, j) \/ Earlier(keys, j, i)
    BY <1>1 DEF Earlier
  <2>2. Rank(i) \in Int /\ Rank(j) \in Int
    BY <1>1, <1>2
  <2>3. Rank(i) < Rank(j) \/ Rank(j) < Rank(i)
    BY <1>2, <2>1
  <2> QED
    BY <2>2, <2>3
<1>9. ASSUME NEW i \in 1 .. N PROVE \E n \in 1 .. N : p[n] = i
  <2>1. Rank(i) + 1 \in 1 .. N /\ (Rank(i) + 1) - 1 = Rank(i)
    BY <1>1, <1>2
  <2>2. p[Rank(i) + 1] = i
    BY <1>4, <1>8, <2>1
  <2> QED
    BY <2>1, <2>2
<1>10. ASSUME NEW m \in 1 .. N, NEW n \in 1 .. N, m < n PROVE Earlier(keys, p[m], p[n])
  <2>1. p[m] # p[n] /\ p[m] \in 1 .. N /\ p[n] \in 1 .. N
    BY <1>1, <1>4, <1>10
  <2>2. Earlier(keys, p[m], p[n]) \/ Earlier(keys, p[n], p[m])
    BY <1>1, <2>1 DEF Earlier
  <2>3. CASE Earlier(keys, p[n], p[m])
    <3>1. Rank(p[n]) < Rank(p[m])
      BY <1>2, <2>1, <2>3
    <3> QED
      BY <1>1, <1>4, <1>10, <3>1
  <2> QED
    BY <2>2, <2>3
<1>11. p \in [1 .. N -> 1 .. N]
  BY <1>4 DEF p
<1>12. SortsBy(list, keys, out, p)
  BY <1>5, <1>7, <1>9, <1>10, <1>11 DEF SortsBy, N
<1> QED
  BY <1>7, <1>12 DEF out

-----------------------------------------------------------------------------
\* The steps of the specification, for the case split every proof makes.
LEMMA StepCases ==
  ASSUME [Next]_vars
  PROVE  \/ Deploy
         \/ \E s \in Sessions : New(s) \/ Initialize(s) \/ Notify(s)
         \/ \E s \in Sessions : HandshakeFails(s) \/ Record(s) \/ Call(s) \/ Answered(s)
         \/ \E s \in Sessions : CallFails(s) \/ CallUnauthorized(s) \/ Drop(s) \/ End(s)
         \/ UNCHANGED vars
  BY DEF Next, SessionStep

-----------------------------------------------------------------------------

\* Every variable keeps its type: above all, neither the cache nor a client
\* ever holds a version that this build does not support.
THEOREM SessionsTypeCorrect == Spec => []TypeOK
<1> USE AskedAssumption DEF TypeOK, PCs, Versions
<1>1. Init => TypeOK
  BY DEF Init
<1>2. TypeOK /\ [Next]_vars => TypeOK'
  <2> SUFFICES ASSUME TypeOK, [Next]_vars PROVE TypeOK'
    OBVIOUS
  <2> USE DEF endpointVars, historyVars, Fail
  <2>1. CASE Deploy
    BY <2>1 DEF Deploy
  <2>2. ASSUME NEW s \in Sessions, New(s) PROVE TypeOK'
    BY <2>2 DEF New
  <2>3. ASSUME NEW s \in Sessions, Initialize(s) PROVE TypeOK'
    BY <2>3 DEF Initialize
  <2>4. ASSUME NEW s \in Sessions, Notify(s) PROVE TypeOK'
    BY <2>4 DEF Notify
  <2>5. ASSUME NEW s \in Sessions, HandshakeFails(s) PROVE TypeOK'
    BY <2>5 DEF HandshakeFails, Accepts
  <2>6. ASSUME NEW s \in Sessions, Record(s) \/ Call(s) \/ Answered(s) PROVE TypeOK'
    <3>1. CASE Record(s)
      BY <3>1 DEF Record
    <3>2. CASE Call(s)
      BY <3>2 DEF Call
    <3>3. CASE Answered(s)
      BY <3>3 DEF Answered
    <3> QED
      BY <2>6, <3>1, <3>2, <3>3
  <2>7. ASSUME NEW s \in Sessions, CallFails(s) \/ CallUnauthorized(s) PROVE TypeOK'
    BY <2>7 DEF CallFails, CallUnauthorized, Accepts
  <2>8. ASSUME NEW s \in Sessions, Drop(s) PROVE TypeOK'
    BY <2>8 DEF Drop
  <2>9. ASSUME NEW s \in Sessions, End(s) PROVE TypeOK'
    BY <2>9 DEF End
  <2>10. CASE UNCHANGED vars
    BY <2>10 DEF vars
  <2> QED
    BY <2>1, <2>2, <2>3, <2>4, <2>5, <2>6, <2>7, <2>8, <2>9, <2>10, StepCases
<1> QED
  BY <1>1, <1>2, PTL DEF Spec

-----------------------------------------------------------------------------
(* The shared version *)

\* What a session is about to record was taken by the endpoint.
RecordIsSpoken == \A s \in Sessions : pc[s] = "record" => version[s] \in spoken

\* Now is part of ever.
SpeaksIsSpoken == speaks \subseteq spoken

SharedInv == CacheWasSpoken /\ RecordIsSpoken /\ SpeaksIsSpoken

\* The cache only ever names a version that the endpoint has spoken, although
\* an unreadable handshake is taken for one that agrees: the notification
\* after it is what the endpoint refuses.
THEOREM SharedVersionWasSpoken == Spec => []CacheWasSpoken
<1> USE DEF SharedInv, CacheWasSpoken, RecordIsSpoken, SpeaksIsSpoken
<1>1. Init => SharedInv
  BY DEF Init
<1>2. TypeOK /\ SharedInv /\ [Next]_vars => SharedInv'
  <2> SUFFICES ASSUME TypeOK, SharedInv, [Next]_vars PROVE SharedInv'
    OBVIOUS
  <2> USE DEF TypeOK, endpointVars, historyVars, Fail
  <2>1. CASE Deploy
    BY <2>1 DEF Deploy
  <2>2. ASSUME NEW s \in Sessions, New(s) PROVE SharedInv'
    BY <2>2 DEF New
  <2>3. ASSUME NEW s \in Sessions, Initialize(s) PROVE SharedInv'
    <3>1. /\ UNCHANGED <<speaks, spoken, cache>>
          /\ pc'[s] # "record"
          /\ \A t \in Sessions : t # s => pc'[t] = pc[t] /\ version'[t] = version[t]
      BY <2>3 DEF Initialize
    <3> QED
      BY <3>1
  <2>4. ASSUME NEW s \in Sessions, Notify(s) PROVE SharedInv'
    BY <2>4 DEF Notify, Accepts
  <2>5. ASSUME NEW s \in Sessions,
               HandshakeFails(s) \/ Record(s) \/ Call(s) \/ Answered(s)
        PROVE  SharedInv'
    BY <2>5 DEF HandshakeFails, Record, Call, Answered
  <2>6. ASSUME NEW s \in Sessions,
               CallFails(s) \/ CallUnauthorized(s) \/ Drop(s) \/ End(s)
        PROVE  SharedInv'
    BY <2>6 DEF CallFails, CallUnauthorized, Drop, End
  <2>7. CASE UNCHANGED vars
    BY <2>7 DEF vars
  <2> QED
    BY <2>1, <2>2, <2>3, <2>4, <2>5, <2>6, <2>7, StepCases
<1> QED
  BY <1>1, <1>2, SessionsTypeCorrect, PTL DEF Spec

-----------------------------------------------------------------------------
(* The retry *)

\* A handshake is made by who has not skipped one, and makes one.
HandshakeIsOwed ==
    \A s \in Sessions :
        /\ skipped[s] => handshakes[s] = 0 /\ repeats[s] = 0
        /\ pc[s] \in {"initialize", "notify"} => ~ skipped[s] /\ handshakes[s] = 0
        /\ pc[s] = "drop" => skipped[s]
        /\ pc[s] = "idle" => handshakes[s] = 0 /\ repeats[s] = 0

\* Who has completed one and sends requests is spoken to, until a deployment.
HandshakeHolds ==
    \A s \in Sessions :
        /\ pc[s] \in {"record", "ready", "call"}
        /\ ~ skipped[s]
        /\ ~ outdated[s]
        => version[s] \in speaks

RetryInv == HandshakeIsOwed /\ HandshakeHolds /\ RefusalIsNews /\ RetriedOnce

\* The invariant of the retries.
LEMMA RetryInvariant == Spec => []RetryInv
<1> USE DEF RetryInv, HandshakeIsOwed, HandshakeHolds, RefusalIsNews, RetriedOnce
<1>1. Init => RetryInv
  BY DEF Init
<1>2. TypeOK /\ RetryInv /\ [Next]_vars => RetryInv'
  <2> SUFFICES ASSUME TypeOK, RetryInv, [Next]_vars PROVE RetryInv'
    OBVIOUS
  <2> USE DEF TypeOK, PCs, endpointVars, historyVars, Fail, Accepts
  <2>1. CASE Deploy
    BY <2>1 DEF Deploy
  <2>2. ASSUME NEW s \in Sessions, New(s) PROVE RetryInv'
    BY <2>2 DEF New
  <2>3. ASSUME NEW s \in Sessions, Initialize(s) PROVE RetryInv'
    <3>1. /\ pc[s] = "initialize"
          /\ \/ pc' = [pc EXCEPT ![s] = "notify"] /\ UNCHANGED refused
             \/ /\ pc' = [pc EXCEPT ![s] = "failed"]
                /\ refused' = [refused EXCEPT ![s] = FALSE]
          /\ \A t \in Sessions :
                t # s => version'[t] = version[t] /\ outdated'[t] = outdated[t]
          /\ UNCHANGED <<speaks, skipped, handshakes, repeats>>
      BY <2>3 DEF Initialize
    <3> QED
      BY <3>1
  <2>4. ASSUME NEW s \in Sessions, Notify(s) PROVE RetryInv'
    BY <2>4 DEF Notify
  <2>5. ASSUME NEW s \in Sessions, HandshakeFails(s) PROVE RetryInv'
    BY <2>5 DEF HandshakeFails
  <2>6. ASSUME NEW s \in Sessions, Record(s) \/ Call(s) \/ Answered(s) PROVE RetryInv'
    BY <2>6 DEF Record, Call, Answered
  <2>7. ASSUME NEW s \in Sessions, CallFails(s) PROVE RetryInv'
    BY <2>7 DEF CallFails
  <2>8. ASSUME NEW s \in Sessions, CallUnauthorized(s) PROVE RetryInv'
    BY <2>8 DEF CallUnauthorized
  <2>9. ASSUME NEW s \in Sessions, Drop(s) PROVE RetryInv'
    BY <2>9 DEF Drop
  <2>10. ASSUME NEW s \in Sessions, End(s) PROVE RetryInv'
    BY <2>10 DEF End
  <2>11. CASE UNCHANGED vars
    BY <2>11 DEF vars
  <2> QED
    BY <2>1, <2>2, <2>3, <2>4, <2>5, <2>6, <2>7, <2>8, <2>9, <2>10, <2>11, StepCases
<1> QED
  BY <1>1, <1>2, SessionsTypeCorrect, PTL DEF Spec

\* No session fails over a version that it took from another session without
\* a handshake of its own.
THEOREM RefusalsAreNews == Spec => []RefusalIsNews
<1>1. RetryInv => RefusalIsNews
  BY DEF RetryInv
<1> QED
  BY <1>1, RetryInvariant, PTL

\* However many calls a session makes, it sends one of them again at most.
THEOREM RetriesAreBounded == Spec => []RetriedOnce
<1>1. RetryInv => RetriedOnce
  BY DEF RetryInv
<1> QED
  BY <1>1, RetryInvariant, PTL

-----------------------------------------------------------------------------
(* Linear's jobs on their sessions *)

\* Linear's workers use a session only as McpSession says: each step of a job is one of
\* its session, one of the endpoint, or none of either.
THEOREM JobsImplementSessions == LinearSpec => Spec
<1>1. LinearInit => Init
  BY DEF LinearInit
<1>2. [LinearNext]_linearVars => [Next]_vars
  <2> SUFFICES ASSUME [LinearNext]_linearVars PROVE [Next]_vars
    OBVIOUS
  <2>1. ASSUME NEW s \in Sessions, LinearStep(s) PROVE Next
    BY <2>1 DEF LinearStep, Begin, CallTool, ReadAnswer, AnswerIsMalformed, JobFails,
                SessionGoesOn, JobIsOver, Next, SessionStep
  <2>2. CASE Deploy
    BY <2>2 DEF Next
  <2>3. CASE UNCHANGED linearVars
    BY <2>3 DEF linearVars
  <2> QED
    BY <2>1, <2>2, <2>3 DEF LinearNext
<1> QED
  BY <1>1, <1>2, PTL DEF LinearSpec, Spec

\* So what sessions owe each other they owe each other under Linear's jobs, too.
THEOREM JobsKeepTheSessions ==
    LinearSpec => [](CacheWasSpoken /\ RefusalIsNews /\ RetriedOnce)
  BY JobsImplementSessions, SharedVersionWasSpoken, RefusalsAreNews, RetriesAreBounded, PTL

\* The comments that an issue's page shows and those it counts are all of them, or the
\* page says that there may be more, for every number of comments: _comments_of.
THEOREM EveryCommentIsCounted == CommentsAreCounted
  BY LimitsAssumption
     DEF CommentsAreCounted, ShownComments, HiddenComments, IsLowerBound, Fetched

-----------------------------------------------------------------------------
(* What they read *)

\* What each page of a tool's list has.
ReadPages(tool) == [n \in 1 .. Len(PagesOf(tool)) |-> PagesOf(tool)[n].entries]

JobNames == {"tab", "project", "issue"}

\* The tools of job `j' before the k-th are read to their end, and the first `n' pages
\* of the one after them; `d' are the tools that are due, `e' what was read.
WorkingOn(j, d, e, n, tools, k) ==
    /\ tools \in Tools(j) /\ k \in 0 .. Len(tools) - 1
    /\ d = SubSeq(tools, k + 1, Len(tools))
    /\ e \in [Range(tools) -> Seq(Entries)]
    /\ \A i \in 1 .. k : e[tools[i]] = Reachable(PagesOf(tools[i]))
    /\ \A i \in k + 2 .. Len(tools) : e[tools[i]] = <<>>
    /\ n \in 0 .. Len(PagesOf(tools[k + 1])) - 1
    /\ \A m \in 1 .. n : Follows(PagesOf(tools[k + 1])[m], m)
    /\ e[tools[k + 1]] = Joined(ReadPages(tools[k + 1]), n)

OnItsWay(j, d, e, n) == \E tools, k : WorkingOn(j, d, e, n, tools, k)

Whole(j, e) ==
    \E tools \in Tools(j) :
        /\ e \in [Range(tools) -> Seq(Entries)]
        /\ \A i \in 1 .. Len(tools) : e[tools[i]] = Reachable(PagesOf(tools[i]))

ToolNames == {"get_user", "list_projects", "list_issues", "get_project", "get_issue",
              "list_comments", "list_children", "get_parent"}

\* Two, three or four tools, all different, are a list that names none twice.
AreTools(tools) ==
    /\ tools \in Seq(ToolNames) /\ Len(tools) \in Nat \ {0} /\ DOMAIN tools = 1 .. Len(tools)
    /\ \A a, b \in 1 .. Len(tools) : tools[a] = tools[b] => a = b
    /\ \A a \in 1 .. Len(tools) : tools[a] \in Range(tools)

\* Two different tools are a list of tools.
LEMMA TwoTools ==
    ASSUME NEW a \in ToolNames, NEW b \in ToolNames, a # b
    PROVE  AreTools(<<a, b>>)
<1> DEFINE tools == <<a, b>>
<1>1. /\ 1 .. 2 = {1, 2} /\ Len(tools) = 2 /\ DOMAIN tools = 1 .. 2
      /\ tools[1] = a /\ tools[2] = b
  OBVIOUS
<1>2. tools \in Seq(ToolNames)
  OBVIOUS
<1> HIDE DEF tools
<1>3. \A x, y \in {1, 2} : tools[x] = tools[y] => x = y
  BY <1>1
<1>4. \A x \in 1 .. 2 : tools[x] \in Range(tools)
  BY <1>1 DEF Range
<1>5. AreTools(tools)
  BY <1>1, <1>2, <1>3, <1>4 DEF AreTools
<1> QED
  BY <1>5 DEF tools

\* So are three.
LEMMA ThreeTools ==
    ASSUME NEW a \in ToolNames, NEW b \in ToolNames, NEW c \in ToolNames, a # b, a # c, b # c
    PROVE  AreTools(<<a, b, c>>)
<1> DEFINE tools == <<a, b, c>>
<1>1. /\ 1 .. 3 = {1, 2, 3} /\ Len(tools) = 3 /\ DOMAIN tools = 1 .. 3
      /\ tools[1] = a /\ tools[2] = b /\ tools[3] = c
  OBVIOUS
<1>2. tools \in Seq(ToolNames)
  OBVIOUS
<1> HIDE DEF tools
<1>3. \A x, y \in {1, 2, 3} : tools[x] = tools[y] => x = y
  BY <1>1
<1>4. \A x \in 1 .. 3 : tools[x] \in Range(tools)
  BY <1>1 DEF Range
<1>5. AreTools(tools)
  BY <1>1, <1>2, <1>3, <1>4 DEF AreTools
<1> QED
  BY <1>5 DEF tools

\* So are four.
LEMMA FourTools ==
    ASSUME NEW a \in ToolNames, NEW b \in ToolNames, NEW c \in ToolNames, NEW d \in ToolNames,
           a # b, a # c, a # d, b # c, b # d, c # d
    PROVE  AreTools(<<a, b, c, d>>)
<1> DEFINE tools == <<a, b, c, d>>
<1>1. /\ 1 .. 4 = {1, 2, 3, 4} /\ Len(tools) = 4 /\ DOMAIN tools = 1 .. 4
      /\ tools[1] = a /\ tools[2] = b /\ tools[3] = c /\ tools[4] = d
  OBVIOUS
<1>2. tools \in Seq(ToolNames)
  OBVIOUS
<1> HIDE DEF tools
<1>3. \A x, y \in {1, 2, 3, 4} : tools[x] = tools[y] => x = y
  BY <1>1
<1>4. \A x \in 1 .. 4 : tools[x] \in Range(tools)
  BY <1>1 DEF Range
<1>5. AreTools(tools)
  BY <1>1, <1>2, <1>3, <1>4 DEF AreTools
<1> QED
  BY <1>5 DEF tools

\* A job calls at least one tool, and none twice.
LEMMA ToolsFacts ==
    ASSUME NEW j \in JobNames, NEW tools \in Tools(j)
    PROVE  /\ tools \in Seq(ToolNames) /\ Len(tools) \in Nat \ {0} /\ DOMAIN tools = 1 .. Len(tools)
           /\ \A a, b \in 1 .. Len(tools) : tools[a] = tools[b] => a = b
           /\ \A a \in 1 .. Len(tools) : tools[a] \in Range(tools)
<1>1. \/ tools = <<"get_user", "list_projects", "list_issues">>
      \/ tools = <<"get_project", "list_issues">>
      \/ tools = <<"get_issue", "list_comments", "list_children">>
      \/ tools = <<"get_issue", "list_comments", "list_children", "get_parent">>
  BY DEF Tools, JobNames
<1>2. AreTools(tools)
  <2>1. CASE tools = <<"get_user", "list_projects", "list_issues">>
    <3>1. /\ "get_user" \in ToolNames
          /\ "list_projects" \in ToolNames
          /\ "list_issues" \in ToolNames
      BY DEF ToolNames
    <3>2. AreTools(<<"get_user", "list_projects", "list_issues">>)
      BY <3>1, ThreeTools
    <3> QED
      BY <2>1, <3>2
  <2>2. CASE tools = <<"get_project", "list_issues">>
    <3>1. /\ "get_project" \in ToolNames
          /\ "list_issues" \in ToolNames
      BY DEF ToolNames
    <3>2. AreTools(<<"get_project", "list_issues">>)
      BY <3>1, TwoTools
    <3> QED
      BY <2>2, <3>2
  <2>3. CASE tools = <<"get_issue", "list_comments", "list_children">>
    <3>1. /\ "get_issue" \in ToolNames
          /\ "list_comments" \in ToolNames
          /\ "list_children" \in ToolNames
      BY DEF ToolNames
    <3>2. AreTools(<<"get_issue", "list_comments", "list_children">>)
      BY <3>1, ThreeTools
    <3> QED
      BY <2>3, <3>2
  <2>4. CASE tools = <<"get_issue", "list_comments", "list_children", "get_parent">>
    <3>1. /\ "get_issue" \in ToolNames
          /\ "list_comments" \in ToolNames
          /\ "list_children" \in ToolNames
          /\ "get_parent" \in ToolNames
      BY DEF ToolNames
    <3>2. AreTools(<<"get_issue", "list_comments", "list_children", "get_parent">>)
      BY <3>1, FourTools
    <3> QED
      BY <2>4, <3>2
  <2> QED
    BY <1>1, <2>1, <2>2, <2>3, <2>4
<1> QED
  BY <1>2 DEF AreTools

\* A tool has at least one page, and the last says so unless the limit cuts it.
LEMMA PagesOfFacts ==
    ASSUME NEW tool
    PROVE  LET pages == PagesOf(tool)
           IN  /\ Len(pages) \in Nat \ {0} /\ DOMAIN pages = 1 .. Len(pages)
               /\ Len(pages) < PageLimit => pages[Len(pages)].next # "cursor"
               /\ \A n \in 1 .. Len(pages) : pages[n].entries \in Seq(Entries)
<1>1. ASSUME NEW pages \in {Projects, Issues}
      PROVE  /\ Len(pages) \in Nat \ {0} /\ DOMAIN pages = 1 .. Len(pages)
             /\ Len(pages) < PageLimit => pages[Len(pages)].next # "cursor"
             /\ \A n \in 1 .. Len(pages) : pages[n].entries \in Seq(Entries)
  <2>1. pages \in Seq(Range(pages)) /\ pages # <<>>
    BY PagesAssumption
  <2>2. Len(pages) \in Nat \ {0} /\ DOMAIN pages = 1 .. Len(pages)
    BY <2>1, EmptySeq
  <2>3. Len(pages) < PageLimit => pages[Len(pages)].next # "cursor"
    BY PagesAssumption
  <2>4. ASSUME NEW n \in 1 .. Len(pages) PROVE pages[n].entries \in Seq(Entries)
    <3>1. pages[n] \in Range(pages)
      BY <2>2 DEF Range
    <3>2. pages[n].entries \in Seq(Range(pages[n].entries))
      BY <3>1, PagesAssumption
    <3>3. Range(pages[n].entries) \subseteq Entries
      BY <3>1 DEF Entries, Range
    <3> QED
      BY <3>2, <3>3, SeqMonotonic
  <2> QED
    BY <2>2, <2>3, <2>4
<1>2. ASSUME NEW pages, pages = << [entries |-> <<>>, next |-> "none"] >>
      PROVE  /\ Len(pages) \in Nat \ {0} /\ DOMAIN pages = 1 .. Len(pages)
             /\ Len(pages) < PageLimit => pages[Len(pages)].next # "cursor"
             /\ \A n \in 1 .. Len(pages) : pages[n].entries \in Seq(Entries)
  <2>1. Len(pages) = 1 /\ DOMAIN pages = 1 .. 1 /\ 1 .. 1 = {1}
    BY <1>2
  <2>2. pages[1].entries = <<>> /\ pages[1].next = "none"
    BY <1>2
  <2>3. <<>> \in Seq(Entries)
    BY EmptySeq
  <2>4. \A n \in 1 .. Len(pages) : pages[n].entries \in Seq(Entries)
    <3> SUFFICES ASSUME NEW n \in 1 .. Len(pages) PROVE pages[n].entries \in Seq(Entries)
      OBVIOUS
    <3>1. n = 1
      BY <2>1
    <3> QED
      BY ONLY <2>2, <2>3, <3>1
  <2>5. pages[Len(pages)].next # "cursor"
    BY <2>1, <2>2
  <2> QED
    BY <2>1, <2>4, <2>5
<1>3. \/ PagesOf(tool) \in {Projects, Issues}
      \/ PagesOf(tool) = << [entries |-> <<>>, next |-> "none"] >>
  BY DEF PagesOf
<1> QED
  BY <1>1, <1>2, <1>3

\* What is read of each page is all its entries.
LEMMA ReadPagesFacts ==
    ASSUME NEW tool
    PROVE  /\ ReadPages(tool) \in [1 .. Len(PagesOf(tool)) -> Seq(Entries)]
           /\ \A n \in 1 .. Len(PagesOf(tool)) : ReadPages(tool)[n] = PagesOf(tool)[n].entries
  BY PagesOfFacts DEF ReadPages

\* A tool that follows no further has all that can be reached.
LEMMA ReachedAll ==
    ASSUME NEW tool, NEW n \in 1 .. Len(PagesOf(tool)), ~ Follows(PagesOf(tool)[n], n),
           \A m \in 1 .. n - 1 : Follows(PagesOf(tool)[m], m)
    PROVE  Joined(ReadPages(tool), n) = Reachable(PagesOf(tool))
<1> DEFINE pages == PagesOf(tool)
           cuts == {m \in DOMAIN pages : pages[m].next # "cursor"} \cup {PageLimit}
           cut == CHOOSE x \in cuts : \A y \in cuts : x <= y
<1>1. /\ Len(pages) \in Nat \ {0} /\ DOMAIN pages = 1 .. Len(pages)
      /\ PageLimit \in Nat \ {0}
  BY PagesOfFacts, LimitsAssumption
<1>2. \A m \in 1 .. n - 1 : pages[m].next = "cursor" /\ m < PageLimit
  BY DEF Follows
<1>3. n <= PageLimit
  <2>1. CASE n = 1
    BY <1>1, <2>1
  <2>2. CASE n # 1
    <3>1. n - 1 \in 1 .. n - 1
      BY <1>1, <2>2
    <3> QED
      BY <1>1, <1>2, <3>1
  <2> QED
    BY <2>1, <2>2
<1>4. n \in cuts
  BY <1>1, <1>3 DEF Follows
<1>5. \A y \in cuts : y \in Nat /\ n <= y
  BY <1>1, <1>2, <1>3
<1> HIDE DEF cuts
<1>6. cut = n
  <2>1. cut \in cuts /\ \A y \in cuts : cut <= y
    BY <1>4, <1>5
  <2> HIDE DEF cut
  <2>2. cut \in Nat /\ n <= cut /\ cut <= n
    BY <1>4, <1>5, <2>1
  <2> QED
    BY <2>2
<1>7. Reachable(pages) = FlattenSeq([i \in 1 .. cut |-> pages[i].entries])
  BY DEF Reachable, cuts
<1>8. [i \in 1 .. n |-> pages[i].entries] = [i \in 1 .. n |-> ReadPages(tool)[i]]
  <2>1. \A i \in 1 .. n : pages[i].entries = ReadPages(tool)[i]
    BY <1>1, ReadPagesFacts
  <2> QED
    BY <2>1
<1> QED
  BY <1>6, <1>7, <1>8 DEF Joined

\* One answer more.
LEMMA ReadOn ==
    ASSUME NEW j \in JobNames, NEW d, NEW e, NEW n, NEW tools, NEW k,
           WorkingOn(j, d, e, n, tools, k),
           NEW later, later = [e EXCEPT ![Head(d)] = @ \o PagesOf(Head(d))[n + 1].entries]
    PROVE  LET more == Follows(PagesOf(Head(d))[n + 1], n + 1)
           IN  /\ more => OnItsWay(j, d, later, n + 1)
               /\ ~ more /\ Tail(d) # <<>> => OnItsWay(j, Tail(d), later, 0)
               /\ ~ more /\ Tail(d) = <<>> => Whole(j, later)
<1> DEFINE tool == tools[k + 1]
           pages == PagesOf(tool)
           N == Len(tools)
<1>1. /\ tools \in Tools(j) /\ k \in 0 .. N - 1 /\ d = SubSeq(tools, k + 1, N)
      /\ e \in [Range(tools) -> Seq(Entries)]
      /\ \A i \in 1 .. k : e[tools[i]] = Reachable(PagesOf(tools[i]))
      /\ \A i \in k + 2 .. N : e[tools[i]] = <<>>
      /\ n \in 0 .. Len(pages) - 1
      /\ \A m \in 1 .. n : Follows(pages[m], m)
      /\ e[tool] = Joined(ReadPages(tool), n)
  BY DEF WorkingOn
<1>2. /\ tools \in Seq(ToolNames) /\ N \in Nat \ {0}
      /\ \A a, b \in 1 .. N : tools[a] = tools[b] => a = b
      /\ \A a \in 1 .. N : tools[a] \in Range(tools)
  BY <1>1, ToolsFacts
<1>3. Len(pages) \in Nat \ {0} /\ n + 1 \in 1 .. Len(pages) /\ n \in Nat /\ n < Len(pages)
  <2>1. Len(pages) \in Nat \ {0}
    BY PagesOfFacts
  <2> QED
    BY <1>1, <2>1
<1>4. k + 1 \in 1 .. N /\ N \in k + 1 .. N /\ k \in Nat
  BY <1>1, <1>2
<1>5. Head(d) = tool /\ Tail(d) = SubSeq(tools, k + 2, N)
  <2>1. Head(d) = tool /\ Tail(d) = SubSeq(tools, (k + 1) + 1, N)
    BY <1>1, <1>2, <1>4, HeadTailOfSubSeq
  <2>2. (k + 1) + 1 = k + 2
    BY <1>4
  <2> QED
    BY <2>1, <2>2
<1> HIDE DEF N, tool, pages
<1>6. ReadPages(tool)[n + 1] = pages[n + 1].entries /\ pages[n + 1].entries \in Seq(Entries)
  BY <1>3, ReadPagesFacts, PagesOfFacts DEF pages
<1>7. /\ e[tool] \in Seq(Entries)
      /\ Joined(ReadPages(tool), n + 1) = e[tool] \o pages[n + 1].entries
  <2>1. ReadPages(tool) \in [1 .. Len(pages) -> Seq(Entries)]
    BY ReadPagesFacts DEF pages
  <2>2. /\ Joined(ReadPages(tool), n) \in Seq(Entries)
        /\ Joined(ReadPages(tool), n + 1) = Joined(ReadPages(tool), n) \o ReadPages(tool)[n + 1]
    <3>1. Len(pages) \in Nat
      BY <1>3
    <3> QED
      BY <1>3, <2>1, <3>1, JoinedNext
  <2> QED
    BY <1>1, <1>6, <2>2
<1>8. tool \in Range(tools)
  BY <1>2, <1>4 DEF tool
<1>9. /\ later \in [Range(tools) -> Seq(Entries)]
      /\ later[tool] = Joined(ReadPages(tool), n + 1)
      /\ \A i \in 1 .. N : i # k + 1 => later[tools[i]] = e[tools[i]]
  <2>1. e[tool] \o pages[n + 1].entries \in Seq(Entries)
    BY <1>6, <1>7, ConcatProperties
  <2>2. later = [e EXCEPT ![tool] = e[tool] \o pages[n + 1].entries]
    BY <1>5 DEF pages
  <2>3. \A i \in 1 .. N : i # k + 1 => tools[i] # tool
    BY <1>2, <1>4 DEF tool
  <2>4. later \in [Range(tools) -> Seq(Entries)]
    BY <1>1, <1>8, <2>1, <2>2
  <2>5. later[tool] = e[tool] \o pages[n + 1].entries
    BY <1>1, <1>8, <2>2
  <2>6. \A i \in 1 .. N : i # k + 1 => later[tools[i]] = e[tools[i]]
    BY <1>1, <1>2, <2>2, <2>3
  <2> QED
    BY <1>7, <2>4, <2>5, <2>6
<1>10. ASSUME Follows(pages[n + 1], n + 1) PROVE OnItsWay(j, d, later, n + 1)
  <2>1. n + 1 < Len(pages)
    <3>1. pages[n + 1].next = "cursor" /\ n + 1 < PageLimit
      BY <1>10 DEF Follows
    <3>2. Len(pages) < PageLimit => pages[Len(pages)].next # "cursor"
      BY PagesOfFacts DEF pages
    <3> QED
      BY <1>3, <3>1, <3>2
  <2>2. n + 1 \in 0 .. Len(pages) - 1
    BY <1>3, <2>1
  <2>3. \A m \in 1 .. n + 1 : Follows(pages[m], m)
    BY <1>1, <1>3, <1>10
  <2>4. \A i \in 1 .. k : i \in 1 .. N /\ i # k + 1
    BY <1>4
  <2>5. \A i \in k + 2 .. N : i \in 1 .. N /\ i # k + 1
    BY <1>4
  <2>6. WorkingOn(j, d, later, n + 1, tools, k)
    BY <1>1, <1>9, <2>2, <2>3, <2>4, <2>5 DEF WorkingOn, N, tool, pages
  <2> QED
    BY <2>6 DEF OnItsWay
<1>11. ASSUME ~ Follows(pages[n + 1], n + 1)
       PROVE  \A i \in 1 .. k + 1 : later[tools[i]] = Reachable(PagesOf(tools[i]))
  <2>1. \A m \in 1 .. (n + 1) - 1 : Follows(pages[m], m)
    BY <1>1, <1>3
  <2>2. Joined(ReadPages(tool), n + 1) = Reachable(pages)
    BY <1>3, <1>11, <2>1, ReachedAll DEF pages
  <2>3. ASSUME NEW i \in 1 .. k + 1 PROVE later[tools[i]] = Reachable(PagesOf(tools[i]))
    <3>1. CASE i = k + 1
      BY <1>9, <2>2, <3>1 DEF tool, pages
    <3>2. CASE i # k + 1
      <4>1. i \in 1 .. k /\ i \in 1 .. N
        BY <1>4, <3>2
      <4> QED
        BY <1>1, <1>9, <3>2, <4>1
    <3> QED
      BY <3>1, <3>2
  <2> QED
    BY <2>3
<1>12. ASSUME ~ Follows(pages[n + 1], n + 1), Tail(d) # <<>> PROVE OnItsWay(j, Tail(d), later, 0)
  <2>1. k + 2 \in 1 .. N /\ k + 1 \in 0 .. N - 1 /\ (k + 1) + 1 = k + 2 /\ (k + 1) + 2 = k + 3
    <3>1. k + 2 <= N
      <4> SUFFICES ASSUME N < k + 2 PROVE FALSE
        BY <1>2, <1>4
      <4> QED
        BY <1>2, <1>4, <1>5, <1>12, SubSeqEmpty
    <3> QED
      BY <1>4, <3>1
  <2>2. 0 \in 0 .. Len(PagesOf(tools[k + 2])) - 1
    <3>1. Len(PagesOf(tools[k + 2])) \in Nat \ {0}
      BY PagesOfFacts
    <3> QED
      BY ONLY <3>1
  <2>3. later[tools[k + 2]] = Joined(ReadPages(tools[k + 2]), 0)
    <3>1. k + 2 \in k + 2 .. N /\ k + 2 # k + 1
      BY <1>4, <2>1
    <3> QED
      BY <1>1, <1>9, <2>1, <3>1, JoinedNone
  <2>4. ASSUME NEW i \in k + 3 .. N PROVE later[tools[i]] = <<>>
    <3>1. i \in k + 2 .. N /\ i \in 1 .. N /\ i # k + 1
      BY <1>4
    <3> QED
      BY <1>1, <1>9, <3>1
  <2>5. 1 .. 0 = {}
    OBVIOUS
  <2>6. WorkingOn(j, Tail(d), later, 0, tools, k + 1)
    BY <1>1, <1>5, <1>9, <1>11, <1>12, <2>1, <2>2, <2>3, <2>4, <2>5 DEF WorkingOn, N
  <2> QED
    BY <2>6 DEF OnItsWay
<1>13. ASSUME ~ Follows(pages[n + 1], n + 1), Tail(d) = <<>> PROVE Whole(j, later)
  <2>1. k + 1 = N
    <3> SUFFICES ASSUME k + 1 # N PROVE FALSE
      OBVIOUS
    <3>1. k + 2 <= N /\ k + 2 \in Int /\ N \in Int
      BY <1>2, <1>4
    <3>2. \A i \in k + 2 .. N : tools[i] \in ToolNames
      <4>1. \A i \in k + 2 .. N : i \in 1 .. N
        BY <1>4
      <4> QED
        BY <1>2, <4>1, ElementOfSeq DEF N
    <3>3. Len(SubSeq(tools, k + 2, N)) = N - (k + 2) + 1
      BY <3>1, <3>2, SubSeqProperties
    <3>4. Len(<<>>) = 0
      OBVIOUS
    <3>5. N - (k + 2) + 1 = 0
      BY <1>5, <1>13, <3>3, <3>4
    <3> QED
      BY <1>4, <3>1, <3>5
  <2> QED
    BY <1>1, <1>9, <1>11, <1>13, <2>1 DEF Whole, N
<1> QED
  BY <1>5, <1>10, <1>12, <1>13 DEF pages

\* Where a job stands whose session is at `p' and in a call or not: what it works on
\* while a tool is due, and what it has when it is done.
StandsAs(p, inCall, j, d, e, n, o) ==
    /\ j \in JobNames
    /\ d # <<>> /\ p # "failed" => o = "none" /\ OnItsWay(j, d, e, n)
    /\ p = "call" \/ (inCall /\ p # "failed") => d # <<>>
    /\ o = "done" => Whole(j, e)

JobStands(s) == StandsAs(pc[s], calling[s], job[s], due[s], entries[s], lastPage[s], outcome[s])

JobsTypeOK ==
    /\ DOMAIN job = Sessions /\ DOMAIN due = Sessions /\ DOMAIN entries = Sessions
    /\ DOMAIN lastPage = Sessions /\ DOMAIN outcome = Sessions

JobsInv == JobsTypeOK /\ \A s \in Sessions : JobStands(s)

\* A job that begins has read nothing.
LEMMA JobsBegin ==
    ASSUME TypeOK, JobsInv, NEW s \in Sessions, Begin(s)
    PROVE  JobStands(s)' /\ JobsTypeOK'
<1>0. PICK j \in JobsOf[s] : \E tools \in Tools(j) :
         job' = [job EXCEPT ![s] = j] /\ due' = [due EXCEPT ![s] = tools]
  BY DEF Begin
<1>1. PICK tools \in Tools(j) :
         job' = [job EXCEPT ![s] = j] /\ due' = [due EXCEPT ![s] = tools]
  BY <1>0
<1>2. /\ entries' = [entries EXCEPT ![s] = [tool \in Range(due'[s]) |-> <<>>]]
      /\ lastPage' = [lastPage EXCEPT ![s] = 0] /\ outcome' = [outcome EXCEPT ![s] = "none"]
  BY DEF Begin
<1>3. JobsTypeOK'
  BY <1>1, <1>2 DEF JobsInv, JobsTypeOK
<1>4. /\ job'[s] = j /\ due'[s] = tools /\ lastPage'[s] = 0 /\ outcome'[s] = "none"
      /\ entries'[s] = [tool \in Range(tools) |-> <<>>]
  BY <1>1, <1>2 DEF JobsInv, JobsTypeOK
<1>5. j \in JobNames
  BY JobsAssumption DEF JobNames
<1>6. /\ tools \in Seq(ToolNames) /\ Len(tools) \in Nat \ {0} /\ DOMAIN tools = 1 .. Len(tools)
      /\ \A a \in 1 .. Len(tools) : tools[a] \in Range(tools)
  BY <1>5, ToolsFacts
<1> DEFINE e == [tool \in Range(tools) |-> <<>>]
<1>7. WorkingOn(j, tools, e, 0, tools, 0)
  <2>1. 0 \in 0 .. Len(tools) - 1 /\ 0 + 1 = 1 /\ 0 + 2 = 2 /\ 1 .. 0 = {} /\ 1 \in 1 .. Len(tools)
    BY <1>6
  <2>2. tools = SubSeq(tools, 1, Len(tools))
    BY <1>6, SubSeqFull
  <2>3. e \in [Range(tools) -> Seq(Entries)] /\ \A a \in 1 .. Len(tools) : e[tools[a]] = <<>>
    BY <1>6, EmptySeq
  <2>4. 0 \in 0 .. Len(PagesOf(tools[1])) - 1
    <3>1. Len(PagesOf(tools[1])) \in Nat \ {0}
      BY PagesOfFacts
    <3> QED
      BY ONLY <3>1
  <2>5. e[tools[1]] = Joined(ReadPages(tools[1]), 0)
    BY <2>1, <2>3, JoinedNone
  <2>6. \A i \in 2 .. Len(tools) : e[tools[i]] = <<>>
    BY <2>3
  <2> HIDE DEF e
  <2> QED
    BY <2>1, <2>2, <2>3, <2>4, <2>5, <2>6 DEF WorkingOn
<1>8. OnItsWay(j, tools, e, 0)
  BY <1>7 DEF OnItsWay
<1>9. tools # <<>>
  <2>1. Len(<<>>) = 0
    OBVIOUS
  <2> QED
    BY <1>6, <2>1
<1>10. JobStands(s)'
  BY <1>4, <1>5, <1>8, <1>9 DEF JobStands, StandsAs
<1> QED
  BY <1>3, <1>10

\* Reading an answer adds the entries of one page, of the tool that is being read.
LEMMA JobsRead ==
    ASSUME TypeOK, JobsInv, NEW s \in Sessions, ReadAnswer(s)
    PROVE  JobStands(s)' /\ JobsTypeOK'
<1> DEFINE tool == Head(due[s])
           n == lastPage[s] + 1
           answer == PagesOf(tool)[n]
<1>1. /\ Answered(s) /\ job' = job
      /\ entries' = [entries EXCEPT ![s][tool] = @ \o answer.entries]
      /\ Follows(answer, n) => /\ lastPage' = [lastPage EXCEPT ![s] = n]
                             /\ UNCHANGED <<due, outcome>>
      /\ ~ Follows(answer, n) =>
            /\ lastPage' = [lastPage EXCEPT ![s] = 0]
            /\ due' = [due EXCEPT ![s] = Tail(@)]
            /\ outcome' = [outcome EXCEPT ![s] = IF Tail(due[s]) = <<>> THEN "done" ELSE @]
  BY DEF ReadAnswer
<1>2. JobsTypeOK'
  BY <1>1 DEF JobsInv, JobsTypeOK
<1>3. pc[s] = "call" /\ pc'[s] = "ready" /\ calling'[s] = FALSE
  BY <1>1 DEF Answered, TypeOK
<1>4. /\ job[s] \in JobNames /\ due[s] # <<>> /\ outcome[s] = "none"
      /\ OnItsWay(job[s], due[s], entries[s], lastPage[s])
  BY <1>3 DEF JobsInv, JobStands, StandsAs
<1>5. PICK tools, k : WorkingOn(job[s], due[s], entries[s], lastPage[s], tools, k)
  BY <1>4 DEF OnItsWay
<1>6. entries'[s] = [entries[s] EXCEPT ![tool] = @ \o answer.entries]
  BY <1>1 DEF JobsInv, JobsTypeOK
<1>7. /\ Follows(answer, n) => OnItsWay(job[s], due[s], entries'[s], n)
      /\ ~ Follows(answer, n) /\ Tail(due[s]) # <<>> =>
            OnItsWay(job[s], Tail(due[s]), entries'[s], 0)
      /\ ~ Follows(answer, n) /\ Tail(due[s]) = <<>> => Whole(job[s], entries'[s])
  BY <1>4, <1>5, <1>6, ReadOn
<1> HIDE DEF answer, n, tool
<1>8. CASE Follows(answer, n)
  <2>1. lastPage'[s] = n /\ due'[s] = due[s] /\ outcome'[s] = "none" /\ job'[s] = job[s]
    BY <1>1, <1>4, <1>8 DEF JobsInv, JobsTypeOK
  <2> QED
    BY <1>2, <1>3, <1>4, <1>7, <1>8, <2>1 DEF JobStands, StandsAs
<1>9. CASE ~ Follows(answer, n)
  <2>1. /\ lastPage'[s] = 0 /\ due'[s] = Tail(due[s]) /\ job'[s] = job[s]
        /\ outcome'[s] = IF Tail(due[s]) = <<>> THEN "done" ELSE "none"
    BY <1>1, <1>4, <1>9 DEF JobsInv, JobsTypeOK
  <2>2. CASE Tail(due[s]) = <<>>
    BY <1>2, <1>3, <1>4, <1>7, <1>9, <2>1, <2>2 DEF JobStands, StandsAs
  <2>3. CASE Tail(due[s]) # <<>>
    BY <1>2, <1>3, <1>4, <1>7, <1>9, <2>1, <2>3 DEF JobStands, StandsAs
  <2> QED
    BY <2>2, <2>3
<1> QED
  BY <1>8, <1>9

\* The other steps of a session leave its job as it stood, or end it.
LEMMA JobsOther ==
    ASSUME TypeOK, JobsInv, NEW s \in Sessions,
           \/ CallTool(s) \/ AnswerIsMalformed(s) \/ JobFails(s)
           \/ SessionGoesOn(s) \/ JobIsOver(s)
    PROVE  JobStands(s)' /\ JobsTypeOK'
<1>0. /\ JobStands(s) /\ JobsTypeOK
      /\ pc \in [Sessions -> PCs] /\ calling \in [Sessions -> BOOLEAN]
  BY DEF JobsInv, TypeOK
<1>1. CASE CallTool(s)
  <2>1. pc'[s] = "call" /\ pc[s] = "ready" /\ due[s] # <<>> /\ UNCHANGED jobVars
    BY <1>0, <1>1 DEF CallTool, Call
  <2> QED
    BY <1>0, <2>1 DEF JobStands, StandsAs, jobVars, JobsTypeOK
<1>2. CASE AnswerIsMalformed(s)
  <2>1. /\ pc'[s] = "ready" /\ calling'[s] = FALSE
        /\ outcome'[s] = "failed" /\ due'[s] = <<>> /\ job' = job /\ JobsTypeOK'
    BY <1>0, <1>2 DEF AnswerIsMalformed, Answered, JobsTypeOK
  <2> QED
    BY <1>0, <2>1 DEF JobStands, StandsAs
<1>3. CASE JobFails(s)
  <2>1. /\ UNCHANGED <<job, due, entries, lastPage>>
        /\ outcome'[s] = IF pc'[s] = "failed" THEN "failed" ELSE outcome[s]
        /\ JobsTypeOK'
    BY <1>0, <1>3 DEF JobFails, JobsTypeOK
  <2>2. pc[s] \in {"call", "initialize", "notify"} /\ calling' = calling
        /\ pc'[s] \in {"failed", "drop", "notify"}
    BY <1>0, <1>3 DEF JobFails, CallFails, CallUnauthorized, HandshakeFails, Initialize, Fail
  <2> QED
    BY <1>0, <2>1, <2>2 DEF JobStands, StandsAs
<1>4. CASE SessionGoesOn(s)
  <2>1. /\ UNCHANGED jobVars /\ calling' = calling
        /\ pc[s] \in {"notify", "record", "drop"}
        /\ pc'[s] # "failed" /\ (pc'[s] = "call" => calling[s])
    BY <1>0, <1>4 DEF SessionGoesOn, Notify, Record, Drop
  <2> QED
    BY <1>0, <2>1 DEF JobStands, StandsAs, jobVars, JobsTypeOK
<1>5. CASE JobIsOver(s)
  <2>1. /\ pc'[s] = "idle" /\ calling'[s] = FALSE
        /\ outcome'[s] = "none" /\ due'[s] = <<>> /\ job'[s] = "tab" /\ JobsTypeOK'
    BY <1>0, <1>5 DEF JobIsOver, End, JobsTypeOK
  <2> QED
    BY <2>1 DEF JobStands, StandsAs, JobNames
<1> QED
  BY <1>1, <1>2, <1>3, <1>4, <1>5

\* A session's step leaves the other sessions and their jobs as they were.
LEMMA OthersStand ==
    ASSUME TypeOK, JobsInv, NEW s \in Sessions, LinearStep(s), NEW t \in Sessions, t # s
    PROVE  JobStands(t)'
<1>1. pc'[t] = pc[t] /\ calling'[t] = calling[t]
  <2>1. SessionStep(s)
    BY DEF LinearStep, Begin, CallTool, ReadAnswer, AnswerIsMalformed, JobFails,
           SessionGoesOn, JobIsOver, SessionStep
  <2>2. pc \in [Sessions -> PCs] /\ calling \in [Sessions -> BOOLEAN]
    BY DEF TypeOK
  <2>3. CASE New(s) \/ Initialize(s) \/ Notify(s) \/ HandshakeFails(s) \/ Record(s)
    BY <2>2, <2>3 DEF New, Initialize, Notify, HandshakeFails, Record, Fail
  <2>4. CASE Call(s) \/ Answered(s) \/ CallFails(s) \/ CallUnauthorized(s)
    BY <2>2, <2>4 DEF Call, Answered, CallFails, CallUnauthorized, Fail
  <2>5. CASE Drop(s) \/ End(s)
    BY <2>2, <2>5 DEF Drop, End
  <2> QED
    BY <2>1, <2>3, <2>4, <2>5 DEF SessionStep
<1>2. /\ job'[t] = job[t] /\ due'[t] = due[t] /\ entries'[t] = entries[t]
      /\ lastPage'[t] = lastPage[t] /\ outcome'[t] = outcome[t]
  <2>1. JobsTypeOK
    BY DEF JobsInv
  <2>2. CASE Begin(s)
    BY <2>1, <2>2 DEF Begin, JobsTypeOK
  <2>3. CASE CallTool(s) \/ SessionGoesOn(s)
    BY <2>3 DEF CallTool, SessionGoesOn, jobVars
  <2>4. CASE ReadAnswer(s)
    BY <2>1, <2>4 DEF ReadAnswer, JobsTypeOK
  <2>5. CASE AnswerIsMalformed(s) \/ JobFails(s)
    BY <2>1, <2>5 DEF AnswerIsMalformed, JobFails, JobsTypeOK
  <2>6. CASE JobIsOver(s)
    BY <2>1, <2>6 DEF JobIsOver, JobsTypeOK
  <2> QED
    BY <2>2, <2>3, <2>4, <2>5, <2>6 DEF LinearStep
<1>3. JobStands(t)
  BY DEF JobsInv
<1> QED
  BY <1>1, <1>2, <1>3 DEF JobStands

\* Every step of Linear keeps the invariant of its jobs.
LEMMA JobsStep == TypeOK /\ JobsInv /\ [LinearNext]_linearVars => JobsInv'
<1> SUFFICES ASSUME TypeOK, JobsInv, [LinearNext]_linearVars PROVE JobsInv'
  OBVIOUS
<1>1. CASE \E s \in Sessions : LinearStep(s)
  <2>1. PICK s \in Sessions : LinearStep(s)
    BY <1>1
  <2>2. JobStands(s)' /\ JobsTypeOK'
    BY <2>1, JobsBegin, JobsRead, JobsOther DEF LinearStep
  <2>3. \A t \in Sessions : t # s => JobStands(t)'
    BY <2>1, OthersStand
  <2> QED
    BY <2>2, <2>3 DEF JobsInv
<1>2. CASE Deploy /\ UNCHANGED jobVars
  BY <1>2 DEF Deploy, jobVars, JobsInv, JobsTypeOK, JobStands
<1>3. CASE UNCHANGED linearVars
  BY <1>3 DEF linearVars, vars, jobVars, JobsInv, JobsTypeOK, JobStands
<1> QED
  BY <1>1, <1>2, <1>3 DEF LinearNext

\* What is whole makes a whole tab.
LEMMA TabIsWhole ==
    ASSUME NEW e, Whole("tab", e)
    PROVE  /\ e["list_projects"] = Reachable(Projects) /\ e["list_projects"] \in Seq(Entries)
           /\ e["list_issues"] = Reachable(Issues) /\ e["list_issues"] \in Seq(Entries)
<1>1. PICK tools \in Tools("tab") :
         /\ e \in [Range(tools) -> Seq(Entries)]
         /\ \A i \in 1 .. Len(tools) : e[tools[i]] = Reachable(PagesOf(tools[i]))
  BY DEF Whole
<1>2. tools = <<"get_user", "list_projects", "list_issues">>
  BY DEF Tools
<1>3. Len(tools) = 3 /\ tools[2] = "list_projects" /\ tools[3] = "list_issues"
  BY <1>2
<1>4. 2 \in 1 .. Len(tools) /\ 3 \in 1 .. Len(tools)
  BY <1>3
<1>5. tools[2] \in Range(tools) /\ tools[3] \in Range(tools)
  BY <1>4, ToolsFacts DEF JobNames
<1>6. PagesOf("list_projects") = Projects /\ PagesOf("list_issues") = Issues
  BY DEF PagesOf
<1> QED
  BY <1>1, <1>3, <1>4, <1>5, <1>6

\* The open entries of a list.
LEMMA OpenFacts ==
    ASSUME NEW list \in Seq(Entries)
    PROVE  /\ Kept(list, OpenEntries) \in Seq(Entries)
           /\ Range(Kept(list, OpenEntries)) = {e \in Range(list) : ~ e.closed}
<1>1. /\ Kept(list, OpenEntries) \in Seq(Entries)
      /\ ToSet(Kept(list, OpenEntries)) = ToSet(list) \cap OpenEntries
  BY KeptFacts
<1>2. Range(list) \subseteq Entries /\ DOMAIN list = 1 .. Len(list)
  BY ElementOfSeq DEF Range
<1> QED
  BY <1>1, <1>2 DEF Range, ToSet, OpenEntries

\* Sorted newest first, a list has the same entries.
LEMMA NewestFacts ==
    ASSUME NEW list \in Seq(Entries)
    PROVE  /\ NewestFirst(list) \in Seq(Entries) /\ Len(NewestFirst(list)) = Len(list)
           /\ Range(NewestFirst(list)) = Range(list)
           /\ \A i, j \in 1 .. Len(list) :
                 i < j => NewestFirst(list)[i].stamp >= NewestFirst(list)[j].stamp
<1> DEFINE keys == [i \in DOMAIN list |-> -list[i].stamp]
           out == NewestFirst(list)
           N == Len(list)
<1>1. N \in Nat /\ DOMAIN list = 1 .. N /\ \A i \in 1 .. N : list[i].stamp \in Int
  BY ElementOfSeq, PagesAssumption
<1>2. keys \in [1 .. N -> Int] /\ \A i \in 1 .. N : keys[i] = -list[i].stamp
  BY <1>1
<1>3. out = SortedBy(list, keys)
  BY DEF NewestFirst
<1> HIDE DEF keys, out
<1>4. out \in Seq(Entries)
  BY <1>2, <1>3, SortedFacts
<1>5. PICK p : SortsBy(list, keys, out, p)
  BY <1>2, <1>3, SortedFacts
<1>6. /\ Len(out) = N /\ DOMAIN out = 1 .. N /\ p \in [1 .. N -> 1 .. N]
      /\ \A n \in 1 .. N : out[n] = list[p[n]]
      /\ \A i \in 1 .. N : \E n \in 1 .. N : p[n] = i
      /\ \A m, n \in 1 .. N : m < n => Earlier(keys, p[m], p[n])
  BY <1>4, <1>5 DEF SortsBy
<1> HIDE DEF N
<1>7. Range(out) = Range(list)
  <2>1. Range(out) \subseteq Range(list)
    BY <1>1, <1>6 DEF Range
  <2>2. ASSUME NEW i \in 1 .. N PROVE list[i] \in Range(out)
    <3>1. PICK n \in 1 .. N : p[n] = i
      BY <1>6
    <3>2. out[n] = list[i] /\ n \in DOMAIN out
      BY <1>6, <3>1
    <3> QED
      BY <3>2, Zenon DEF Range
  <2> QED
    BY <1>1, <2>1, <2>2 DEF Range
<1>8. ASSUME NEW i \in 1 .. N, NEW j \in 1 .. N, i < j PROVE out[i].stamp >= out[j].stamp
  <2>1. Earlier(keys, p[i], p[j]) /\ p[i] \in 1 .. N /\ p[j] \in 1 .. N
    BY <1>6, <1>8
  <2>2. keys[p[i]] <= keys[p[j]]
    BY <1>2, <2>1 DEF Earlier
  <2>3. -list[p[i]].stamp <= -list[p[j]].stamp
    BY <1>2, <2>1, <2>2
  <2>4. list[p[i]].stamp \in Int /\ list[p[j]].stamp \in Int
    BY <1>1, <2>1
  <2>5. list[p[i]].stamp >= list[p[j]].stamp
    BY <2>3, <2>4
  <2> QED
    BY <1>6, <2>5
<1> QED
  BY <1>4, <1>6, <1>7, <1>8 DEF out, N

\* The tab has what is open, the projects first and then the issues, newest first.
LEMMA TabItemsFacts ==
    ASSUME NEW projects \in Seq(Entries), NEW issues \in Seq(Entries)
    PROVE  LET one == Kept(projects, OpenEntries)
               items == one \o NewestFirst(Kept(issues, OpenEntries))
           IN  /\ Range(items) = {e \in Range(projects) \cup Range(issues) : ~ e.closed}
               /\ \A i, j \in Len(one) + 1 .. Len(items) : i < j => items[i].stamp >= items[j].stamp
<1> DEFINE one == Kept(projects, OpenEntries)
           open == Kept(issues, OpenEntries)
           two == NewestFirst(open)
           items == one \o two
<1>1. one \in Seq(Entries) /\ Range(one) = {e \in Range(projects) : ~ e.closed}
  BY OpenFacts
<1>2. open \in Seq(Entries) /\ Range(open) = {e \in Range(issues) : ~ e.closed}
  BY OpenFacts
<1> HIDE DEF one, open
<1>3. /\ two \in Seq(Entries) /\ Len(two) = Len(open) /\ Range(two) = Range(open)
      /\ \A i, j \in 1 .. Len(open) : i < j => two[i].stamp >= two[j].stamp
  BY <1>2, NewestFacts
<1> HIDE DEF two
<1>4. ToSet(items) = ToSet(one) \cup ToSet(two)
  BY <1>1, <1>3, ConcatFacts
<1>5. /\ Len(items) = Len(one) + Len(two) /\ Len(one) \in Nat /\ Len(two) \in Nat
      /\ \A i \in 1 .. Len(one) + Len(two) :
            items[i] = IF i <= Len(one) THEN one[i] ELSE two[i - Len(one)]
  <2>1. Len(one) \in Nat /\ Len(two) \in Nat
    BY <1>1, <1>3, LenProperties
  <2>2. /\ Len(one \o two) = Len(one) + Len(two)
        /\ \A i \in 1 .. Len(one) + Len(two) :
              (one \o two)[i] = IF i <= Len(one) THEN one[i] ELSE two[i - Len(one)]
    BY <1>1, <1>3, ConcatProperties
  <2> QED
    BY <2>1, <2>2
<1>6. Range(items) = {e \in Range(projects) \cup Range(issues) : ~ e.closed}
  BY <1>1, <1>2, <1>3, <1>4 DEF Range, ToSet
<1> HIDE DEF items
<1>7. ASSUME NEW i \in Len(one) + 1 .. Len(items), NEW j \in Len(one) + 1 .. Len(items), i < j
      PROVE  items[i].stamp >= items[j].stamp
  <2>1. /\ i - Len(one) \in 1 .. Len(open) /\ j - Len(one) \in 1 .. Len(open)
        /\ i - Len(one) < j - Len(one)
    BY <1>3, <1>5, <1>7
  <2>2. i \in 1 .. Len(one) + Len(two) /\ ~ (i <= Len(one))
    BY <1>5
  <2>3. j \in 1 .. Len(one) + Len(two) /\ ~ (j <= Len(one))
    BY <1>5
  <2>4. items[i] = two[i - Len(one)] /\ items[j] = two[j - Len(one)]
    BY <1>5, <2>2, <2>3
  <2> QED
    BY <1>3, <2>1, <2>4
<1> QED
  BY <1>6, <1>7 DEF items, two, open, one

\* A job that is done has read every page it can reach.
LEMMA StandsWhole ==
    ASSUME JobsInv, NEW s \in Sessions, outcome[s] = "done"
    PROVE  /\ \A tool \in DOMAIN entries[s] : entries[s][tool] = Reachable(PagesOf(tool))
           /\ job[s] = "tab" =>
                 /\ entries[s]["list_projects"] = Reachable(Projects)
                 /\ entries[s]["list_projects"] \in Seq(Entries)
                 /\ entries[s]["list_issues"] = Reachable(Issues)
                 /\ entries[s]["list_issues"] \in Seq(Entries)
<1>1. job[s] \in JobNames /\ Whole(job[s], entries[s])
  BY DEF JobsInv, JobStands, StandsAs
<1>2. PICK tools \in Tools(job[s]) :
         /\ entries[s] \in [Range(tools) -> Seq(Entries)]
         /\ \A i \in 1 .. Len(tools) : entries[s][tools[i]] = Reachable(PagesOf(tools[i]))
  BY <1>1 DEF Whole
<1>3. DOMAIN tools = 1 .. Len(tools)
  BY <1>1, ToolsFacts
<1>4. ASSUME NEW tool \in DOMAIN entries[s]
      PROVE  entries[s][tool] = Reachable(PagesOf(tool))
  <2>1. PICK i \in 1 .. Len(tools) : tools[i] = tool
    BY <1>2, <1>3 DEF Range
  <2> QED
    BY <1>2, <2>1
<1>5. job[s] = "tab" => Whole("tab", entries[s])
  BY <1>1
<1> QED
  BY <1>4, <1>5, TabIsWhole

\* A job of Linear's that is done has read all it could reach, every entry once, and its
\* tab has the open projects and the open issues, newest first, for every service, any
\* number of sessions, and however often they were renewed: _pages and fetch.
THEOREM JobsAreWhole == LinearSpec => []DoneJobsAreWhole
<1>1. LinearInit => JobsInv
  <2> SUFFICES ASSUME LinearInit PROVE JobsInv
    OBVIOUS
  <2>1. JobsTypeOK
    BY DEF LinearInit, JobsTypeOK
  <2>2. ASSUME NEW s \in Sessions PROVE JobStands(s)
    BY DEF LinearInit, Init, JobStands, StandsAs, JobNames
  <2> QED
    BY <2>1, <2>2 DEF JobsInv
<1>2. LinearSpec => []TypeOK
  BY JobsImplementSessions, SessionsTypeCorrect, PTL
<1>3. JobsInv => DoneJobsAreWhole
  <2> SUFFICES ASSUME JobsInv, NEW s \in Sessions, outcome[s] = "done"
               PROVE  /\ \A tool \in DOMAIN entries[s] :
                            entries[s][tool] = Reachable(PagesOf(tool))
                      /\ job[s] = "issue" => CommentsAreCounted
                      /\ job[s] = "tab" =>
                            LET items == TabItems(s)
                                listed == Range(Reachable(Projects)) \cup Range(Reachable(Issues))
                                split == Len(OpenOf(s, "list_projects"))
                            IN /\ Range(items) = {e \in listed : ~ e.closed}
                               /\ \A i, j \in split + 1 .. Len(items) :
                                     i < j => items[i].stamp >= items[j].stamp
    BY DEF DoneJobsAreWhole
  <2>1. \A tool \in DOMAIN entries[s] : entries[s][tool] = Reachable(PagesOf(tool))
    BY StandsWhole
  <2>2. job[s] = "issue" => CommentsAreCounted
    BY EveryCommentIsCounted
  <2>3. ASSUME job[s] = "tab"
        PROVE  LET items == TabItems(s)
                   listed == Range(Reachable(Projects)) \cup Range(Reachable(Issues))
                   split == Len(OpenOf(s, "list_projects"))
               IN /\ Range(items) = {e \in listed : ~ e.closed}
                  /\ \A i, j \in split + 1 .. Len(items) :
                        i < j => items[i].stamp >= items[j].stamp
    <3>1. PICK projects \in Seq(Entries), issues \in Seq(Entries) :
             /\ entries[s]["list_projects"] = projects /\ projects = Reachable(Projects)
             /\ entries[s]["list_issues"] = issues /\ issues = Reachable(Issues)
      BY <2>3, StandsWhole
    <3>2. /\ OpenOf(s, "list_projects") = Kept(projects, OpenEntries)
          /\ TabItems(s) = Kept(projects, OpenEntries) \o NewestFirst(Kept(issues, OpenEntries))
      BY <3>1 DEF TabItems, OpenOf
    <3> DEFINE one == Kept(projects, OpenEntries)
               items == one \o NewestFirst(Kept(issues, OpenEntries))
    <3>3. /\ Range(items) = {e \in Range(projects) \cup Range(issues) : ~ e.closed}
          /\ \A i, j \in Len(one) + 1 .. Len(items) : i < j => items[i].stamp >= items[j].stamp
      BY TabItemsFacts
    <3> HIDE DEF one, items
    <3>4. OpenOf(s, "list_projects") = one /\ TabItems(s) = items
      BY <3>2 DEF one, items
    <3> QED
      BY ONLY <3>1, <3>3, <3>4
  <2> QED
    BY <2>1, <2>2, <2>3
<1> QED
  BY <1>1, <1>2, <1>3, JobsStep, PTL DEF LinearSpec

-----------------------------------------------------------------------------
(* Google Calendar's fetch *)

\* The calendars that are read, what is kept of each page of one, and of each of them
\* when those in `left' have gone away.
Chosen == Kept(Listed, Selected)
KeptPages(pages) == [n \in 1 .. Len(pages) |-> Kept(pages[n], Attended)]
WholeOf(pages) == Joined(KeptPages(pages), Len(pages))
Parts(plan, left) ==
    [i \in 1 .. Len(Chosen) |-> IF Chosen[i] \in left THEN <<>> ELSE WholeOf(plan[Chosen[i]])]

\* The events that can be read.
Fine == {raw \in Raws : raw.is # "broken"}

\* The first k calendars are read, and of the next one the pages before `page'.
Gathering(k) ==
    /\ k \in 0 .. Len(Chosen) - 1
    /\ queue = SubSeq(Chosen, k + 1, Len(Chosen))
    /\ gone \subseteq {Chosen[i] : i \in 1 .. k}
    /\ page \in 1 .. Len(agenda[Chosen[k + 1]])
    /\ own = Joined(KeptPages(agenda[Chosen[k + 1]]), page - 1)
    /\ read = Joined(Parts(agenda, gone), k)
    /\ own \in Seq(Fine) /\ read \in Seq(Fine)

CalFetchInv ==
    /\ agenda \in [Range(Listed) -> Agendas]
    /\ request \in {"zone", "list", "events", "none"}
    /\ request # "none" => calEnd = "none"
    /\ request \in {"zone", "list"} =>
          queue = <<>> /\ page = 1 /\ own = <<>> /\ read = <<>> /\ gone = {}
    /\ request = "events" => \E k : Gathering(k)
    /\ ItemsAreWholeCalendars

\* The chosen calendars are some of the listed ones, each once.
LEMMA ChosenFacts ==
    /\ Chosen \in Seq(Range(Listed)) /\ Len(Chosen) \in Nat
    /\ DOMAIN Chosen = 1 .. Len(Chosen)
    /\ \A i \in 1 .. Len(Chosen) : Chosen[i] \in Range(Listed)
    /\ \A i, j \in 1 .. Len(Chosen) : Chosen[i] = Chosen[j] => i = j
<1>1. Listed \in Seq(Range(Listed)) /\ IsInjective(Listed)
  BY CalendarFetchAssumption
<1>2. Chosen \in Seq(Range(Listed)) /\ IsInjective(Chosen)
  BY <1>1, KeptFacts DEF Chosen
<1> QED
  BY <1>2 DEF IsInjective

\* The pages of an agenda, each without what is cancelled, declined or broken, joined.
LEMMA PagesFacts ==
    ASSUME NEW pages \in Agendas
    PROVE  /\ Len(pages) \in Nat \ {0} /\ DOMAIN pages = 1 .. Len(pages)
           /\ \A n \in 1 .. Len(pages) : pages[n] \in Seq(Raws)
           /\ KeptPages(pages) \in [1 .. Len(pages) -> Seq(Raws)]
           /\ WholeOf(pages) \in Seq(Raws)
           /\ WholeOf(pages) = FlattenSeq([n \in DOMAIN pages |-> Kept(pages[n], Attended)])
<1>1. pages \in Seq(Range(pages)) /\ pages # <<>>
  BY CalendarFetchAssumption
<1>2. Len(pages) \in Nat \ {0} /\ DOMAIN pages = 1 .. Len(pages)
  BY <1>1, EmptySeq
<1>3. ASSUME NEW n \in 1 .. Len(pages) PROVE pages[n] \in Seq(Raws)
  <2>1. pages[n] \in Range(pages)
    BY <1>2 DEF Range
  <2>2. pages[n] \in Seq(Range(pages[n]))
    BY <2>1, CalendarFetchAssumption
  <2>3. Range(pages[n]) \subseteq Raws
    BY <2>1 DEF Raws, Range
  <2> QED
    BY <2>2, <2>3, SeqMonotonic
<1>4. \A n \in 1 .. Len(pages) : Kept(pages[n], Attended) \in Seq(Raws)
  BY <1>3, KeptFacts
<1>5. KeptPages(pages) \in [1 .. Len(pages) -> Seq(Raws)]
  BY <1>4 DEF KeptPages
<1>6. WholeOf(pages) \in Seq(Raws)
  <2>1. Len(pages) - 1 \in Nat /\ Len(pages) - 1 < Len(pages) /\ (Len(pages) - 1) + 1 = Len(pages)
    BY <1>2
  <2>2. /\ Joined(KeptPages(pages), Len(pages) - 1) \in Seq(Raws)
        /\ WholeOf(pages) =
              Joined(KeptPages(pages), Len(pages) - 1) \o KeptPages(pages)[Len(pages)]
    BY <1>2, <1>5, <2>1, JoinedNext DEF WholeOf
  <2>3. KeptPages(pages)[Len(pages)] \in Seq(Raws)
    BY <1>2, <1>5
  <2> QED
    BY <2>2, <2>3, ConcatProperties
<1>7. WholeOf(pages) = FlattenSeq([n \in DOMAIN pages |-> Kept(pages[n], Attended)])
  BY <1>2 DEF WholeOf, Joined, KeptPages
<1> QED
  BY <1>2, <1>3, <1>5, <1>6, <1>7

\* A page that can be read gives events that can.
LEMMA KeptIsFine ==
    ASSUME NEW raws \in Seq(Raws), Readable(raws)
    PROVE  Kept(raws, Attended) \in Seq(Fine)
<1>1. raws \in Seq(Fine)
  <2>1. \A i \in 1 .. Len(raws) : raws[i] \in Fine
    BY ElementOfSeq DEF Readable, Fine
  <2>2. raws \in [1 .. Len(raws) -> Fine] /\ Len(raws) \in Nat
    BY <2>1, LenProperties
  <2> QED
    BY <2>2, SeqDef
<1> QED
  BY <1>1, KeptFacts

\* All that the fetch collects, one calendar after the other.
LEMMA PartsFacts ==
    ASSUME NEW plan \in [Range(Listed) -> Agendas], NEW left
    PROVE  /\ Parts(plan, left) \in [1 .. Len(Chosen) -> Seq(Raws)]
           /\ Joined(Parts(plan, left), Len(Chosen)) =
                FlattenSeq([i \in DOMAIN Chosen |->
                   IF Chosen[i] \in left THEN <<>>
                   ELSE FlattenSeq([n \in DOMAIN plan[Chosen[i]] |->
                                       Kept(plan[Chosen[i]][n], Attended)])])
<1>1. ASSUME NEW i \in 1 .. Len(Chosen)
      PROVE  /\ WholeOf(plan[Chosen[i]]) \in Seq(Raws)
             /\ WholeOf(plan[Chosen[i]]) =
                  FlattenSeq([n \in DOMAIN plan[Chosen[i]] |-> Kept(plan[Chosen[i]][n], Attended)])
  <2>1. plan[Chosen[i]] \in Agendas
    BY ChosenFacts
  <2> QED
    BY <2>1, PagesFacts
<1>2. Parts(plan, left) \in [1 .. Len(Chosen) -> Seq(Raws)]
  BY <1>1, EmptySeq DEF Parts
<1>3. [i \in 1 .. Len(Chosen) |-> Parts(plan, left)[i]] =
         [i \in DOMAIN Chosen |->
             IF Chosen[i] \in left THEN <<>>
             ELSE FlattenSeq([n \in DOMAIN plan[Chosen[i]] |-> Kept(plan[Chosen[i]][n], Attended)])]
  BY <1>1, ChosenFacts DEF Parts
<1> QED
  BY <1>2, <1>3 DEF Joined

\* The sort keeps what can be read.
LEMMA SortIsFine == ASSUME NEW events \in Seq(Fine) PROVE Readable(ByStart(events))
<1> DEFINE keys == [i \in DOMAIN events |-> events[i].start]
<1>1. DOMAIN events = 1 .. Len(events) /\ \A i \in 1 .. Len(events) : events[i] \in Fine
  BY ElementOfSeq
<1>2. keys \in [1 .. Len(events) -> Int]
  BY <1>1, CalendarFetchAssumption DEF Fine
<1> HIDE DEF keys
<1>3. SortedBy(events, keys) \in Seq(Fine)
  BY <1>2, SortedFacts
<1>4. ByStart(events) \in Seq(Fine)
  BY <1>3 DEF ByStart, keys
<1> QED
  BY <1>4, ElementOfSeq DEF Readable, Fine

\* When all the calendars have been read, the items are what the property says.
LEMMA CompleteInv ==
    ASSUME agenda \in [Range(Listed) -> Agendas], UNCHANGED agenda,
           NEW events \in Seq(Fine), Complete(events),
           events = Joined(Parts(agenda, gone'), Len(Chosen))
    PROVE  CalFetchInv'
<1>1. events = FlattenSeq([i \in DOMAIN Chosen |->
                   IF Chosen[i] \in gone' THEN <<>>
                   ELSE FlattenSeq([n \in DOMAIN agenda[Chosen[i]] |->
                                       Kept(agenda[Chosen[i]][n], Attended)])])
  BY PartsFacts
<1>2. Readable(ByStart(events))
  BY SortIsFine
<1>3. read' = ByStart(events) /\ request' = "none" /\ calEnd' = "items"
  BY DEF Complete
<1>4. ItemsAreWholeCalendars'
  BY <1>1, <1>2, <1>3 DEF ItemsAreWholeCalendars, EventsOf, Chosen
<1> QED
  BY <1>3, <1>4 DEF CalFetchInv

\* On to the next calendar, when the current one has given `events', or has gone away.
LEMMA NextInv ==
    ASSUME agenda \in [Range(Listed) -> Agendas], UNCHANGED agenda,
           NEW k, Gathering(k), request = "events", calEnd = "none",
           NEW events \in Seq(Fine), NextCalendar(events),
           \/ gone' = gone /\ events = WholeOf(agenda[Chosen[k + 1]])
           \/ gone' = gone \cup {Chosen[k + 1]} /\ events = <<>>
    PROVE  CalFetchInv'
<1>1. /\ k \in 0 .. Len(Chosen) - 1 /\ k \in Nat /\ k < Len(Chosen) /\ k + 1 \in 1 .. Len(Chosen)
      /\ Len(Chosen) \in Nat /\ gone \subseteq {Chosen[i] : i \in 1 .. k}
      /\ read = Joined(Parts(agenda, gone), k) /\ read \in Seq(Fine)
  BY ChosenFacts DEF Gathering
<1>2. Chosen[k + 1] \notin gone
  BY <1>1, ChosenFacts
<1>3. Joined(Parts(agenda, gone'), k) = read
  <2>1. ASSUME NEW i \in 1 .. k PROVE Parts(agenda, gone')[i] = Parts(agenda, gone)[i]
    <3>1. i \in 1 .. Len(Chosen) /\ i # k + 1
      BY <1>1
    <3>2. Chosen[i] # Chosen[k + 1]
      BY <1>1, <3>1, ChosenFacts
    <3>3. Chosen[i] \in gone' <=> Chosen[i] \in gone
      BY <3>2
    <3> QED
      BY <3>1, <3>3 DEF Parts
  <2>2. [i \in 1 .. k |-> Parts(agenda, gone')[i]] = [i \in 1 .. k |-> Parts(agenda, gone)[i]]
    BY <2>1
  <2> QED
    BY <1>1, <2>2 DEF Joined
<1>4. Parts(agenda, gone')[k + 1] = events
  BY <1>1, <1>2 DEF Parts
<1>5. Joined(Parts(agenda, gone'), k + 1) = read \o events
  <2>1. Parts(agenda, gone') \in [1 .. Len(Chosen) -> Seq(Raws)]
    BY PartsFacts
  <2> QED
    BY <1>1, <1>3, <1>4, <2>1, JoinedNext
<1>6. read \o events \in Seq(Fine)
  BY <1>1, ConcatProperties
<1>7. /\ Head(queue) = Chosen[k + 1] /\ Tail(queue) = SubSeq(Chosen, k + 2, Len(Chosen))
      /\ queue' = Tail(queue) /\ page' = 1 /\ own' = <<>>
  <2>1. queue = SubSeq(Chosen, k + 1, Len(Chosen)) /\ k + 1 + 1 = k + 2
    BY <1>1 DEF Gathering
  <2>2. Len(Chosen) \in k + 1 .. Len(Chosen)
    BY <1>1
  <2>3. /\ Head(queue) = Chosen[k + 1]
        /\ Tail(queue) = SubSeq(Chosen, (k + 1) + 1, Len(Chosen))
    BY <1>1, <2>1, <2>2, ChosenFacts, HeadTailOfSubSeq
  <2> QED
    BY <2>1, <2>3 DEF NextCalendar
<1>8. CASE k + 1 = Len(Chosen)
  <2>1. Tail(queue) = <<>>
    BY <1>1, <1>7, <1>8, SubSeqEmpty
  <2>2. Complete(read \o events)
    BY <2>1 DEF NextCalendar
  <2> QED
    BY <1>5, <1>6, <1>8, <2>2, CompleteInv
<1>9. CASE k + 1 # Len(Chosen)
  <2>1. k + 2 \in 1 .. Len(Chosen) /\ k + 1 \in 0 .. Len(Chosen) - 1 /\ (k + 1) + 1 = k + 2
    BY <1>1, <1>9
  <2>2. Tail(queue) # <<>>
    <3>1. Len(SubSeq(Chosen, k + 2, Len(Chosen))) = Len(Chosen) - (k + 2) + 1
      <4>1. \A i \in k + 2 .. Len(Chosen) : Chosen[i] \in Range(Listed)
        BY <2>1, ChosenFacts
      <4>2. Len(SubSeq(Chosen, k + 2, Len(Chosen)))
              = IF k + 2 <= Len(Chosen) THEN Len(Chosen) - (k + 2) + 1 ELSE 0
        BY <1>1, <2>1, <4>1, SubSeqProperties
      <4> QED
        BY <2>1, <4>2
    <3>2. Len(Chosen) - (k + 2) + 1 # 0
      BY <1>1, <2>1
    <3>3. Len(<<>>) = 0
      OBVIOUS
    <3> QED
      BY <1>7, <3>1, <3>2, <3>3
  <2>3. read' = read \o events /\ request' = "events" /\ calEnd' = "none"
    BY <2>2 DEF NextCalendar
  <2>4. agenda[Chosen[k + 2]] \in Agendas
    BY <2>1, ChosenFacts
  <2>5. 1 \in 1 .. Len(agenda[Chosen[k + 2]])
    <3>1. Len(agenda[Chosen[k + 2]]) \in Nat \ {0}
      BY <2>4, PagesFacts
    <3> QED
      BY ONLY <3>1
  <2>6. Joined(KeptPages(agenda[Chosen[k + 2]]), 0) = <<>>
    BY JoinedNone
  <2>7. gone' \subseteq {Chosen[i] : i \in 1 .. k + 1}
    BY <1>1
  <2>8. Gathering(k + 1)'
    <3>1. k + 1 \in 0 .. Len(Chosen) - 1
      BY <2>1
    <3>2. queue' = SubSeq(Chosen, (k + 1) + 1, Len(Chosen))
      BY <1>7, <2>1
    <3>3. page' \in 1 .. Len(agenda'[Chosen[(k + 1) + 1]])
      BY <1>7, <2>1, <2>5
    <3>4. own' = Joined(KeptPages(agenda'[Chosen[(k + 1) + 1]]), page' - 1)
      <4>1. page' - 1 = 0
        BY <1>7
      <4> QED
        BY <1>7, <2>1, <2>6, <4>1
    <3>5. read' = Joined(Parts(agenda', gone'), k + 1)
      BY <1>5, <2>3
    <3>6. own' \in Seq(Fine) /\ read' \in Seq(Fine)
      BY <1>6, <1>7, <2>3, EmptySeq
    <3> QED
      BY <2>7, <3>1, <3>2, <3>3, <3>4, <3>5, <3>6 DEF Gathering, Chosen
  <2>9. ItemsAreWholeCalendars'
    BY <2>3 DEF ItemsAreWholeCalendars
  <2> QED
    BY <2>3, <2>8, <2>9 DEF CalFetchInv
<1> QED
  BY <1>8, <1>9

\* Reading a page keeps the invariant: what is collected grows by what the page keeps.
LEMMA PageInv == ASSUME CalFetchInv, PageIsRead PROVE CalFetchInv'
<1>1. PICK k : Gathering(k)
  BY DEF CalFetchInv, PageIsRead
<1>2. /\ agenda \in [Range(Listed) -> Agendas] /\ request = "events" /\ calEnd = "none"
      /\ UNCHANGED <<agenda, gone>>
  BY DEF CalFetchInv, PageIsRead
<1>3. /\ k \in 0 .. Len(Chosen) - 1 /\ k + 1 \in 1 .. Len(Chosen) /\ Len(Chosen) \in Nat
      /\ queue = SubSeq(Chosen, k + 1, Len(Chosen))
  BY <1>1, ChosenFacts DEF Gathering
<1>4. Head(queue) = Chosen[k + 1]
  <2>1. Len(Chosen) \in k + 1 .. Len(Chosen)
    BY <1>3
  <2> QED
    BY <1>3, <2>1, ChosenFacts, HeadTailOfSubSeq
<1> DEFINE pages == agenda[Chosen[k + 1]]
           here == Kept(pages[page], Attended)
<1>5. pages \in Agendas
  BY <1>2, <1>3, ChosenFacts
<1>6. /\ page \in 1 .. Len(pages) /\ Len(pages) \in Nat /\ own = Joined(KeptPages(pages), page - 1)
      /\ own \in Seq(Fine)
  BY <1>1, <1>5, PagesFacts DEF Gathering
<1>7. here \in Seq(Fine)
  BY <1>4, <1>5, <1>6, PagesFacts, KeptIsFine DEF PageIsRead
<1>8. own \o here \in Seq(Fine)
  BY <1>6, <1>7, ConcatProperties
<1>9. Joined(KeptPages(pages), page) = own \o here
  <2>1. page - 1 \in Nat /\ page - 1 < Len(pages) /\ (page - 1) + 1 = page
    BY <1>6
  <2>2. KeptPages(pages) \in [1 .. Len(pages) -> Seq(Raws)]
    BY <1>5, PagesFacts
  <2>3. KeptPages(pages)[page] = here
    BY <1>6 DEF KeptPages
  <2>4. Joined(KeptPages(pages), (page - 1) + 1)
          = Joined(KeptPages(pages), page - 1) \o KeptPages(pages)[(page - 1) + 1]
    BY <1>6, <2>1, <2>2, JoinedNext
  <2> QED
    BY <1>6, <2>1, <2>3, <2>4
<1>10. CASE page < Len(pages)
  <2>1. /\ page' = page + 1 /\ own' = own \o here
        /\ UNCHANGED <<request, queue, read, calEnd>>
    BY <1>4, <1>10 DEF PageIsRead
  <2>2. page' \in 1 .. Len(pages) /\ page' - 1 = page
    BY <1>6, <1>10, <2>1
  <2>3. Gathering(k)'
    <3>1. own' = Joined(KeptPages(pages), page' - 1)
      BY <1>9, <2>1, <2>2
    <3> QED
      BY <1>1, <1>2, <1>8, <2>1, <2>2, <3>1 DEF Gathering, Chosen
  <2>4. ItemsAreWholeCalendars'
    BY <1>2, <2>1 DEF ItemsAreWholeCalendars
  <2> QED
    BY <1>2, <2>1, <2>3, <2>4 DEF CalFetchInv
<1>11. CASE ~ (page < Len(pages))
  <2>1. NextCalendar(own \o here)
    BY <1>4, <1>11 DEF PageIsRead
  <2>2. page = Len(pages)
    BY <1>6, <1>11
  <2>3. own \o here = WholeOf(pages)
    BY <1>9, <2>2 DEF WholeOf
  <2> QED
    BY <1>1, <1>2, <1>8, <2>1, <2>3, NextInv
<1> QED
  BY <1>10, <1>11

\* A calendar that is gone adds nothing and is left out.
LEMMA GoneInv == ASSUME CalFetchInv, CalendarIsGone PROVE CalFetchInv'
<1>1. PICK k : Gathering(k)
  BY DEF CalFetchInv, CalendarIsGone
<1>2. /\ agenda \in [Range(Listed) -> Agendas] /\ request = "events" /\ calEnd = "none"
      /\ UNCHANGED agenda /\ gone' = gone \cup {Head(queue)} /\ NextCalendar(<<>>)
  BY DEF CalFetchInv, CalendarIsGone
<1>3. Head(queue) = Chosen[k + 1]
  <2>1. /\ k + 1 \in 1 .. Len(Chosen) /\ queue = SubSeq(Chosen, k + 1, Len(Chosen))
        /\ Len(Chosen) \in k + 1 .. Len(Chosen)
    BY <1>1, ChosenFacts DEF Gathering
  <2> QED
    BY <2>1, ChosenFacts, HeadTailOfSubSeq
<1> QED
  BY <1>1, <1>2, <1>3, NextInv, EmptySeq

\* Reading the list of calendars keeps the invariant: nothing is collected yet.
LEMMA ListInv == ASSUME CalFetchInv, ListIsRead PROVE CalFetchInv'
<1>1. /\ agenda \in [Range(Listed) -> Agendas] /\ request = "list" /\ calEnd = "none"
      /\ page = 1 /\ own = <<>> /\ read = <<>> /\ gone = {}
      /\ UNCHANGED <<agenda, page, own, gone>> /\ queue' = Chosen
  BY DEF CalFetchInv, ListIsRead, Chosen
<1>2. Joined(Parts(agenda, {}), 0) = <<>>
  BY JoinedNone
<1>3. CASE Chosen = <<>>
  <2>1. Complete(<<>>)
    BY <1>1, <1>3 DEF ListIsRead
  <2>2. Len(Chosen) = 0
    BY <1>3
  <2>3. <<>> = Joined(Parts(agenda, gone'), Len(Chosen))
    BY <1>1, <1>2, <2>2
  <2> QED
    BY <1>1, <2>1, <2>3, CompleteInv, EmptySeq
<1>4. CASE Chosen # <<>>
  <2>1. request' = "events" /\ UNCHANGED <<read, calEnd>>
    BY <1>1, <1>4 DEF ListIsRead
  <2>2. Len(Chosen) \in Nat \ {0}
    BY <1>4, ChosenFacts, EmptySeq
  <2>3. 1 \in 1 .. Len(agenda[Chosen[1]])
    <3>1. agenda[Chosen[1]] \in Agendas
      BY <1>1, <2>2, ChosenFacts
    <3>2. Len(agenda[Chosen[1]]) \in Nat \ {0}
      BY <3>1, PagesFacts
    <3> QED
      BY ONLY <3>2
  <2>4. Joined(KeptPages(agenda[Chosen[1]]), 0) = <<>>
    BY JoinedNone
  <2>5. Chosen = SubSeq(Chosen, 1, Len(Chosen))
    BY ChosenFacts, SubSeqFull
  <2>6. Gathering(0)'
    <3>1. 0 \in 0 .. Len(Chosen) - 1 /\ 0 + 1 = 1 /\ 1 - 1 = 0
      BY <2>2
    <3>2. <<>> \in Seq(Fine)
      BY EmptySeq
    <3>3. Gathering(0)' <=>
            /\ 0 \in 0 .. Len(Chosen) - 1
            /\ queue' = SubSeq(Chosen, 0 + 1, Len(Chosen))
            /\ gone' \subseteq {Chosen[i] : i \in 1 .. 0}
            /\ page' \in 1 .. Len(agenda'[Chosen[0 + 1]])
            /\ own' = Joined(KeptPages(agenda'[Chosen[0 + 1]]), page' - 1)
            /\ read' = Joined(Parts(agenda', gone'), 0)
            /\ own' \in Seq(Fine) /\ read' \in Seq(Fine)
      BY DEF Gathering, Chosen
    <3> QED
      BY <1>1, <1>2, <2>1, <2>3, <2>4, <2>5, <3>1, <3>2, <3>3
  <2>7. ItemsAreWholeCalendars'
    BY <1>1, <2>1 DEF ItemsAreWholeCalendars
  <2> QED
    BY <1>1, <2>1, <2>6, <2>7 DEF CalFetchInv
<1> QED
  BY <1>3, <1>4

\* What a fetch of Google Calendar brings is whole: every event, once, of every calendar
\* that is selected and still there, sorted, whatever was asked again or went away:
\* GCalSource.fetch, for every list of calendars, every selection and all their pages.
THEOREM CalendarsAreWhole ==
    CalendarFetchInit /\ [][CalendarFetchNext]_fetchVars => []ItemsAreWholeCalendars
<1>1. CalendarFetchInit => CalFetchInv
  BY DEF CalendarFetchInit, CalFetchInv, ItemsAreWholeCalendars
<1>2. CalFetchInv /\ [CalendarFetchNext]_fetchVars => CalFetchInv'
  <2> SUFFICES ASSUME CalFetchInv, [CalendarFetchNext]_fetchVars PROVE CalFetchInv'
    OBVIOUS
  <2>1. CASE ZoneIsRead
    BY <2>1 DEF ZoneIsRead, CalFetchInv, ItemsAreWholeCalendars
  <2>2. CASE ListIsRead
    BY <2>2, ListInv
  <2>3. CASE PageIsRead
    BY <2>3, PageInv
  <2>4. CASE CalendarIsGone
    BY <2>4, GoneInv
  <2>5. CASE RequestFails
    <3>1. calEnd' # "items" /\ request' = "none" /\ agenda' = agenda
      BY <2>5 DEF RequestFails, Errors
    <3> QED
      BY <3>1 DEF CalFetchInv, ItemsAreWholeCalendars
  <2>6. CASE UNCHANGED fetchVars
    <3>1. /\ UNCHANGED <<agenda, request, queue, page, own, read, gone, calEnd>>
      BY <2>6 DEF fetchVars
    <3>2. ASSUME NEW k, Gathering(k) PROVE Gathering(k)'
      BY <3>1, <3>2 DEF Gathering, Chosen
    <3>3. ItemsAreWholeCalendars'
      BY <3>1 DEF CalFetchInv, ItemsAreWholeCalendars, EventsOf
    <3> QED
      BY <3>1, <3>2, <3>3 DEF CalFetchInv
  <2> QED
    BY <2>1, <2>2, <2>3, <2>4, <2>5, <2>6 DEF CalendarFetchNext
<1>3. CalFetchInv => ItemsAreWholeCalendars
  BY DEF CalFetchInv
<1> QED
  BY <1>1, <1>2, <1>3, PTL

-----------------------------------------------------------------------------
(* Spotify *)

SpotifyTypeOK ==
    /\ playing \in Tracks \cup {NoTrack}
    /\ remembered \in Tracks \cup {NoTrack}
    /\ spStep \in [Fetchers -> {"player", "name", "cover", "download", "queue", "last", "done"}]
    /\ now \in [Fetchers -> Tracks \cup {NoTrack}]
    /\ art \in [Fetchers -> Tracks \cup {NoTrack}]
    /\ name \in [Fetchers -> {"none", "known", "unknown"}]
    /\ end \in [Fetchers -> {"none", "snapshot", "player", "queue", "last"}]

\* A snapshot begins without a cover, and one whose cover is looked for names a track.
CoversComeLast ==
    \A f \in Fetchers :
        /\ spStep[f] = "player" => art[f] = NoTrack
        /\ spStep[f] \in {"name", "cover", "download"} => now[f] # NoTrack

SpotifyInv == SpotifyTypeOK /\ CoversComeLast /\ CoversAreOfTheirTracks

\* Whatever fetches remember beside one another, _cached_art gives a snapshot only the
\* cover of the track it names, and neither the name of the playlist nor the cover
\* can fail a fetch.
THEOREM CoversAreTheirOwn == SpotifyInit /\ [][SpotifyNext]_spVars => []CoversAreOfTheirTracks
<1>1. SpotifyInit => SpotifyInv
  BY SpotifyAssumption
     DEF SpotifyInit, SpotifyInv, SpotifyTypeOK, CoversComeLast, CoversAreOfTheirTracks
<1>2. SpotifyInv /\ [SpotifyNext]_spVars => SpotifyInv'
  <2> SUFFICES ASSUME SpotifyInv, [SpotifyNext]_spVars PROVE SpotifyInv'
    OBVIOUS
  <2> USE SpotifyAssumption
          DEF SpotifyInv, SpotifyTypeOK, CoversComeLast, CoversAreOfTheirTracks, Goes
  <2>1. CASE Plays
    BY <2>1 DEF Plays
  <2>2. ASSUME NEW f \in Fetchers, NothingPlays(f) \/ TrackPlays(f) PROVE SpotifyInv'
    BY <2>2 DEF NothingPlays, TrackPlays
  <2>3. ASSUME NEW f \in Fetchers, NameIsKnown(f) PROVE SpotifyInv'
    BY <2>3 DEF NameIsKnown
  <2>4. ASSUME NEW f \in Fetchers, CoverIsRemembered(f) \/ CoverIsMissing(f) PROVE SpotifyInv'
    BY <2>4 DEF CoverIsRemembered, CoverIsMissing
  <2>5. ASSUME NEW f \in Fetchers, AskForCover(f) \/ CoverIsDownloaded(f) PROVE SpotifyInv'
    BY <2>5 DEF AskForCover, CoverIsDownloaded
  <2>6. ASSUME NEW f \in Fetchers, QueueIsRead(f) \/ LastPlayIsRead(f) PROVE SpotifyInv'
    BY <2>6 DEF QueueIsRead, LastPlayIsRead
  <2>7. ASSUME NEW f \in Fetchers, SpotifyFails(f) PROVE SpotifyInv'
    BY <2>7 DEF SpotifyFails
  <2>8. ASSUME NEW f \in Fetchers, FetchAgain(f) PROVE SpotifyInv'
    BY <2>8 DEF FetchAgain
  <2>9. CASE UNCHANGED spVars
    BY <2>9 DEF spVars
  <2> QED
    BY <2>1, <2>2, <2>3, <2>4, <2>5, <2>6, <2>7, <2>8, <2>9 DEF SpotifyNext
<1>3. SpotifyInv => CoversAreOfTheirTracks
  BY DEF SpotifyInv
<1> QED
  BY <1>1, <1>2, <1>3, PTL

-----------------------------------------------------------------------------
(* The details of a pull request *)

\* The lists at the service, and what a job has put together so far.
DetailTypeOK ==
    /\ written \in Nat /\ changed \in Nat
    /\ nextRead \in {"pull", "reviews", "comments", "checks", "files", "done", "diff", "failed"}
    /\ had \in [comments : Nat, files : Nat]
    /\ DOMAIN detail = DOMAIN NoDetail
    /\ detail.comments \in Seq(Nat) /\ detail.hidden \in Nat /\ detail.files \in Nat

\* A part that was not asked for is empty, and so was the list it is made of.
PartsAreHonest ==
    nextRead # "failed" =>
        /\ ~ detail.more =>
              /\ Len(detail.comments) + detail.hidden = had.comments
              /\ had.comments > 0 => Last(detail.comments) = had.comments
        /\ ~ detail.cut => detail.files = had.files

DetailInv == DetailTypeOK /\ PartsAreHonest

\* The comments of a page are the newest of those taken.
LEMMA CommentsRead ==
  ASSUME NEW hidden \in Nat, NEW taken \in Nat, NEW visible,
         visible = [i \in 1 .. taken - hidden |-> hidden + i],
         taken > 0 => hidden < taken, taken = 0 => hidden = 0
  PROVE  /\ visible \in Seq(Nat) /\ Len(visible) + hidden = taken
         /\ taken > 0 => Last(visible) = taken
<1>1. CASE taken = 0
  BY <1>1
<1>2. CASE taken > 0
  BY <1>2 DEF Last
<1> QED
  BY <1>1, <1>2

\* A page that does not say there may be more has the newest comments, counts all the
\* others and has all the files, at the limits of _comments_of and fetch_diff too.
THEOREM NothingIsHidden ==
    GitHubDetailInit /\ [][GitHubDetailNext]_gdVars => []NothingHiddenSilently
<1> USE GitHubDetailAssumption DEF DetailInv, DetailTypeOK, PartsAreHonest
<1>1. GitHubDetailInit => DetailInv
  BY DEF GitHubDetailInit, NoDetail
<1>2. DetailInv /\ [GitHubDetailNext]_gdVars => DetailInv'
  <2> SUFFICES ASSUME DetailInv, [GitHubDetailNext]_gdVars PROVE DetailInv'
    OBVIOUS
  <2>1. CASE Submit \/ AskForReview \/ Dismiss \/ Write \/ Pushed
    <3>1. UNCHANGED <<nextRead, detail, had>>
      BY <2>1 DEF Submit, AskForReview, Dismiss, Write, Pushed, Become, JobStays, detailJob
    <3>2. \/ UNCHANGED <<written, changed>>
          \/ written' = written + 1 /\ UNCHANGED changed
          \/ changed' \in 0 .. MaxFiles /\ UNCHANGED written
      BY <2>1 DEF Submit, AskForReview, Dismiss, Write, Pushed, Become
    <3>3. written' \in Nat /\ changed' \in Nat
      BY <3>2
    <3> QED
      BY <3>1, <3>3
  <2>2. CASE ReadPull
    BY <2>2 DEF ReadPull, GitHubStays
  <2>3. CASE ReadReviews
    BY <2>3 DEF ReadReviews, GitHubStays
  <2>4. CASE ReadComments
    <3> DEFINE fetched == UpTo(written, CommentsLimit)
               hidden == IF fetched > CommentsShown THEN fetched - CommentsShown ELSE 0
               visible == [i \in 1 .. fetched - hidden |-> hidden + i]
    <3>1. /\ detail' = [detail EXCEPT !.comments = visible, !.hidden = hidden,
                                      !.more = MayHaveMore(fetched)]
          /\ had' = [had EXCEPT !.comments = written]
          /\ nextRead' = "checks" /\ UNCHANGED <<written, changed>>
      BY <2>4 DEF ReadComments, GitHubStays
    <3>2. /\ fetched \in Nat /\ hidden \in Nat
          /\ fetched > 0 => hidden < fetched
          /\ fetched = 0 => hidden = 0
          /\ ~ MayHaveMore(fetched) => fetched = written
      BY DEF UpTo, MayHaveMore
    <3> HIDE DEF fetched, hidden
    <3>2a. visible = [i \in 1 .. fetched - hidden |-> hidden + i]
      OBVIOUS
    <3> HIDE DEF visible
    <3>3. /\ visible \in Seq(Nat) /\ Len(visible) + hidden = fetched
          /\ fetched > 0 => Last(visible) = fetched
      BY ONLY <3>2, <3>2a, CommentsRead
    <3>4. /\ detail'.comments = visible /\ detail'.hidden = hidden
          /\ detail'.more = MayHaveMore(fetched)
          /\ detail'.cut = detail.cut /\ detail'.files = detail.files
          /\ DOMAIN detail' = DOMAIN detail
      BY <3>1 DEF NoDetail
    <3>5. had'.comments = written /\ had'.files = had.files
          /\ had' \in [comments : Nat, files : Nat]
      BY <3>1
    <3> QED
      BY <2>4, <3>1, <3>2, <3>3, <3>4, <3>5 DEF ReadComments
  <2>5. CASE ReadChecks
    BY <2>5 DEF ReadChecks, GitHubStays
  <2>6. CASE ReadFiles
    <3> DEFINE fetched == UpTo(changed, FilesLimit)
    <3>1. /\ detail' = [detail EXCEPT !.files = fetched, !.cut = IsCut(fetched)]
          /\ had' = [had EXCEPT !.files = changed]
          /\ nextRead' = "diff" /\ UNCHANGED <<written, changed>>
      BY <2>6 DEF ReadFiles, GitHubStays
    <3>2. fetched \in Nat /\ (~ IsCut(fetched) => fetched = changed)
      BY DEF UpTo, IsCut
    <3> HIDE DEF fetched
    <3>3. /\ detail'.files = fetched /\ detail'.cut = IsCut(fetched)
          /\ detail'.comments = detail.comments /\ detail'.hidden = detail.hidden
          /\ detail'.more = detail.more /\ DOMAIN detail' = DOMAIN detail
      BY <3>1 DEF NoDetail
    <3>4. /\ had'.files = changed /\ had'.comments = had.comments
          /\ had' \in [comments : Nat, files : Nat]
      BY <3>1
    <3> QED
      BY <2>6, <3>1, <3>2, <3>3, <3>4 DEF ReadFiles
  <2>7. CASE DetailFails
    BY <2>7 DEF DetailFails, GitHubStays, NoDetail
  <2>8. CASE UNCHANGED gdVars
    BY <2>8 DEF gdVars, detailJob
  <2> QED
    BY <2>1, <2>2, <2>3, <2>4, <2>5, <2>6, <2>7, <2>8 DEF GitHubDetailNext
<1>3. DetailInv => NothingHiddenSilently
  BY DEF NothingHiddenSilently
<1> QED
  BY <1>1, <1>2, <1>3, PTL

-----------------------------------------------------------------------------
(* Its reviewers *)

\* The list of reviews is read by the places in it: a set of places has a last one.
LEMMA GreatestIndex ==
  ASSUME NEW limit \in Nat, NEW T \in SUBSET (1 .. limit), T # {}
  PROVE  \E x \in T : \A y \in T : y <= x
<1> DEFINE Rest == {limit - x : x \in T}
<1>1. Rest \in SUBSET Nat /\ Rest # {}
  <2>1. \A x \in T : limit - x \in Nat
    OBVIOUS
  <2>2. PICK x : x \in T
    OBVIOUS
  <2>3. limit - x \in Rest
    BY <2>2
  <2> QED
    BY <2>1, <2>3
<1>2. PICK z \in Rest : \A y \in Rest : z <= y
  BY <1>1, LeastOfNats
<1>3. PICK x \in T : z = limit - x
  OBVIOUS
<1>4. ASSUME NEW y \in T PROVE y <= x
  <2>1. limit - y \in Rest
    OBVIOUS
  <2>2. limit - x <= limit - y
    BY <1>2, <1>3, <2>1
  <2> QED
    BY <2>2
<1> QED
  BY <1>4

Review == [who : People, state : Decisions \cup {"COMMENTED"}]
Reviews == Seq(Review)

\* Where the reviews of someone with one of the states are.
ReviewsOf(who, events, states) ==
    {i \in 1 .. Len(events) : events[i].who = who /\ events[i].state \in states}

\* What Latest finds: the state at the greatest of these places.
LEMMA LatestIsLast ==
  ASSUME NEW who, NEW events \in Reviews, NEW states
  PROVE  /\ ReviewsOf(who, events, states) = {} => Latest(who, events, states) = "none"
         /\ \A i \in ReviewsOf(who, events, states) :
               (\A j \in ReviewsOf(who, events, states) : j <= i)
                 => Latest(who, events, states) = events[i].state
<1> DEFINE mine == ReviewsOf(who, events, states)
           last == SelectLastInSeq(events, LAMBDA r : r.who = who /\ r.state \in states)
<1>1. last = IF mine # {} THEN Max(mine) ELSE 0
  BY DEF SelectLastInSeq, ReviewsOf
<1>2. Latest(who, events, states) = IF last = 0 THEN "none" ELSE events[last].state
  BY DEF Latest
<1>3. \A i \in mine : i \in Nat /\ i # 0
  BY DEF ReviewsOf, Reviews
<1> HIDE DEF mine, last
<1>4. ASSUME NEW i \in mine, \A j \in mine : j <= i PROVE last = i /\ i # 0
  <2>1. Max(mine) \in mine /\ \A j \in mine : Max(mine) >= j
    BY <1>3, <1>4 DEF Max
  <2>2. Max(mine) \in Nat /\ i \in Nat /\ i # 0
    BY <1>3, <2>1
  <2>3. Max(mine) <= i /\ i <= Max(mine)
    BY <1>4, <2>1, <2>2
  <2>4. Max(mine) = i
    BY <2>2, <2>3
  <2>5. mine # {}
    OBVIOUS
  <2> QED
    BY <1>1, <2>2, <2>4, <2>5
<1> QED
  BY <1>1, <1>2, <1>4 DEF mine

\* Latest depends on nothing but these places and the states there.
LEMMA LatestDependsOn ==
  ASSUME NEW who, NEW events \in Reviews, NEW later \in Reviews, NEW states,
         ReviewsOf(who, later, states) = ReviewsOf(who, events, states),
         \A i \in ReviewsOf(who, events, states) : later[i].state = events[i].state
  PROVE  Latest(who, later, states) = Latest(who, events, states)
<1>1. CASE ReviewsOf(who, events, states) = {}
  BY <1>1, LatestIsLast
<1>2. CASE ReviewsOf(who, events, states) # {}
  <2>1. PICK i \in ReviewsOf(who, events, states) :
                \A j \in ReviewsOf(who, events, states) : j <= i
    <3>1. Len(events) \in Nat
      BY DEF Reviews
    <3>2. ReviewsOf(who, events, states) \in SUBSET (1 .. Len(events))
      BY DEF ReviewsOf
    <3> QED
      BY <1>2, <3>1, <3>2, GreatestIndex
  <2>2. Latest(who, events, states) = events[i].state
    BY <2>1, LatestIsLast
  <2>3. Latest(who, later, states) = later[i].state
    BY <2>1, LatestIsLast
  <2> QED
    BY <2>2, <2>3
<1> QED
  BY <1>1, <1>2

\* The reviews that are read.
Legible(events) == FirstOf(events, ReviewsLimit)

\* While the job waits for the reviews: it would show each one as they stood at some
\* moment since the pull request was read, if it got the reviews of this moment.
ShowsNothingElse(events) == \A p \in People : Reviewer(p, Legible(events)) \in stood[p]

ReviewersInv ==
    /\ reviews \in Reviews
    /\ nextRead \in {"pull", "reviews", "comments", "checks", "files", "done", "diff", "failed"}
    /\ DOMAIN detail = DOMAIN NoDetail
    /\ DOMAIN stood = People
    /\ UnderWay => (~ readable => askedThen = {}) /\ ShowsNothingElse(reviews)
    /\ ReviewersStoodSo

\* What is read of a list are its first entries.
LEMMA LegibleIsTheBeginning ==
  ASSUME NEW events \in Reviews
  PROVE  /\ Legible(events) \in Reviews /\ Len(Legible(events)) \in Nat /\ Len(events) \in Nat
         /\ DOMAIN Legible(events) = 1 .. Len(Legible(events))
         /\ Len(Legible(events)) = IF Len(events) < ReviewsLimit THEN Len(events) ELSE ReviewsLimit
         /\ \A i \in 1 .. Len(Legible(events)) : Legible(events)[i] = events[i]
<1> DEFINE n == IF Len(events) < ReviewsLimit THEN Len(events) ELSE ReviewsLimit
<1>1. Len(events) \in Nat /\ n \in Nat /\ n <= Len(events) /\ events \in Seq(Review)
  BY GitHubDetailAssumption DEF Reviews
<1>2. Legible(events) = SubSeq(events, 1, n)
  BY DEF Legible, FirstOf
<1>3. \A i \in 1 .. n : events[i] \in Review
  BY <1>1, ElementOfSeq
<1>4. /\ Legible(events) \in Seq(Review) /\ Len(Legible(events)) = n
      /\ \A i \in 1 .. n : Legible(events)[i] = events[i]
  BY <1>1, <1>2, <1>3
<1> QED
  BY <1>1, <1>4 DEF Reviews

\* A review more is read behind the others, or not at all.
LEMMA AnotherReview ==
  ASSUME NEW events \in Reviews, NEW r \in Review
  PROVE  /\ Append(events, r) \in Reviews
         /\ \/ Legible(Append(events, r)) = Append(Legible(events), r)
            \/ Legible(Append(events, r)) = Legible(events)
<1> DEFINE later == Append(events, r)
           short == Legible(events)
           long == Legible(later)
<1>1. /\ later \in Reviews /\ Len(later) = Len(events) + 1 /\ Len(events) \in Nat
      /\ \A i \in 1 .. Len(events) : later[i] = events[i]
  BY DEF Reviews
<1>2. /\ short \in Seq(Review) /\ events \in Seq(Review)
      /\ Len(short) = IF Len(events) < ReviewsLimit THEN Len(events) ELSE ReviewsLimit
      /\ \A i \in 1 .. Len(short) : short[i] = events[i]
  BY LegibleIsTheBeginning DEF Reviews
<1>3. /\ long \in Seq(Review) /\ later \in Seq(Review)
      /\ Len(long) = IF Len(later) < ReviewsLimit THEN Len(later) ELSE ReviewsLimit
      /\ \A i \in 1 .. Len(long) : long[i] = later[i]
  BY <1>1, LegibleIsTheBeginning DEF Reviews
<1> HIDE DEF later, short, long
<1>4. CASE Len(events) < ReviewsLimit
  <2>1. Len(short) = Len(events) /\ Len(long) = Len(later)
    BY <1>1, <1>2, <1>3, <1>4, GitHubDetailAssumption
  <2>2. short = events
    BY <1>2, <2>1, SeqEqual
  <2>3. long = later
    BY <1>3, <2>1, SeqEqual
  <2> QED
    BY <1>1, <2>2, <2>3 DEF later, short, long
<1>5. CASE ~ (Len(events) < ReviewsLimit)
  <2>1. Len(short) = ReviewsLimit /\ Len(long) = ReviewsLimit
    BY <1>1, <1>2, <1>3, <1>5, GitHubDetailAssumption
  <2>2. \A i \in 1 .. Len(short) : i \in 1 .. Len(events)
    BY <1>1, <1>5, <2>1, GitHubDetailAssumption
  <2>3. \A i \in 1 .. Len(short) : short[i] = long[i]
    BY <1>1, <1>2, <1>3, <2>1, <2>2
  <2>4. short = long
    BY <1>2, <1>3, <2>1, <2>3, SeqEqual
  <2> QED
    BY <1>1, <2>4 DEF later, short, long
<1> QED
  BY <1>4, <1>5

\* A review more: whoever did not write it stands as before.
LEMMA OthersStandAsBefore ==
  ASSUME NEW events \in Reviews, NEW r \in Review,
         NEW p \in People, p # r.who, NEW states
  PROVE  Latest(p, Append(events, r), states) = Latest(p, events, states)
<1> DEFINE later == Append(events, r)
<1>1. later \in Reviews /\ Len(later) = Len(events) + 1 /\ Len(events) \in Nat
  BY DEF Reviews
<1>2. \A i \in 1 .. Len(events) : later[i] = events[i]
  BY DEF Reviews
<1>3. later[Len(events) + 1] = r
  BY DEF Reviews
<1> HIDE DEF later
<1>4. ReviewsOf(p, later, states) = ReviewsOf(p, events, states)
  BY <1>1, <1>2, <1>3 DEF ReviewsOf
<1>5. \A i \in ReviewsOf(p, events, states) : later[i].state = events[i].state
  BY <1>2 DEF ReviewsOf
<1>6. Latest(p, later, states) = Latest(p, events, states)
  BY <1>1, <1>4, <1>5, LatestDependsOn
<1> QED
  BY <1>6 DEF later

\* A decision that gives way to a dismissal: its author is dismissed or stands as before,
\* all others do.
LEMMA DismissalShowsOrDoesNot ==
  ASSUME NEW events \in Reviews, NEW later \in Reviews, NEW i \in DOMAIN events,
         DOMAIN events = 1 .. Len(events), Len(events) \in Nat, Len(later) = Len(events),
         \A j \in 1 .. Len(events) : later[j].who = events[j].who,
         \A j \in 1 .. Len(events) : j # i => later[j].state = events[j].state,
         events[i].state \in Decisions, later[i].state = "DISMISSED", NEW p
  PROVE  /\ Latest(p, later, {"COMMENTED"}) = Latest(p, events, {"COMMENTED"})
         /\ \/ Latest(p, later, Decisions) = Latest(p, events, Decisions)
            \/ p = events[i].who /\ Latest(p, later, Decisions) = "DISMISSED"
<1>1. "DISMISSED" \in Decisions /\ "DISMISSED" # "COMMENTED" /\ events[i].state # "COMMENTED"
  BY DEF Decisions
<1>2. ReviewsOf(p, later, {"COMMENTED"}) = ReviewsOf(p, events, {"COMMENTED"})
      /\ i \notin ReviewsOf(p, events, {"COMMENTED"})
  BY <1>1 DEF ReviewsOf
<1>3. Latest(p, later, {"COMMENTED"}) = Latest(p, events, {"COMMENTED"})
  <2>1. \A j \in ReviewsOf(p, events, {"COMMENTED"}) : later[j].state = events[j].state
    BY <1>2 DEF ReviewsOf
  <2> QED
    BY <1>2, <2>1, LatestDependsOn
<1>4. ReviewsOf(p, later, Decisions) = ReviewsOf(p, events, Decisions)
  BY <1>1 DEF ReviewsOf
<1>5. \/ Latest(p, later, Decisions) = Latest(p, events, Decisions)
      \/ p = events[i].who /\ Latest(p, later, Decisions) = "DISMISSED"
  <2> DEFINE mine == ReviewsOf(p, events, Decisions)
  <2>1. CASE mine = {}
    BY <1>4, <2>1, LatestIsLast
  <2>2. CASE mine # {}
    <3>1. mine \in SUBSET (1 .. Len(events))
      BY DEF ReviewsOf
    <3>2. PICK m \in mine : \A j \in mine : j <= m
      BY <2>2, <3>1, GreatestIndex
    <3>3. Latest(p, events, Decisions) = events[m].state
      BY <3>2, LatestIsLast
    <3>4. Latest(p, later, Decisions) = later[m].state
      BY <1>4, <3>2, LatestIsLast
    <3>5. m \in 1 .. Len(events) /\ events[m].who = p
      BY DEF ReviewsOf
    <3> QED
      BY <3>3, <3>4, <3>5
  <2> QED
    BY <2>1, <2>2
<1> QED
  BY <1>3, <1>5

\* What Dismiss makes of the reviews.
WithDismissed(events, i) == [events EXCEPT ![i].state = "DISMISSED"]

\* A dismissal changes the state of one review and nothing else.
LEMMA Dismissal ==
  ASSUME NEW events \in Reviews, NEW i \in DOMAIN events, NEW later,
         later = WithDismissed(events, i)
  PROVE  /\ later \in Reviews /\ Len(later) = Len(events) /\ Len(events) \in Nat
         /\ DOMAIN events = 1 .. Len(events)
         /\ \A j \in 1 .. Len(events) : later[j].who = events[j].who
         /\ \A j \in 1 .. Len(events) : j # i => later[j].state = events[j].state
         /\ later[i].state = "DISMISSED"
<1>1. later \in Reviews /\ Len(later) = Len(events) /\ Len(events) \in Nat
      /\ DOMAIN events = 1 .. Len(events)
  <2>1. DOMAIN events = 1 .. Len(events) /\ Len(events) \in Nat
    BY DEF Reviews
  <2>2. events[i] \in Review
    BY <2>1, ElementOfSeq DEF Reviews
  <2> DEFINE r == [events[i] EXCEPT !.state = "DISMISSED"]
  <2>3. r \in Review
    BY <2>2 DEF Review, Decisions
  <2>4. later \in Reviews /\ Len(later) = Len(events)
    BY <2>1, <2>3, ExceptSeq DEF Reviews, WithDismissed
  <2> QED
    BY <2>1, <2>4
<1>2. \A j \in 1 .. Len(events) : later[j].who = events[j].who
  BY <1>1 DEF Reviews, WithDismissed
<1>3. \A j \in 1 .. Len(events) : j # i => later[j].state = events[j].state
  BY <1>1 DEF Reviews, WithDismissed
<1>4. later[i].state = "DISMISSED"
  BY <1>1 DEF Reviews, WithDismissed
<1> QED
  BY <1>1, <1>2, <1>3, <1>4

\* A dismissal of a review shows if that review is read.
LEMMA DismissalIsRead ==
  ASSUME NEW events \in Reviews, NEW i \in DOMAIN events, events[i].state \in Decisions,
         NEW later, later = WithDismissed(events, i), NEW p
  PROVE  /\ later \in Reviews
         /\ Latest(p, Legible(later), {"COMMENTED"}) = Latest(p, Legible(events), {"COMMENTED"})
         /\ \/ Latest(p, Legible(later), Decisions) = Latest(p, Legible(events), Decisions)
            \/ /\ i <= ReviewsLimit /\ p = events[i].who
               /\ Latest(p, Legible(later), Decisions) = "DISMISSED"
<1> DEFINE before == Legible(events)
           after == Legible(later)
<1>1. /\ later \in Reviews /\ Len(later) = Len(events) /\ Len(events) \in Nat
      /\ DOMAIN events = 1 .. Len(events)
      /\ \A j \in 1 .. Len(events) : later[j].who = events[j].who
      /\ \A j \in 1 .. Len(events) : j # i => later[j].state = events[j].state
      /\ later[i].state = "DISMISSED"
  BY Dismissal, Zenon
<1>2. /\ before \in Reviews /\ after \in Reviews /\ Len(before) = Len(after) /\ Len(before) \in Nat
      /\ Len(before) <= Len(events) /\ DOMAIN before = 1 .. Len(before)
      /\ Len(before) = IF Len(events) < ReviewsLimit THEN Len(events) ELSE ReviewsLimit
      /\ \A j \in 1 .. Len(before) : before[j] = events[j] /\ after[j] = later[j]
  <2>1. /\ before \in Reviews /\ Len(before) \in Nat /\ DOMAIN before = 1 .. Len(before)
        /\ Len(before) = IF Len(events) < ReviewsLimit THEN Len(events) ELSE ReviewsLimit
        /\ \A j \in 1 .. Len(before) : before[j] = events[j]
    BY LegibleIsTheBeginning
  <2>2. /\ after \in Reviews
        /\ Len(after) = IF Len(later) < ReviewsLimit THEN Len(later) ELSE ReviewsLimit
        /\ \A j \in 1 .. Len(after) : after[j] = later[j]
    BY <1>1, LegibleIsTheBeginning
  <2> HIDE DEF before, after
  <2>3. Len(before) = Len(after) /\ Len(before) <= Len(events)
    BY <1>1, <2>1, <2>2, GitHubDetailAssumption
  <2> QED
    BY <2>1, <2>2, <2>3
<1> HIDE DEF before, after
<1>3. \A j \in 1 .. Len(before) :
          after[j].who = before[j].who /\ (j # i => after[j].state = before[j].state)
  BY <1>1, <1>2
<1>4. CASE i \in 1 .. Len(before)
  <2>1. i \in DOMAIN before /\ before[i].state \in Decisions /\ after[i].state = "DISMISSED"
        /\ before[i].who = events[i].who /\ i <= ReviewsLimit
    BY <1>1, <1>2, <1>4, GitHubDetailAssumption
  <2>2. /\ Latest(p, after, {"COMMENTED"}) = Latest(p, before, {"COMMENTED"})
        /\ \/ Latest(p, after, Decisions) = Latest(p, before, Decisions)
           \/ p = before[i].who /\ Latest(p, after, Decisions) = "DISMISSED"
    <3>1. \A j \in 1 .. Len(before) : after[j].who = before[j].who
      BY <1>3
    <3>2. \A j \in 1 .. Len(before) : j # i => after[j].state = before[j].state
      BY <1>3
    <3>3. Len(after) = Len(before) /\ Len(before) \in Nat /\ DOMAIN before = 1 .. Len(before)
      BY <1>2
    <3> QED
      BY <1>2, <2>1, <3>1, <3>2, <3>3, DismissalShowsOrDoesNot, Zenon
  <2> QED
    BY <1>1, <2>1, <2>2 DEF before, after
<1>5. CASE i \notin 1 .. Len(before)
  <2>1. ASSUME NEW states PROVE Latest(p, after, states) = Latest(p, before, states)
    <3>1. ReviewsOf(p, after, states) = ReviewsOf(p, before, states)
      BY <1>2, <1>3, <1>5 DEF ReviewsOf
    <3>2. \A j \in ReviewsOf(p, before, states) : after[j].state = before[j].state
      BY <1>3, <1>5 DEF ReviewsOf
    <3> QED
      BY <1>2, <3>1, <3>2, LatestDependsOn
  <2> QED
    BY <1>1, <2>1 DEF before, after
<1> QED
  BY <1>4, <1>5

\* Someone stands as they are read unless their review is asked for in one of the two only.
LEMMA ReadAsTheyStand ==
  ASSUME NEW p \in People, NEW given, NEW asked, ~ readable => askedThen = {},
         p \notin askedThen, p \notin asked
  PROVE  StandsLegibly(p, given, asked) = Reviewer(p, Legible(given))
  BY DEF StandsLegibly, Stands, Reviewer, Decided, Commented, Legible

\* A page that is put together from a pull request and from reviews that were read later
\* shows each one as they stood at one moment of the job by the reviews and requests that
\* can be read; _reviewers_of lets a request beat a decision.  With NothingIsHidden: what
\* is missing of comments and files is said to be, what is missing of the reviews is
\* beyond REVIEWS_FETCH_LIMIT.
THEOREM PagesAreHonest ==
    GitHubDetailInit /\ [][GitHubDetailNext]_gdVars => []DetailIsHonest
<1>1. GitHubDetailInit => ReviewersInv
  <2> SUFFICES ASSUME GitHubDetailInit PROVE ReviewersInv
    OBVIOUS
  <2>1. reviews \in Reviews
    BY DEF GitHubDetailInit, Reviews
  <2> QED
    BY <2>1 DEF GitHubDetailInit, ReviewersInv, UnderWay, ReviewersStoodSo
<1>2. ReviewersInv /\ [GitHubDetailNext]_gdVars => ReviewersInv'
  <2> SUFFICES ASSUME ReviewersInv, [GitHubDetailNext]_gdVars PROVE ReviewersInv'
    OBVIOUS
  <2>1. ASSUME NEW given \in Reviews, NEW asked, NEW dismissed, Become(given, asked, dismissed),
               UnderWay => ShowsNothingElse(given)'
        PROVE  ReviewersInv'
    <3>1. UNCHANGED <<nextRead, readable, askedThen, detail, had>> /\ reviews' = given
      BY <2>1 DEF Become, JobStays, detailJob
    <3>2. DOMAIN stood' = People /\ (~ UnderWay => stood' = stood)
      BY <2>1 DEF Become, ReviewersInv
    <3>3. UnderWay' => ShowsNothingElse(reviews)'
      BY <2>1, <3>1 DEF UnderWay, ShowsNothingElse
    <3>4. ReviewersStoodSo'
      BY <3>1, <3>2 DEF ReviewersStoodSo, ReviewersInv, UnderWay
    <3> QED
      BY <2>1, <3>1, <3>2, <3>3, <3>4 DEF ReviewersInv, UnderWay
  <2>2. CASE Submit
    <3>1. PICK who, state, r, given, asked :
                  /\ who \in People /\ state \in {"COMMENTED", "APPROVED", "CHANGES_REQUESTED"}
                  /\ r = [who |-> who, state |-> state]
                  /\ given = Append(reviews, r) /\ asked = requested \ {who}
                  /\ Become(given, asked, {})
      BY <2>2 DEF Submit
    <3>2. r \in Review /\ r.who = who
      BY <3>1 DEF Review, Decisions
    <3>3. /\ given \in Reviews
          /\ Legible(given) = Append(Legible(reviews), r) \/ Legible(given) = Legible(reviews)
      BY <3>1, <3>2, AnotherReview DEF ReviewersInv
    <3>4. Legible(reviews) \in Reviews
      BY LegibleIsTheBeginning DEF ReviewersInv
    <3>5. ASSUME UnderWay, NEW p \in People PROVE (Reviewer(p, Legible(given)) \in stood[p])'
      <4>1. stood'[p] = stood[p] \cup {StandsLegibly(p, given, asked)}
        BY <3>1, <3>5 DEF Become
      <4>2. askedThen' = askedThen
        BY <3>1 DEF Become, JobStays, detailJob
      <4>3. Reviewer(p, Legible(given))' = Reviewer(p, Legible(given))
        BY <4>2 DEF Reviewer, Decided, Commented
      <4>4. Reviewer(p, Legible(reviews)) \in stood[p] /\ (~ readable => askedThen = {})
        BY <3>5 DEF ReviewersInv, ShowsNothingElse
      <4>5. CASE p = who /\ p \notin askedThen
        <5>1. p \notin asked
          BY <3>1, <4>5
        <5> QED
          BY <4>1, <4>3, <4>4, <4>5, <5>1, ReadAsTheyStand
      <4>6. CASE p \in askedThen
        BY <4>1, <4>3, <4>4, <4>6 DEF Reviewer
      <4>7. CASE p # who
        <5>1. \A states : Latest(p, Legible(given), states) = Latest(p, Legible(reviews), states)
          BY <3>2, <3>3, <3>4, <4>7, OthersStandAsBefore
        <5>2. Reviewer(p, Legible(given)) = Reviewer(p, Legible(reviews))
          BY <5>1 DEF Reviewer, Decided, Commented
        <5> QED
          BY <4>1, <4>3, <4>4, <5>2
      <4> QED
        BY <4>5, <4>6, <4>7
    <3>6. UnderWay => ShowsNothingElse(given)'
      BY <3>5 DEF ShowsNothingElse, Legible
    <3> QED
      BY <2>1, <3>1, <3>3, <3>6
  <2>3. CASE AskForReview
    <3>1. PICK given, asked : given = reviews /\ Become(given, asked, {})
      BY <2>3 DEF AskForReview
    <3>2. UnderWay => ShowsNothingElse(given)'
      <4>1. UnderWay => \A p \in People : stood[p] \subseteq stood'[p]
        BY <3>1 DEF Become
      <4>2. askedThen' = askedThen
        BY <3>1 DEF Become, JobStays, detailJob
      <4> QED
        BY <3>1, <4>1, <4>2
           DEF ReviewersInv, ShowsNothingElse, Legible, Reviewer, Decided, Commented
    <3> QED
      BY <2>1, <3>1, <3>2 DEF ReviewersInv
  <2>4. CASE Dismiss
    <3>1. PICK i, given, asked, dismissed :
                  /\ i \in DOMAIN reviews /\ reviews[i].state \in Decisions
                  /\ given = WithDismissed(reviews, i) /\ asked = requested
                  /\ dismissed = IF i <= ReviewsLimit THEN {reviews[i].who} ELSE {}
                  /\ Become(given, asked, dismissed)
      BY <2>4 DEF Dismiss, WithDismissed
    <3>2. reviews \in Reviews
      BY DEF ReviewersInv
    <3>3. ASSUME NEW p
          PROVE  /\ given \in Reviews
                 /\ Latest(p, Legible(given), {"COMMENTED"})
                       = Latest(p, Legible(reviews), {"COMMENTED"})
                 /\ \/ Latest(p, Legible(given), Decisions) = Latest(p, Legible(reviews), Decisions)
                    \/ /\ i <= ReviewsLimit /\ p = reviews[i].who
                       /\ Latest(p, Legible(given), Decisions) = "DISMISSED"
      <4>1. i \in DOMAIN reviews /\ reviews[i].state \in Decisions
        BY <3>1
      <4>2. given = WithDismissed(reviews, i)
        BY <3>1
      <4> QED
        BY <3>2, <4>1, <4>2, DismissalIsRead
    <3>4. ASSUME UnderWay, NEW p \in People PROVE (Reviewer(p, Legible(given)) \in stood[p])'
      <4>1. /\ stood[p] \subseteq stood'[p]
            /\ p \in dismissed => "DISMISSED" \in stood'[p]
        BY <3>1, <3>4 DEF Become
      <4>2. askedThen' = askedThen
        BY <3>1 DEF Become, JobStays, detailJob
      <4>3. Reviewer(p, Legible(given))' = Reviewer(p, Legible(given))
        BY <4>2 DEF Reviewer, Decided, Commented
      <4>4. Reviewer(p, Legible(reviews)) \in stood[p]
        BY <3>4 DEF ReviewersInv, ShowsNothingElse
      <4>5. \/ Reviewer(p, Legible(given)) = Reviewer(p, Legible(reviews))
            \/ p \in dismissed /\ Reviewer(p, Legible(given)) = "DISMISSED"
        BY <3>1, <3>3 DEF Reviewer, Decided, Commented
      <4> QED
        BY <4>1, <4>3, <4>4, <4>5
    <3>5. UnderWay => ShowsNothingElse(given)'
      BY <3>4 DEF ShowsNothingElse, Legible
    <3> QED
      BY <2>1, <3>1, <3>3, <3>5
  <2>5. CASE Write \/ Pushed
    <3>1. UNCHANGED <<reviews, nextRead, readable, askedThen, detail, had, stood>>
      BY <2>5 DEF Write, Pushed, JobStays, detailJob
    <3> QED
      BY <3>1 DEF ReviewersInv, UnderWay, ShowsNothingElse, Legible, Reviewer, Decided,
                  Commented, ReviewersStoodSo
  <2>6. CASE ReadPull
    <3>1. /\ UNCHANGED <<reviews, detail>> /\ nextRead' = "reviews"
          /\ ~ readable' => askedThen' = {}
          /\ stood' = [p \in People |-> {Stands(p, Legible(reviews), askedThen')}]
      BY <2>6 DEF ReadPull, GitHubStays, Legible
    <3>2. \A p \in People : Reviewer(p, Legible(reviews))' = Stands(p, Legible(reviews), askedThen')
      BY <3>1 DEF Reviewer, Decided, Commented, Stands, Legible
    <3>3. ShowsNothingElse(reviews)'
      BY <3>1, <3>2 DEF ShowsNothingElse
    <3> QED
      BY <3>1, <3>3 DEF ReviewersInv, ReviewersStoodSo
  <2>7. CASE ReadReviews
    <3>1. /\ UNCHANGED <<reviews, askedThen, stood>>
          /\ nextRead = "reviews" /\ nextRead' = "comments"
          /\ detail' = [detail EXCEPT !.reviewers =
                          [p \in People |-> Reviewer(p, Legible(reviews))]]
      BY <2>7 DEF ReadReviews, GitHubStays, Legible
    <3>2. detail'.reviewers = [p \in People |-> Reviewer(p, Legible(reviews))]
          /\ DOMAIN detail' = DOMAIN NoDetail
      BY <3>1 DEF ReviewersInv, NoDetail
    <3>3. ReviewersStoodSo'
      BY <3>1, <3>2 DEF ReviewersStoodSo, ReviewersInv, UnderWay, ShowsNothingElse
    <3> QED
      BY <3>1, <3>2, <3>3 DEF ReviewersInv, UnderWay
  <2>8. CASE ReadComments \/ ReadChecks \/ ReadFiles
    <3>1. /\ UNCHANGED <<reviews, stood>>
          /\ \/ nextRead \in {"comments", "checks"} /\ nextRead' \in {"checks", "done"}
             \/ nextRead' = "diff"
      BY <2>8 DEF ReadComments, ReadChecks, ReadFiles, GitHubStays
    <3>2. detail'.reviewers = detail.reviewers /\ DOMAIN detail' = DOMAIN NoDetail
      BY <2>8 DEF ReadComments, ReadChecks, ReadFiles, ReviewersInv, NoDetail
    <3>3. ReviewersStoodSo'
      BY <3>1, <3>2 DEF ReviewersStoodSo, ReviewersInv
    <3> QED
      BY <3>1, <3>2, <3>3 DEF ReviewersInv, UnderWay
  <2>9. CASE DetailFails
    BY <2>9 DEF DetailFails, GitHubStays, ReviewersInv, UnderWay, ReviewersStoodSo
  <2>10. CASE UNCHANGED gdVars
    BY <2>10 DEF gdVars, detailJob, ReviewersInv, UnderWay, ShowsNothingElse, Legible, Reviewer,
                 Decided, Commented, ReviewersStoodSo
  <2> QED
    BY <2>2, <2>3, <2>4, <2>5, <2>6, <2>7, <2>8, <2>9, <2>10 DEF GitHubDetailNext
<1>3. ReviewersInv => ReviewersStoodSo
  BY DEF ReviewersInv
<1>4. GitHubDetailInit /\ [][GitHubDetailNext]_gdVars => []ReviewersStoodSo
  BY <1>1, <1>2, <1>3, PTL
<1>5. ReviewersStoodSo /\ NothingHiddenSilently => DetailIsHonest
  BY DEF DetailIsHonest
<1> QED
  BY <1>4, <1>5, NothingIsHidden, PTL

-----------------------------------------------------------------------------
(* One fetch of the GitHub tab *)

GitHubTypeOK ==
    /\ is \in [Branches -> Conditions]
    /\ DOMAIN found \subseteq Branches
    /\ gStep \in {"yours", "team", "authored", "profile", "activity", "qualify", "none"}
    /\ gEnd = "none" <=> gStep # "none"
    /\ gStep = "yours" => DOMAIN found = {}

\* What the searches have found by now of a branch that did not change: no more than
\* they look for and, unless one was full, all of it in the first bucket that fits.
FoundInPlace(b) ==
    /\ b \in DOMAIN found => AsksTeam(b) \/ (HasOpen(b) /\ Mine(b))
    /\ Cardinality(DOMAIN found) < MaxPerQuery =>
          /\ AsksYou(b) => gStep = "yours" \/ b \in DOMAIN found
          /\ AsksTeam(b) => gStep \in {"yours", "team"} \/ b \in DOMAIN found
          /\ HasOpen(b) /\ Mine(b) => gStep \in {"yours", "team", "authored"} \/ b \in DOMAIN found
          /\ b \in DOMAIN found =>
                found[b] = IF AsksYou(b) THEN "your review"
                           ELSE IF AsksTeam(b) THEN "team review" ELSE Bucket(is[b])

\* What the lookups have found of its pushes: all they were told of, unless as many
\* newer ones fill the room.
NoPairFor(b) ==
    Cardinality(DOMAIN pairs) = MaxPairs /\ \A c \in DOMAIN pairs : pairs[c] >= is[b].pushed

PushedInPlace(b) ==
    /\ gStep = "qualify" =>
          /\ b \in DOMAIN pairs => is[b].pushed > 0 /\ pairs[b] = is[b].pushed
          /\ is[b].pushed > 0 /\ b \notin lost => b \in DOMAIN pairs \/ NoPairFor(b)
    /\ gEnd = "items" =>
          /\ b \in fresh => Qualifies(b)
          /\ Qualifies(b) /\ b \notin lost => b \in fresh \/ NoRoomFor(b)

GitHubInv ==
    /\ GitHubTypeOK
    /\ gEnd \in {"none", "items"} =>
          \A b \in Branches \ altered : FoundInPlace(b) /\ PushedInPlace(b)

\* A search adds what it hits and leaves what was found where it is.  As long as fewer
\* are found than one query brings, it hit all that it matches.
LEMMA ClaimFinds ==
  ASSUME GitHubInv, NEW matches \in SUBSET Branches, NEW hits \in SUBSET matches, NEW into,
         hits = matches \/ Cardinality(hits) = MaxPerQuery, Claim(hits, into)
  PROVE  /\ DOMAIN found' = DOMAIN found \cup hits
         /\ \A b \in DOMAIN found : found'[b] = found[b]
         /\ \A b \in hits \ DOMAIN found : found'[b] = into[b]
         /\ Cardinality(DOMAIN found') < MaxPerQuery =>
               hits = matches /\ Cardinality(DOMAIN found) < MaxPerQuery
<1>1. DOMAIN found' = DOMAIN found \cup hits
  BY DEF Claim
<1>2. (\A b \in DOMAIN found : found'[b] = found[b])
      /\ (\A b \in hits \ DOMAIN found : found'[b] = into[b])
  BY DEF Claim
<1>3. DOMAIN found' \in SUBSET Branches
  BY <1>1 DEF GitHubInv, GitHubTypeOK
<1>4. IsFiniteSet(DOMAIN found') /\ Cardinality(DOMAIN found') \in Nat
  BY <1>3, GitHubAssumption, FS_Subset, FS_CardinalityType
<1>5. Cardinality(hits) <= Cardinality(DOMAIN found')
  BY <1>1, <1>4, FS_Subset
<1>6. Cardinality(DOMAIN found) <= Cardinality(DOMAIN found')
  BY <1>1, <1>4, FS_Subset
<1>7. Cardinality(DOMAIN found) \in Nat
  BY <1>1, <1>4, FS_Subset, FS_CardinalityType
<1> QED
  BY <1>1, <1>2, <1>4, <1>5, <1>6, <1>7, GitHubAssumption

\* The three searches, in their order.
LEMMA SearchStep ==
  ASSUME GitHubInv, SearchYours \/ SearchTeam \/ SearchAuthored
  PROVE  GitHubInv'
<1>1. CASE SearchYours
  <2> DEFINE matches == {b \in Branches : AsksYou(b)}
             into == [b \in Branches |-> "your review"]
  <2>1. matches \in SUBSET Branches
    OBVIOUS
  <2>2. /\ gStep = "yours" /\ gStep' = "team" /\ UNCHANGED <<is, altered, gEnd, pairs, lost, fresh>>
        /\ \E hits \in SUBSET matches :
              (hits = matches \/ Cardinality(hits) = MaxPerQuery) /\ Claim(hits, into)
    BY <1>1 DEF SearchYours, Search
  <2> HIDE DEF matches, into
  <2>3. PICK hits \in SUBSET matches :
            (hits = matches \/ Cardinality(hits) = MaxPerQuery) /\ Claim(hits, into)
    BY <2>2
  <2>4. /\ DOMAIN found' = DOMAIN found \cup hits
        /\ \A b \in DOMAIN found : found'[b] = found[b]
        /\ \A b \in hits \ DOMAIN found : found'[b] = into[b]
        /\ Cardinality(DOMAIN found') < MaxPerQuery =>
              hits = matches /\ Cardinality(DOMAIN found) < MaxPerQuery
    BY <2>1, <2>3, ClaimFinds
  <2>5. \A b \in Branches : into[b] = "your review"
    BY DEF into
  <2>6. \A b : b \in matches <=> b \in Branches /\ AsksYou(b)
    BY DEF matches
  <2>7. gEnd = "none" /\ GitHubTypeOK'
    BY <2>1, <2>2, <2>4 DEF GitHubInv, GitHubTypeOK
  <2>8. ASSUME NEW b \in Branches \ altered PROVE FoundInPlace(b)'
    <3>1. FoundInPlace(b)
      BY <2>7 DEF GitHubInv
    <3> QED
      BY <2>2, <2>4, <2>5, <2>6, <3>1 DEF FoundInPlace, AsksYou, AsksTeam, HasOpen, Mine
  <2> QED
    BY <2>2, <2>7, <2>8 DEF GitHubInv, PushedInPlace
<1>2. CASE SearchTeam
  <2> DEFINE matches == {b \in Branches : AsksTeam(b)}
             into == [b \in Branches |-> "team review"]
  <2>1. matches \in SUBSET Branches
    OBVIOUS
  <2>2. /\ gStep = "team" /\ gStep' = "authored"
        /\ UNCHANGED <<is, altered, gEnd, pairs, lost, fresh>>
        /\ \E hits \in SUBSET matches :
              (hits = matches \/ Cardinality(hits) = MaxPerQuery) /\ Claim(hits, into)
    BY <1>2 DEF SearchTeam, Search
  <2> HIDE DEF matches, into
  <2>3. PICK hits \in SUBSET matches :
            (hits = matches \/ Cardinality(hits) = MaxPerQuery) /\ Claim(hits, into)
    BY <2>2
  <2>4. /\ DOMAIN found' = DOMAIN found \cup hits
        /\ \A b \in DOMAIN found : found'[b] = found[b]
        /\ \A b \in hits \ DOMAIN found : found'[b] = into[b]
        /\ Cardinality(DOMAIN found') < MaxPerQuery =>
              hits = matches /\ Cardinality(DOMAIN found) < MaxPerQuery
    BY <2>1, <2>3, ClaimFinds
  <2>5. \A b \in Branches : into[b] = "team review"
    BY DEF into
  <2>6. \A b : b \in matches <=> b \in Branches /\ AsksTeam(b)
    BY DEF matches
  <2>7. gEnd = "none" /\ GitHubTypeOK'
    BY <2>1, <2>2, <2>4 DEF GitHubInv, GitHubTypeOK
  <2>8. ASSUME NEW b \in Branches \ altered PROVE FoundInPlace(b)'
    <3>1. FoundInPlace(b)
      BY <2>7 DEF GitHubInv
    <3> QED
      BY <2>2, <2>4, <2>5, <2>6, <3>1 DEF FoundInPlace, AsksYou, AsksTeam, HasOpen, Mine
  <2> QED
    BY <2>2, <2>7, <2>8 DEF GitHubInv, PushedInPlace
<1>3. CASE SearchAuthored
  <2> DEFINE matches == {b \in Branches : HasOpen(b) /\ Mine(b)}
             into == [b \in Branches |-> Bucket(is[b])]
  <2>1. matches \in SUBSET Branches
    OBVIOUS
  <2>2. /\ gStep = "authored" /\ gStep' = "profile"
        /\ UNCHANGED <<is, altered, gEnd, pairs, lost, fresh>>
        /\ \E hits \in SUBSET matches :
              (hits = matches \/ Cardinality(hits) = MaxPerQuery) /\ Claim(hits, into)
    BY <1>3 DEF SearchAuthored, Search
  <2> HIDE DEF matches, into
  <2>3. PICK hits \in SUBSET matches :
            (hits = matches \/ Cardinality(hits) = MaxPerQuery) /\ Claim(hits, into)
    BY <2>2
  <2>4. /\ DOMAIN found' = DOMAIN found \cup hits
        /\ \A b \in DOMAIN found : found'[b] = found[b]
        /\ \A b \in hits \ DOMAIN found : found'[b] = into[b]
        /\ Cardinality(DOMAIN found') < MaxPerQuery =>
              hits = matches /\ Cardinality(DOMAIN found) < MaxPerQuery
    BY <2>1, <2>3, ClaimFinds
  <2>5. \A b \in Branches : into[b] = Bucket(is[b])
    BY DEF into
  <2>6. \A b : b \in matches <=> b \in Branches /\ HasOpen(b) /\ Mine(b)
    BY DEF matches
  <2>7. gEnd = "none" /\ GitHubTypeOK'
    BY <2>1, <2>2, <2>4 DEF GitHubInv, GitHubTypeOK
  <2>8. ASSUME NEW b \in Branches \ altered PROVE FoundInPlace(b)'
    <3>1. FoundInPlace(b)
      BY <2>7 DEF GitHubInv
    <3> QED
      BY <2>2, <2>4, <2>5, <2>6, <3>1 DEF FoundInPlace, AsksYou, AsksTeam, HasOpen, Mine
  <2> QED
    BY <2>2, <2>7, <2>8 DEF GitHubInv, PushedInPlace
<1> QED
  BY <1>1, <1>2, <1>3

\* The dates of the pushes found are those of the branches, as long as they stay.
LEMMA LookUpStep ==
  ASSUME GitHubInv, LookUpActivity
  PROVE  GitHubInv'
<1> DEFINE told == {b \in Branches \ lost' : is[b].pushed > 0}
           date == [b \in Branches |-> is[b].pushed]
<1>1. /\ gStep = "activity" /\ gStep' = "qualify" /\ gEnd = "none"
      /\ UNCHANGED <<is, found, fresh, profile, altered, gEnd>>
  BY DEF LookUpActivity, GitHubInv, GitHubTypeOK
<1>2. PICK kept \in Newest(told, date, MaxPairs) : pairs' = [b \in kept |-> is[b].pushed]
  BY DEF LookUpActivity
<1>3. /\ kept \subseteq told /\ (kept = told \/ Cardinality(kept) = MaxPairs)
      /\ \A b \in kept, c \in told \ kept : date[b] >= date[c]
  BY <1>2 DEF Newest
<1>4. DOMAIN pairs' = kept /\ \A b \in kept : pairs'[b] = is[b].pushed
  BY <1>2
<1>5. ASSUME NEW b \in Branches \ altered PROVE PushedInPlace(b)'
  <2>1. b \in kept => is[b].pushed > 0 /\ pairs'[b] = is[b].pushed
    BY <1>3, <1>4
  <2>2. ASSUME is[b].pushed > 0, b \notin lost', b \notin kept PROVE NoPairFor(b)'
    <3>1. b \in told \ kept
      BY <2>2
    <3>2. \A c \in kept : pairs'[c] >= is[b].pushed
      BY <1>3, <1>4, <3>1
    <3> QED
      BY <1>1, <1>3, <1>4, <3>1, <3>2 DEF NoPairFor
  <2> QED
    BY <1>1, <1>4, <2>1, <2>2 DEF PushedInPlace
<1>6. ASSUME NEW b \in Branches \ altered PROVE FoundInPlace(b)'
  <2>1. FoundInPlace(b)
    BY <1>1 DEF GitHubInv
  <2> QED
    BY <1>1, <2>1 DEF FoundInPlace, AsksYou, AsksTeam, HasOpen, Mine
<1> QED
  BY <1>1, <1>5, <1>6 DEF GitHubInv, GitHubTypeOK

\* What is shown qualifies, and what qualifies is shown unless newer ones fill the room.
LEMMA QualifyStep ==
  ASSUME GitHubInv, Qualify
  PROVE  GitHubInv'
<1>1. /\ gStep = "qualify" /\ gStep' = "none" /\ gEnd = "none" /\ gEnd' = "items"
      /\ UNCHANGED <<is, found, pairs, profile, altered>>
  BY DEF Qualify, GitHubInv, GitHubTypeOK
<1>2. PICK said \in SUBSET DOMAIN pairs :
          /\ lost' = lost \cup (DOMAIN pairs \ said)
          /\ fresh' \in Newest({b \in said : Qualifies(b)}, pairs, MaxBranches)
  BY DEF Qualify
<1> DEFINE fit == {b \in said : Qualifies(b)}
<1>3. /\ fresh' \subseteq fit /\ (fresh' = fit \/ Cardinality(fresh') = MaxBranches)
      /\ \A b \in fresh', c \in fit \ fresh' : pairs[b] >= pairs[c]
  BY <1>2 DEF Newest
<1>4. ASSUME NEW b \in Branches \ altered PROVE PushedInPlace(b)'
  <2>1. PushedInPlace(b)
    BY <1>1 DEF GitHubInv
  <2>2. Qualifies(b)' <=> Qualifies(b)
    BY <1>1 DEF Qualifies
  <2>3. ASSUME Qualifies(b), b \notin lost', b \notin fresh' PROVE NoRoomFor(b)'
    <3>1. is[b].pushed > 0 /\ b \notin lost
      BY <1>2, <2>3 DEF Qualifies
    <3>2. CASE b \in DOMAIN pairs
      <4>1. b \in fit \ fresh' /\ pairs[b] = is[b].pushed
        BY <1>1, <1>2, <2>1, <2>3, <3>2 DEF PushedInPlace
      <4> QED
        BY <1>1, <1>3, <4>1 DEF NoRoomFor
    <3>3. CASE NoPairFor(b)
      BY <1>1, <3>3 DEF NoPairFor, NoRoomFor
    <3> QED
      BY <1>1, <2>1, <3>1, <3>2, <3>3 DEF PushedInPlace
  <2> QED
    BY <1>1, <1>3, <2>2, <2>3 DEF PushedInPlace
<1>5. ASSUME NEW b \in Branches \ altered PROVE FoundInPlace(b)'
  <2>1. FoundInPlace(b)
    BY <1>1 DEF GitHubInv
  <2> QED
    BY <1>1, <2>1 DEF FoundInPlace, AsksYou, AsksTeam, HasOpen, Mine
<1> QED
  BY <1>1, <1>4, <1>5 DEF GitHubInv, GitHubTypeOK

\* A branch that no request saw change is in one place, whatever the others did between
\* the requests of _fetch_items: in the first bucket that fits, or pushed, and it is left
\* out only as the limits of query_pushed_branches and its failures leave it out.
THEOREM BranchesHaveOnePlace == GitHubInit /\ [][GitHubNext]_gVars => []EveryBranchHasItsPlace
<1>1. GitHubInit => GitHubInv
  BY DEF GitHubInit, GitHubInv, GitHubTypeOK, FoundInPlace, PushedInPlace
<1>2. GitHubInv /\ [GitHubNext]_gVars => GitHubInv'
  <2> SUFFICES ASSUME GitHubInv, [GitHubNext]_gVars PROVE GitHubInv'
    OBVIOUS
  <2> USE DEF GitHubInv, GitHubTypeOK, FoundInPlace, PushedInPlace, AsksYou, AsksTeam,
              HasOpen, Mine, Qualifies, NoPairFor, NoRoomFor
  <2>1. CASE Moves
    <3>1. PICK b \in Branches, c \in Conditions :
              is' = [is EXCEPT ![b] = c] /\ altered' = altered \cup {b}
      BY <2>1 DEF Moves
    <3>2. is' \in [Branches -> Conditions] /\ \A a \in Branches \ altered' : is'[a] = is[a]
      BY <3>1
    <3>3. UNCHANGED <<gStep, found, pairs, lost, fresh, profile, gEnd>>
      BY <2>1 DEF Moves
    <3>4. ASSUME gEnd' \in {"none", "items"}, NEW a \in Branches \ altered'
          PROVE  FoundInPlace(a)' /\ PushedInPlace(a)'
      <4>1. is'[a] = is[a] /\ FoundInPlace(a) /\ PushedInPlace(a)
        BY <3>1, <3>2, <3>3, <3>4
      <4> QED
        BY <3>3, <4>1
    <3> QED
      BY <3>2, <3>3, <3>4
  <2>2. CASE SearchYours \/ SearchTeam \/ SearchAuthored
    BY <2>2, SearchStep
  <2>3. CASE SearchFails
    BY <2>3 DEF SearchFails, Refusals, ErrorOf
  <2>4. CASE QueryProfile
    BY <2>4 DEF QueryProfile
  <2>5. CASE LookUpActivity
    BY <2>5, LookUpStep
  <2>6. CASE Qualify
    BY <2>6, QualifyStep
  <2>7. CASE PushedUnavailable
    BY <2>7 DEF PushedUnavailable
  <2>8. CASE UNCHANGED gVars
    BY <2>8 DEF gVars
  <2> QED
    BY <2>1, <2>2, <2>3, <2>4, <2>5, <2>6, <2>7, <2>8 DEF GitHubNext
<1>3. GitHubInv => EveryBranchHasItsPlace
  BY DEF GitHubInv, GitHubTypeOK, FoundInPlace, PushedInPlace, EveryBranchHasItsPlace,
         AsksYou, AsksTeam, HasOpen, Mine, Qualifies
<1> QED
  BY <1>1, <1>2, <1>3, PTL

-----------------------------------------------------------------------------
(* The order of the tabs *)

TabLists == {list \in Seq(Integrations) : IsInjective(list)}

\* Two lists have the same tabs in the same order, but for those in `aside'.  Of a tab
\* that is twice in a list, one is before the other: it is in both, or in neither.
Agree(one, two, aside) ==
    /\ ToSet(one) \ aside = ToSet(two) \ aside
    /\ \A s, t \in ToSet(one) \ aside : Before(one, s, t) <=> Before(two, s, t)

\* What a command loaded is what is in the config until someone saves.  While the menu
\* removes a tab it connects none.
CommandInv ==
    command = NoCommand \/
    /\ command.is \in {"connect", "remove"} /\ command.by \in {"command", "menu"}
    /\ command.is = "connect" => command.by = "command"
    /\ command.id \in Integrations /\ command.loaded \in TabLists
    /\ command.at \in Nat /\ command.at <= lastSave
    /\ command.at = lastSave => command.loaded = config
    /\ command.by = "menu" => chosen = {}

\* What the menu connects was not configured when it was chosen.
ConfigInv ==
    /\ ToSet(config) = wanted
    /\ Agree(config, shown, touched)
    /\ chosen \cap ToSet(config) \subseteq touched

TabInv ==
    /\ config \in TabLists /\ shown \in Seq(Integrations) /\ order \in TabLists
    /\ chosen \in SUBSET Integrations
    /\ lastSave \in Nat /\ CommandInv
    /\ ~ overwritten => ConfigInv

\* Of two tabs in a list one is before the other; one that is there once is not before
\* itself.
LEMMA ListFacts ==
    ASSUME NEW list \in Seq(Integrations)
    PROVE  /\ Len(list) \in Nat /\ DOMAIN list = 1 .. Len(list)
           /\ \A s, t : Before(list, s, t) => s \in ToSet(list) /\ t \in ToSet(list)
           /\ IsInjective(list) => \A t : ~ Before(list, t, t)
  BY DEF Before, ToSet, IsInjective

\* A tab added at the end comes after all others.
LEMMA AppendFacts ==
    ASSUME NEW list \in Seq(Integrations), NEW id \in Integrations
    PROVE  /\ Append(list, id) \in Seq(Integrations)
           /\ IsInjective(list) /\ id \notin ToSet(list) => IsInjective(Append(list, id))
           /\ ToSet(Append(list, id)) = ToSet(list) \cup {id}
           /\ \A s, t : Before(Append(list, id), s, t) <=>
                            Before(list, s, t) \/ (s \in ToSet(list) /\ t = id)
<1>1. /\ <<id>> \in Seq(Integrations) /\ ToSet(<<id>>) = {id} /\ IsInjective(<<id>>)
      /\ \A s, t : ~ Before(<<id>>, s, t)
  BY DEF ToSet, IsInjective, Before
<1>2. Append(list, id) = list \o <<id>>
  BY AppendIsConcat
<1> DEFINE last == <<id>>
           both == list \o last
<1> HIDE DEF last
<1>3. /\ both \in Seq(Integrations) /\ ToSet(both) = ToSet(list) \cup ToSet(last)
      /\ IsInjective(list) /\ IsInjective(last) /\ ToSet(list) \cap ToSet(last) = {}
           => IsInjective(both)
      /\ \A s, t : Before(both, s, t) <=>
            Before(list, s, t) \/ Before(last, s, t) \/ (s \in ToSet(list) /\ t \in ToSet(last))
  BY <1>1, ConcatFacts DEF last
<1> HIDE DEF both
<1>4. \A s, t : Before(both, s, t) <=> Before(list, s, t) \/ (s \in ToSet(list) /\ t = id)
  BY <1>1, <1>3 DEF last
<1>5. both = Append(list, id)
  BY <1>2 DEF both, last
<1>6. IsInjective(list) /\ id \notin ToSet(list) => IsInjective(both)
  BY <1>1, <1>3 DEF last
<1> QED
  BY <1>1, <1>3, <1>4, <1>5, <1>6 DEF last

\* Adding a tab to the config moves no other.
LEMMA AddTabFacts ==
    ASSUME NEW list \in TabLists, NEW id \in Integrations
    PROVE  /\ AddTab(list, id) \in TabLists
           /\ ToSet(AddTab(list, id)) = ToSet(list) \cup {id}
           /\ id \in ToSet(list) => AddTab(list, id) = list
           /\ \A s, t : Before(AddTab(list, id), s, t) <=>
                 Before(list, s, t) \/ (s \in ToSet(list) /\ t = id /\ id \notin ToSet(list))
<1>1. list \in Seq(Integrations) /\ IsInjective(list)
  BY DEF TabLists
<1>2. Contains(list, id) <=> id \in ToSet(list)
  BY <1>1, ListFacts DEF Contains, ToSet
<1>3. CASE id \in ToSet(list)
  BY <1>2, <1>3 DEF AddTab
<1>4. CASE id \notin ToSet(list)
  <2>1. AddTab(list, id) = Append(list, id)
    BY <1>2, <1>4 DEF AddTab
  <2> QED
    BY <1>1, <1>4, <2>1, AppendFacts DEF TabLists
<1> QED
  BY <1>3, <1>4

\* Nor does taking one away, from the config or from the screen.
LEMMA WithoutFacts ==
    ASSUME NEW list \in Seq(Integrations), NEW id
    PROVE  /\ Without(list, id) \in Seq(Integrations)
           /\ IsInjective(list) => IsInjective(Without(list, id))
           /\ ToSet(Without(list, id)) = ToSet(list) \ {id}
           /\ \A s, t \in ToSet(list) \ {id} :
                 Before(Without(list, id), s, t) <=> Before(list, s, t)
<1> DEFINE ids == ToSet(list) \ {id}
<1>1. LET out == Kept(list, ids)
      IN  /\ out \in Seq(Integrations) /\ ToSet(out) = ToSet(list) \cap ids
          /\ IsInjective(list) => IsInjective(out)
          /\ \A s, t \in ids : Before(out, s, t) <=> Before(list, s, t)
  BY KeptFacts
<1> QED
  BY <1>1 DEF Without

\* Reordering puts the named tabs first, as named, and the others behind, as they were.
LEMMA ReorderedFacts ==
    ASSUME NEW list \in Seq(Integrations), NEW named \in TabLists
    PROVE  /\ Reordered(list, named) \in Seq(Integrations)
           /\ IsInjective(list) => IsInjective(Reordered(list, named))
           /\ ToSet(Reordered(list, named)) = ToSet(list)
           /\ \A s, t \in ToSet(list) : Before(Reordered(list, named), s, t) <=>
                 \/ s \in ToSet(named) /\ t \in ToSet(named) /\ Before(named, s, t)
                 \/ s \in ToSet(named) /\ t \notin ToSet(named)
                 \/ s \notin ToSet(named) /\ t \notin ToSet(named) /\ Before(list, s, t)
<1> DEFINE known == Kept(named, ToSet(list))
           rest == Kept(list, ToSet(list) \ ToSet(named))
<1>1. named \in Seq(Integrations) /\ IsInjective(named)
  BY DEF TabLists
<1>2. /\ known \in Seq(Integrations) /\ ToSet(known) = ToSet(named) \cap ToSet(list)
      /\ IsInjective(known)
      /\ \A s, t \in ToSet(list) : Before(known, s, t) <=> Before(named, s, t)
  BY <1>1, KeptFacts
<1>3. /\ rest \in Seq(Integrations) /\ ToSet(rest) = ToSet(list) \ ToSet(named)
      /\ IsInjective(list) => IsInjective(rest)
      /\ \A s, t \in ToSet(list) \ ToSet(named) : Before(rest, s, t) <=> Before(list, s, t)
  <2>1. LET out == rest
        IN  /\ out \in Seq(Integrations)
            /\ ToSet(out) = ToSet(list) \cap (ToSet(list) \ ToSet(named))
            /\ IsInjective(list) => IsInjective(out)
            /\ \A s, t \in ToSet(list) \ ToSet(named) : Before(out, s, t) <=> Before(list, s, t)
    BY <1>1, KeptFacts
  <2> QED
    BY <2>1
<1> HIDE DEF known, rest
<1>4. ToSet(known) \cap ToSet(rest) = {}
  BY <1>2, <1>3
<1>5. LET both == known \o rest
      IN  /\ both \in Seq(Integrations) /\ ToSet(both) = ToSet(known) \cup ToSet(rest)
          /\ IsInjective(known) /\ IsInjective(rest) /\ ToSet(known) \cap ToSet(rest) = {}
               => IsInjective(both)
          /\ \A s, t : Before(both, s, t) <=>
                Before(known, s, t) \/ Before(rest, s, t)
                \/ (s \in ToSet(known) /\ t \in ToSet(rest))
  BY <1>2, <1>3, ConcatFacts
<1>6. Reordered(list, named) = known \o rest
  BY DEF Reordered, known, rest
<1>7. ASSUME NEW s \in ToSet(list), NEW t \in ToSet(list)
      PROVE  Before(known \o rest, s, t) <=>
                 \/ s \in ToSet(named) /\ t \in ToSet(named) /\ Before(named, s, t)
                 \/ s \in ToSet(named) /\ t \notin ToSet(named)
                 \/ s \notin ToSet(named) /\ t \notin ToSet(named) /\ Before(list, s, t)
  <2>1. Before(known, s, t) <=> s \in ToSet(named) /\ t \in ToSet(named) /\ Before(named, s, t)
    BY <1>2, ListFacts
  <2>2. Before(rest, s, t) <=> s \notin ToSet(named) /\ t \notin ToSet(named) /\ Before(list, s, t)
    BY <1>3, ListFacts
  <2> QED
    BY <1>2, <1>3, <1>5, <2>1, <2>2
<1>8. ToSet(known \o rest) = ToSet(list)
  BY <1>2, <1>3, <1>5
<1>9. IsInjective(list) => IsInjective(known \o rest)
  BY <1>2, <1>3, <1>4, <1>5
<1> QED
  BY <1>5, <1>6, <1>7, <1>8, <1>9

\* The index of a tab that is there once is its place.
LEMMA IndexIsPlace ==
    ASSUME NEW list \in Seq(Integrations), NEW s \in ToSet(list), NEW t \in ToSet(list),
           ~ Before(list, s, s), ~ Before(list, t, t)
    PROVE  Index(list, s) < Index(list, t) <=> Before(list, s, t)
<1>1. Len(list) \in Nat /\ DOMAIN list = 1 .. Len(list)
  BY ListFacts
<1>2. ASSUME NEW x \in {s, t}
      PROVE  /\ Index(list, x) \in 1 .. Len(list) /\ list[Index(list, x)] = x
             /\ \A i \in 1 .. Len(list) : list[i] = x => i = Index(list, x)
  <2>1. \E i \in DOMAIN list : list[i] = x
    BY DEF ToSet
  <2>2. Index(list, x) \in DOMAIN list /\ list[Index(list, x)] = x
    BY <2>1 DEF Index
  <2>3. \A i, j \in 1 .. Len(list) : ~ (i < j /\ list[i] = x /\ list[j] = x)
    BY DEF Before
  <2> QED
    BY <1>1, <2>2, <2>3
<1> QED
  BY <1>1, <1>2 DEF Before

\* Two tabs that change places stay a list of the same tabs.
LEMMA MoveKeepsTheTabs ==
    ASSUME NEW list \in TabLists, NEW i \in DOMAIN list, NEW j \in DOMAIN list
    PROVE  [list EXCEPT ![i] = list[j], ![j] = list[i]] \in TabLists
<1>1. /\ list \in Seq(Integrations) /\ IsInjective(list)
      /\ Len(list) \in Nat /\ DOMAIN list = 1 .. Len(list)
  BY DEF TabLists
<1> DEFINE one == [list EXCEPT ![i] = list[j]]
           two == [one EXCEPT ![j] = list[i]]
<1>2. list[i] \in Integrations /\ list[j] \in Integrations
  BY <1>1, ElementOfSeq
<1>3. one \in Seq(Integrations) /\ Len(one) = Len(list)
  BY <1>1, <1>2, ExceptSeq
<1> HIDE DEF one
<1>4. two \in Seq(Integrations) /\ Len(two) = Len(list)
  BY <1>1, <1>2, <1>3, ExceptSeq
<1>5. DOMAIN two = 1 .. Len(list)
  BY <1>1, <1>4
<1>6. \A k \in 1 .. Len(list) :
          two[k] = IF k = j THEN list[i] ELSE IF k = i THEN list[j] ELSE list[k]
  BY <1>1, <1>3 DEF one
<1> HIDE DEF two
<1>7. IsInjective(two)
  BY <1>1, <1>5, <1>6 DEF IsInjective
<1>8. two = [list EXCEPT ![i] = list[j], ![j] = list[i]]
  BY DEF one, two
<1> QED
  BY <1>4, <1>7, <1>8 DEF TabLists

\* Two lists that agree still do when both are reordered by the same names.
LEMMA AgreeAfterBoth ==
    ASSUME NEW one \in Seq(Integrations), NEW two \in Seq(Integrations), NEW aside,
           NEW named \in TabLists, Agree(one, two, aside)
    PROVE  Agree(Reordered(one, named), Reordered(two, named), aside)
<1>1. /\ ToSet(one) \ aside = ToSet(two) \ aside
      /\ \A s, t \in ToSet(one) \ aside : Before(one, s, t) <=> Before(two, s, t)
  BY DEF Agree
<1>2. ToSet(Reordered(one, named)) = ToSet(one) /\ ToSet(Reordered(two, named)) = ToSet(two)
  BY ReorderedFacts
<1>3. ASSUME NEW s \in ToSet(one) \ aside, NEW t \in ToSet(one) \ aside
      PROVE  Before(Reordered(one, named), s, t) <=> Before(Reordered(two, named), s, t)
  <2>1. s \in ToSet(one) /\ t \in ToSet(one) /\ s \in ToSet(two) /\ t \in ToSet(two)
    BY <1>1
  <2>2. Before(one, s, t) <=> Before(two, s, t)
    BY <1>1
  <2>3. Before(Reordered(one, named), s, t) <=>
                 \/ s \in ToSet(named) /\ t \in ToSet(named) /\ Before(named, s, t)
                 \/ s \in ToSet(named) /\ t \notin ToSet(named)
                 \/ s \notin ToSet(named) /\ t \notin ToSet(named) /\ Before(one, s, t)
    BY <2>1, ReorderedFacts
  <2>4. Before(Reordered(two, named), s, t) <=>
                 \/ s \in ToSet(named) /\ t \in ToSet(named) /\ Before(named, s, t)
                 \/ s \in ToSet(named) /\ t \notin ToSet(named)
                 \/ s \notin ToSet(named) /\ t \notin ToSet(named) /\ Before(two, s, t)
    BY <2>1, ReorderedFacts
  <2> QED
    BY <2>2, <2>3, <2>4
<1> QED
  BY <1>1, <1>2, <1>3 DEF Agree

\* The tabs start with their invariant.
LEMMA TabInit == TabOrderInit => TabInv
<1> SUFFICES ASSUME TabOrderInit PROVE TabInv
  OBVIOUS
<1>1. config \in TabLists /\ shown = config /\ shown \in Seq(Integrations)
  <2>1. Cardinality(Integrations) \in Nat
    BY TabOrderAssumption, FS_CardinalityType
  <2>2. PICK n \in {0, Cardinality(Integrations)} : config \in [1 .. n -> Integrations]
    BY DEF TabOrderInit
  <2>3. config \in Seq(Integrations)
    BY <2>1, <2>2
  <2> QED
    BY <2>3 DEF TabOrderInit, TabLists
<1>2. <<>> \in TabLists
  BY DEF TabLists, IsInjective
<1> QED
  BY <1>1, <1>2 DEF TabOrderInit, TabInv, CommandInv, ConfigInv, Agree

\* What saves what it loaded makes a list of it, and unless another saved meanwhile the
\* one that was asked for.
LEMMA OperationMakes ==
    ASSUME TabInv, command # NoCommand, OperationSaves
    PROVE  /\ config' \in TabLists /\ lastSave' = lastSave + 1
           /\ ~ overwritten' =>
                 /\ ~ overwritten /\ ToSet(config') = wanted'
                 /\ ToSet(config') \cup {command.id} = ToSet(config) \cup {command.id}
                 /\ \A s, t \in ToSet(config') \ {command.id} :
                       Before(config', s, t) <=> Before(config, s, t)
           /\ command.is = "remove" /\ ~ overwritten' =>
                 ToSet(config') = ToSet(config) \ {command.id}
<1> DEFINE id == command.id
           loaded == command.loaded
<1>1. /\ command.is \in {"connect", "remove"} /\ id \in Integrations /\ loaded \in TabLists
      /\ command.at \in Nat /\ (command.at = lastSave => loaded = config)
  BY DEF TabInv, CommandInv
<1>2. loaded \in Seq(Integrations) /\ IsInjective(loaded)
  BY <1>1 DEF TabLists
<1>3. /\ lastSave' = lastSave + 1
      /\ ~ overwritten' => ~ overwritten /\ loaded = config /\ ToSet(config) = wanted
  BY <1>1 DEF OperationSaves, Save, TabInv, ConfigInv
<1>4. CASE command.is = "connect"
  <2>1. config' = AddTab(loaded, id) /\ wanted' = wanted \cup {id}
    BY <1>4 DEF OperationSaves, Save
  <2> HIDE DEF id, loaded
  <2>2. /\ config' \in TabLists /\ ToSet(config') = ToSet(loaded) \cup {id}
        /\ \A s, t : Before(config', s, t) <=>
              Before(loaded, s, t) \/ (s \in ToSet(loaded) /\ t = id /\ id \notin ToSet(loaded))
    BY <1>1, <2>1, AddTabFacts
  <2> QED
    BY <1>3, <1>4, <2>1, <2>2 DEF id
<1>5. CASE command.is = "remove"
  <2>1. config' = Without(loaded, id) /\ wanted' = wanted \ {id}
    BY <1>5 DEF OperationSaves, Save
  <2> HIDE DEF id, loaded
  <2>2. /\ config' \in TabLists /\ ToSet(config') = ToSet(loaded) \ {id}
        /\ \A s, t \in ToSet(loaded) \ {id} : Before(config', s, t) <=> Before(loaded, s, t)
    BY <1>2, <2>1, WithoutFacts DEF TabLists
  <2> QED
    BY <1>3, <2>1, <2>2 DEF id
<1> QED
  BY <1>1, <1>4, <1>5

\* A change the screen does not show: a command's, or a removal's that failed.
LEMMA BesideTheScreen ==
    ASSUME TabInv, CommandEnds \/ RemovalFails
    PROVE  TabInv'
<1>1. /\ command # NoCommand /\ OperationSaves /\ command' = NoCommand
      /\ touched' = touched \cup {command.id} /\ UNCHANGED <<shown, order, chosen>>
  BY DEF CommandEnds, RemovalFails, barVars
<1> DEFINE id == command.id
<1>2. /\ config' \in TabLists /\ lastSave' = lastSave + 1
      /\ ~ overwritten' =>
            /\ ~ overwritten /\ ToSet(config') = wanted'
            /\ ToSet(config') \cup {id} = ToSet(config) \cup {id}
            /\ \A s, t \in ToSet(config') \ {id} : Before(config', s, t) <=> Before(config, s, t)
  BY <1>1, OperationMakes
<1> HIDE DEF id
<1>3. ASSUME ~ overwritten' PROVE ConfigInv'
  <2>1. /\ ToSet(config) \ touched = ToSet(shown) \ touched
        /\ \A s, t \in ToSet(config) \ touched : Before(config, s, t) <=> Before(shown, s, t)
        /\ chosen \cap ToSet(config) \subseteq touched
    BY <1>2, <1>3 DEF TabInv, ConfigInv, Agree
  <2>2. touched' = touched \cup {id} /\ shown' = shown /\ chosen' = chosen
    BY <1>1 DEF id
  <2>3. ToSet(config') \ touched' = ToSet(shown') \ touched'
    BY <1>2, <1>3, <2>1, <2>2
  <2>4. \A s, t \in ToSet(config') \ touched' : Before(config', s, t) <=> Before(shown', s, t)
    BY <1>2, <1>3, <2>1, <2>2
  <2> QED
    BY <1>2, <1>3, <2>1, <2>2, <2>3, <2>4 DEF ConfigInv, Agree
<1> QED
  BY <1>1, <1>2, <1>3 DEF TabInv, CommandInv

\* A removal that drops the tab.
LEMMA OnTheScreen ==
    ASSUME TabInv, RemovalEnds
    PROVE  TabInv'
<1>1. /\ command # NoCommand /\ OperationSaves /\ command' = NoCommand /\ command.by = "menu"
      /\ shown' = Without(shown, command.id) /\ touched' = touched \ {command.id}
      /\ UNCHANGED <<order, chosen>>
  BY DEF RemovalEnds
<1>2. command.is = "remove" /\ chosen = {}
  BY <1>1 DEF TabInv, CommandInv
<1> DEFINE id == command.id
<1>3. /\ config' \in TabLists /\ lastSave' = lastSave + 1
      /\ ~ overwritten' =>
            /\ ~ overwritten /\ ToSet(config') = wanted'
            /\ ToSet(config') = ToSet(config) \ {id}
            /\ \A s, t \in ToSet(config') \ {id} : Before(config', s, t) <=> Before(config, s, t)
  BY <1>1, <1>2, OperationMakes
<1> HIDE DEF id
<1>4. /\ shown' \in Seq(Integrations) /\ ToSet(shown') = ToSet(shown) \ {id}
      /\ \A s, t \in ToSet(shown) \ {id} : Before(shown', s, t) <=> Before(shown, s, t)
  BY <1>1, WithoutFacts DEF TabInv, id
<1>5. ASSUME ~ overwritten' PROVE ConfigInv'
  <2>1. /\ ToSet(config) \ touched = ToSet(shown) \ touched
        /\ \A s, t \in ToSet(config) \ touched : Before(config, s, t) <=> Before(shown, s, t)
    BY <1>3, <1>5 DEF TabInv, ConfigInv, Agree
  <2>2. touched' = touched \ {id} /\ chosen' = {}
    BY <1>1, <1>2 DEF id
  <2>3. ToSet(config') \ touched' = ToSet(shown') \ touched'
    BY <1>3, <1>4, <1>5, <2>1, <2>2
  <2>4. ASSUME NEW s \in ToSet(config') \ touched', NEW t \in ToSet(config') \ touched'
        PROVE  Before(config', s, t) <=> Before(shown', s, t)
    <3>1. s # id /\ t # id /\ s \in ToSet(config) \ touched /\ t \in ToSet(config) \ touched
      BY <1>3, <1>5, <2>2, <2>4
    <3>2. s \in ToSet(shown) \ {id} /\ t \in ToSet(shown) \ {id}
      BY <2>1, <3>1
    <3> QED
      BY <1>3, <1>4, <1>5, <2>1, <3>1, <3>2
  <2> QED
    BY <1>3, <1>5, <2>2, <2>3, <2>4 DEF ConfigInv, Agree
<1> QED
  BY <1>1, <1>2, <1>3, <1>4, <1>5 DEF TabInv, CommandInv

\* Every step of the tabs keeps the invariant.
LEMMA TabStep == TabInv /\ [TabOrderNext]_tabVars => TabInv'
<1> SUFFICES ASSUME TabInv, [TabOrderNext]_tabVars PROVE TabInv'
  OBVIOUS
<1>1. ASSUME NEW operation \in {"connect", "remove"}, NEW by \in {"command", "menu"},
             NEW id \in Integrations, Begins(operation, by, id),
             operation = "connect" => by = "command", by = "menu" => chosen = {}
      PROVE  TabInv'
  <2>1. command' = [is |-> operation, by |-> by, id |-> id, loaded |-> config, at |-> lastSave]
    BY <1>1 DEF Begins
  <2>2. UNCHANGED <<config, shown, order, moved, chosen, wanted, touched, lastSave, overwritten>>
    BY <1>1 DEF Begins, barVars
  <2> QED
    BY <1>1, <2>1, <2>2 DEF TabInv, CommandInv, ConfigInv
<1>2. CASE ConnectCommand
  BY <1>1, <1>2 DEF ConnectCommand
<1>3. CASE RemoveCommand \/ RemoveInMenu
  <2>1. \A id \in ToSet(config) : id \in Integrations
    BY DEF TabInv, TabLists, ToSet
  <2> QED
    BY <1>1, <1>3, <2>1 DEF RemoveCommand, RemoveInMenu, MenuIsFree
<1>4. CASE CommandEnds \/ RemovalFails
  BY <1>4, BesideTheScreen
<1>4a. CASE RemovalEnds
  BY <1>4a, OnTheScreen
<1>5. CASE GivesUp
  BY <1>5 DEF GivesUp, barVars, TabInv, CommandInv, ConfigInv
<1>5a. CASE ChooseInMenu
  <2>1. PICK id \in Integrations \ ToSet(config) : chosen' = {id}
    BY <1>5a DEF ChooseInMenu
  <2> QED
    BY <1>5a, <2>1 DEF ChooseInMenu, MenuIsFree, TabInv, CommandInv, ConfigInv
<1>5b. CASE CancelInMenu
  BY <1>5b DEF CancelInMenu, TabInv, CommandInv, ConfigInv
<1>6. CASE AddInMenu
  <2>1. PICK id \in chosen :
            /\ Save(AddTab(config, id), lastSave)
            /\ shown' = Append(shown, id) /\ wanted' = wanted \cup {id} /\ chosen' = {}
    BY <1>6 DEF AddInMenu
  <2>2. UNCHANGED <<order, moved, command, touched>>
    BY <1>6 DEF AddInMenu
  <2>3. /\ config \in TabLists /\ config \in Seq(Integrations) /\ shown \in Seq(Integrations)
        /\ lastSave \in Nat /\ id \in Integrations
    BY <2>1 DEF TabInv, TabLists
  <2>4. config' = AddTab(config, id) /\ lastSave' = lastSave + 1
        /\ (~ overwritten' => ~ overwritten)
    BY <2>1, <2>3 DEF Save
  <2>5. /\ config' \in TabLists /\ ToSet(config') = ToSet(config) \cup {id}
        /\ id \in ToSet(config) => config' = config
        /\ \A s, t : Before(config', s, t) <=>
              Before(config, s, t) \/ (s \in ToSet(config) /\ t = id /\ id \notin ToSet(config))
    BY <2>3, <2>4, AddTabFacts
  <2>6. /\ shown' \in Seq(Integrations) /\ ToSet(shown') = ToSet(shown) \cup {id}
        /\ \A s, t : Before(shown', s, t) <=> Before(shown, s, t) \/ (s \in ToSet(shown) /\ t = id)
    BY <2>1, <2>3, AppendFacts
  <2>7. ASSUME ~ overwritten PROVE ToSet(config') = wanted' /\ Agree(config', shown', touched)
    <3>1. /\ ToSet(config) \ touched = ToSet(shown) \ touched
          /\ \A s, t \in ToSet(config) \ touched : Before(config, s, t) <=> Before(shown, s, t)
          /\ chosen \cap ToSet(config) \subseteq touched /\ ToSet(config) = wanted
      BY <2>7 DEF TabInv, ConfigInv, Agree
    <3>2. ToSet(config') \ touched = ToSet(shown') \ touched
      BY <2>5, <2>6, <3>1
    <3>3. ASSUME NEW s \in ToSet(config') \ touched, NEW t \in ToSet(config') \ touched
          PROVE  Before(config', s, t) <=> Before(shown', s, t)
      <4>1. CASE id \in touched
        <5>1. s # id /\ t # id
          BY <3>3, <4>1
        <5> QED
          BY <2>5, <2>6, <3>1, <3>3, <5>1
      <4>2. CASE id \notin touched
        <5>1. id \notin ToSet(config) /\ id \notin ToSet(shown)
          BY <2>1, <3>1, <4>2
        <5>2. \A x : ~ Before(config, id, x) /\ ~ Before(shown, id, x)
                     /\ ~ Before(config, x, id) /\ ~ Before(shown, x, id)
          BY <2>3, <5>1, ListFacts
        <5> QED
          BY <2>5, <2>6, <3>1, <3>3, <5>1, <5>2
      <4> QED
        BY <4>1, <4>2
    <3> QED
      BY <2>1, <2>5, <3>1, <3>2, <3>3 DEF Agree
  <2>8. CommandInv'
    BY <2>1, <2>2, <2>3, <2>4 DEF CommandInv, TabInv
  <2> QED
    BY <2>1, <2>2, <2>3, <2>4, <2>5, <2>6, <2>7, <2>8 DEF TabInv, ConfigInv
<1>7. CASE OpenReorder
  BY <1>7 DEF OpenReorder, TabInv, CommandInv, ConfigInv
<1>8. ASSUME NEW offset \in {-1, 1}, MoveTab(offset) PROVE TabInv'
  <2>1. PICK i, j \in DOMAIN order : order' = [order EXCEPT ![i] = order[j], ![j] = order[i]]
    BY <1>8 DEF MoveTab
  <2>2. order' \in TabLists
    BY <2>1, MoveKeepsTheTabs DEF TabInv
  <2> QED
    BY <1>8, <2>2 DEF MoveTab, TabInv, CommandInv, ConfigInv
<1>9. CASE SaveOrder
  <2>1. /\ config' = Reordered(config, order) /\ shown' = Reordered(shown, order)
        /\ lastSave' = lastSave + 1 /\ overwritten' = (overwritten \/ lastSave # lastSave)
        /\ order' = <<>> /\ UNCHANGED <<chosen, command, wanted, touched>>
    BY <1>9 DEF SaveOrder, Save
  <2>2. /\ config \in TabLists /\ shown \in Seq(Integrations) /\ order \in TabLists
        /\ config \in Seq(Integrations) /\ IsInjective(config) /\ lastSave \in Nat
    BY DEF TabInv, TabLists
  <2>3. /\ config' \in Seq(Integrations) /\ IsInjective(config')
        /\ shown' \in Seq(Integrations) /\ ToSet(config') = ToSet(config)
    BY <2>1, <2>2, ReorderedFacts
  <2>4. ~ overwritten' => ConfigInv'
    BY <2>1, <2>2, <2>3, AgreeAfterBoth DEF TabInv, ConfigInv
  <2>5. CommandInv'
    BY <2>1, <2>2 DEF CommandInv, TabInv
  <2>6. <<>> \in TabLists /\ config' \in TabLists
    BY <2>3 DEF TabLists, IsInjective
  <2> QED
    BY <2>1, <2>2, <2>3, <2>4, <2>5, <2>6 DEF TabInv
<1>10. CASE LeaveReorder
  <2>1. <<>> \in TabLists
    BY DEF TabLists, IsInjective
  <2> QED
    BY <1>10, <2>1 DEF LeaveReorder, TabInv, CommandInv, ConfigInv
<1>11. CASE UNCHANGED tabVars
  BY <1>11 DEF tabVars, barVars, TabInv, CommandInv, ConfigInv
<1> QED
  BY <1>2, <1>3, <1>4, <1>4a, <1>5, <1>5a, <1>5b, <1>6, <1>7, <1>8, <1>9, <1>10, <1>11
     DEF TabOrderNext

\* Unless one save was made from what had been loaded before another, the config has the
\* tabs that were added and not removed, and the screen shows them once and in the order of
\* the config, but for those that were changed in the config alone: for any number of tabs,
\* commands, moves and whatever the reorder screen had read when it was opened.
THEOREM TabsStay == TabOrderInit /\ [][TabOrderNext]_tabVars => []TabsAreKept
<1>1. TabInv => TabsAreKept
  <2> SUFFICES ASSUME TabInv PROVE TabsAreKept
    OBVIOUS
  <2>1. /\ config \in Seq(Integrations) /\ IsInjective(config) /\ shown \in Seq(Integrations)
        /\ \A t : ~ Before(config, t, t)
    BY ListFacts DEF TabInv, TabLists
  <2>2. ASSUME ~ overwritten, NEW s \in ToSet(config) \ touched, NEW t \in ToSet(config) \ touched
        PROVE  Index(config, s) < Index(config, t) <=> Index(shown, s) < Index(shown, t)
    <3>1. /\ s \in ToSet(shown) /\ t \in ToSet(shown)
          /\ Before(config, s, t) <=> Before(shown, s, t)
          /\ ~ Before(shown, s, s) /\ ~ Before(shown, t, t)
      BY <2>1, <2>2 DEF TabInv, ConfigInv, Agree
    <3> QED
      BY <2>1, <3>1, IndexIsPlace
  <2>3. ASSUME ~ overwritten, NEW i \in DOMAIN shown, NEW j \in DOMAIN shown,
               shown[i] = shown[j], shown[i] \notin touched
        PROVE  i = j
    <3>1. /\ shown[i] \in ToSet(config) \ touched
          /\ ~ Before(shown, shown[i], shown[i])
      BY <2>1, <2>3 DEF TabInv, ConfigInv, Agree, ToSet
    <3>2. DOMAIN shown = 1 .. Len(shown) /\ Len(shown) \in Nat
      BY <2>1
    <3> QED
      BY <2>3, <3>1, <3>2 DEF Before
  <2>4. ~ overwritten => ToSet(config) = wanted /\ ToSet(config) \ touched = ToSet(shown) \ touched
    BY DEF TabInv, ConfigInv, Agree
  <2> QED
    BY <2>1, <2>2, <2>3, <2>4 DEF TabsAreKept, ScreenAgrees
<1> QED
  BY <1>1, TabInit, TabStep, PTL

-----------------------------------------------------------------------------
(* The tree of a project's issues *)

\* The parents above an issue, from one walk up to the next.
WalkNext(p, before) == before \cup {p[j] : j \in before \cap Ids}

WalksUpTo(p, i, m) ==
    \E f \in [0 .. m -> SUBSET (Ids \cup {Outside})] :
        f[0] = {p[i]} /\ \A n \in 1 .. m : f[n] = WalkNext(p, f[n - 1])

Parents == [Ids -> Ids \cup {Outside}]

\* The recursion of Above has a function that satisfies it, up to any number of steps.
LEMMA WalkSteps ==
    ASSUME NEW p \in Parents, NEW i \in Ids, NEW N \in Nat
    PROVE  WalksUpTo(p, i, N)
<1> DEFINE T == {m \in 0 .. N : ~ WalksUpTo(p, i, m)}
<1> SUFFICES ASSUME T # {} PROVE FALSE
  OBVIOUS
<1>1. T \in SUBSET Nat
  OBVIOUS
<1>2. PICK m \in T : \A y \in T : m <= y
  BY <1>1, LeastOfNats
<1>3. WalksUpTo(p, i, 0)
  <2> DEFINE f == [n \in 0 .. 0 |-> {p[i]}]
  <2>1. f \in [0 .. 0 -> SUBSET (Ids \cup {Outside})] /\ f[0] = {p[i]}
    BY DEF Parents
  <2>2. 1 .. 0 = {}
    OBVIOUS
  <2> HIDE DEF f
  <2> QED
    BY <2>1, <2>2, Zenon DEF WalksUpTo
<1>4. m \in 1 .. N /\ m - 1 \in 0 .. N /\ m - 1 < m
  BY <1>2, <1>3
<1>5. WalksUpTo(p, i, m - 1)
  BY <1>2, <1>4
<1>6. PICK f \in [0 .. m - 1 -> SUBSET (Ids \cup {Outside})] :
          f[0] = {p[i]} /\ \A n \in 1 .. m - 1 : f[n] = WalkNext(p, f[n - 1])
  BY <1>5 DEF WalksUpTo
<1>7. WalkNext(p, f[m - 1]) \in SUBSET (Ids \cup {Outside})
  <2>1. f[m - 1] \in SUBSET (Ids \cup {Outside})
    BY <1>4, <1>6
  <2> QED
    BY <2>1 DEF WalkNext, Parents
<1> DEFINE g == [n \in 0 .. m |-> IF n = m THEN WalkNext(p, f[m - 1]) ELSE f[n]]
<1>8. g \in [0 .. m -> SUBSET (Ids \cup {Outside})] /\ g[0] = {p[i]}
  BY <1>4, <1>6, <1>7
<1>9. \A n \in 1 .. m : g[n] = WalkNext(p, g[n - 1])
  BY <1>4, <1>6
<1>10. WalksUpTo(p, i, m)
  BY <1>8, <1>9 DEF WalksUpTo
<1> QED
  BY <1>2, <1>10

\* Above, of any parents.
Up(p, i) ==
    LET f[n \in 0 .. Cardinality(Ids)] ==
            IF n = 0 THEN {p[i]} ELSE f[n - 1] \cup {p[j] : j \in f[n - 1] \cap Ids}
    IN f[Cardinality(Ids)] \cap Ids

WalkedBy(p, i, f) ==
    /\ f \in [0 .. Cardinality(Ids) -> SUBSET (Ids \cup {Outside})] /\ f[0] = {p[i]}
    /\ \A n \in 1 .. Cardinality(Ids) : f[n] = WalkNext(p, f[n - 1])
    /\ Up(p, i) = f[Cardinality(Ids)] \cap Ids

\* So Above is its last value.
LEMMA UpIs ==
    ASSUME NEW p \in Parents, NEW i \in Ids
    PROVE  \E f : WalkedBy(p, i, f)
<1> DEFINE N == Cardinality(Ids)
           Is(g) == g = [n \in 0 .. N |-> IF n = 0 THEN {p[i]}
                                          ELSE g[n - 1] \cup {p[j] : j \in g[n - 1] \cap Ids}]
           walk == CHOOSE g : Is(g)
<1>0. N \in Nat
  BY IssueTreeAssumption, FS_CardinalityType
<1>1. PICK f \in [0 .. N -> SUBSET (Ids \cup {Outside})] :
          f[0] = {p[i]} /\ \A n \in 1 .. N : f[n] = WalkNext(p, f[n - 1])
  <2>1. WalksUpTo(p, i, N)
    BY <1>0, WalkSteps
  <2> HIDE DEF N
  <2> QED
    BY <2>1, Zenon DEF WalksUpTo
<1>2. Is(f)
  <2>1. f = [n \in 0 .. N |-> f[n]]
    OBVIOUS
  <2>2. ASSUME NEW n \in 0 .. N
        PROVE  f[n] = IF n = 0 THEN {p[i]} ELSE f[n - 1] \cup {p[j] : j \in f[n - 1] \cap Ids}
    <3>1. CASE n = 0
      BY <1>1, <3>1
    <3>2. CASE n # 0
      <4>1. n \in 1 .. N
        BY <1>0, <3>2
      <4> QED
        BY <1>1, <3>2, <4>1 DEF WalkNext
    <3> QED
      BY <3>1, <3>2
  <2> QED
    BY <2>1, <2>2
<1>3. Is(walk)
  BY <1>2, Zenon
<1>4. Up(p, i) = walk[N] \cap Ids
  BY DEF Up
<1> HIDE DEF walk, N
<1>5. walk[0] = {p[i]}
  BY <1>0, <1>3
<1>6. ASSUME NEW n \in 1 .. N PROVE walk[n] = WalkNext(p, walk[n - 1])
  <2>1. n \in 0 .. N /\ n # 0
    BY <1>0
  <2> QED
    BY <1>3, <2>1 DEF WalkNext
<1> DEFINE T == {n \in 0 .. N : walk[n] # f[n]}
<1>7. T = {}
  <2> SUFFICES ASSUME T # {} PROVE FALSE
    OBVIOUS
  <2>1. T \in SUBSET Nat
    BY <1>0
  <2>2. PICK m \in T : \A y \in T : m <= y
    BY <2>1, LeastOfNats
  <2>3. m \in 1 .. N /\ m - 1 \in 0 .. N /\ m - 1 < m
    <3>1. m # 0
      BY <1>1, <1>5, <2>2
    <3> QED
      BY <1>0, <2>2, <3>1
  <2>4. m - 1 \notin T
    BY <2>2, <2>3
  <2>5. walk[m - 1] = f[m - 1]
    BY <2>3, <2>4
  <2> QED
    BY <1>1, <1>6, <2>2, <2>3, <2>5
<1>8. walk[N] = f[N]
  BY <1>0, <1>7
<1>9. WalkedBy(p, i, f)
  BY <1>1, <1>4, <1>8 DEF WalkedBy, N
<1> QED
  BY <1>9

\* What Above is: the parent and all the parents of these, and nothing else.  The walk
\* comes to no new one after Cardinality(Ids) steps.
LEMMA UpFacts ==
    ASSUME NEW p \in Parents, NEW i \in Ids
    PROVE  /\ Up(p, i) \in SUBSET Ids
           /\ p[i] \in Ids => p[i] \in Up(p, i)
           /\ \A j \in Up(p, i) : p[j] \in Ids => p[j] \in Up(p, i)
           /\ \A S : /\ p[i] \in Ids => p[i] \in S
                     /\ \A j \in S \cap Ids : p[j] \in Ids => p[j] \in S
                     => Up(p, i) \subseteq S
<1> DEFINE N == Cardinality(Ids)
           X == Ids \cup {Outside}
<1>0. N \in Nat /\ IsFiniteSet(Ids)
  BY IssueTreeAssumption, FS_CardinalityType
<1>1. PICK f : WalkedBy(p, i, f)
  BY UpIs
<1>2. /\ f \in [0 .. N -> SUBSET X] /\ f[0] = {p[i]}
      /\ \A n \in 1 .. N : f[n] = WalkNext(p, f[n - 1])
      /\ Up(p, i) = f[N] \cap Ids
  BY <1>1 DEF WalkedBy
<1>3. IsFiniteSet(X) /\ Cardinality(X) <= N + 1 /\ Cardinality(X) \in Nat
  <2>1. /\ IsFiniteSet(X)
        /\ Cardinality(X) = IF Outside \in Ids THEN N ELSE N + 1
    BY <1>0, FS_AddElement
  <2> QED
    BY <1>0, <2>1
<1> HIDE DEF N, X
<1>4. \A n \in 1 .. N : n - 1 \in 0 .. N /\ f[n - 1] \subseteq f[n]
  BY <1>0, <1>2 DEF WalkNext
<1>5. ASSUME NEW n \in 0 .. N
      PROVE  WalkNext(p, f[n]) = f[n] \/ Cardinality(f[n]) >= n + 1
  <2> DEFINE T == {m \in 0 .. N : WalkNext(p, f[m]) # f[m] /\ ~ (Cardinality(f[m]) >= m + 1)}
  <2> SUFFICES ASSUME T # {} PROVE FALSE
    OBVIOUS
  <2>1. T \in SUBSET Nat
    BY <1>0
  <2>2. PICK m \in T : \A y \in T : m <= y
    BY <2>1, LeastOfNats
  <2>3. m # 0
    <3>1. Cardinality(f[0]) = 1
      BY <1>2, FS_Singleton
    <3> QED
      BY <2>2, <3>1
  <2>4. m \in 1 .. N /\ m - 1 \in 0 .. N /\ m - 1 < m /\ (m - 1) + 1 = m
    BY <1>0, <2>2, <2>3
  <2>5. m - 1 \notin T
    BY <2>2, <2>4
  <2>6. f[m] = WalkNext(p, f[m - 1])
    BY <1>2, <2>4
  <2>7. WalkNext(p, f[m]) # f[m] /\ ~ (Cardinality(f[m]) >= m + 1)
    BY <2>2
  <2>8. f[m - 1] # f[m]
    BY <2>6, <2>7
  <2>9. Cardinality(f[m - 1]) >= m
    <3>1. WalkNext(p, f[m - 1]) # f[m - 1]
      BY <2>6, <2>8
    <3> QED
      BY <2>4, <2>5, <3>1
  <2>10. /\ f[m] \in SUBSET X /\ f[m - 1] \in SUBSET f[m]
         /\ IsFiniteSet(f[m]) /\ Cardinality(f[m]) \in Nat
    <3>1. f[m] \in SUBSET X /\ f[m - 1] \in SUBSET f[m]
      BY <1>2, <1>4, <2>2, <2>4
    <3>2. IsFiniteSet(f[m])
      BY <1>3, <3>1, FS_Subset
    <3> QED
      BY <3>1, <3>2, FS_CardinalityType
  <2>11. /\ Cardinality(f[m - 1]) <= Cardinality(f[m]) /\ IsFiniteSet(f[m - 1])
         /\ Cardinality(f[m]) = Cardinality(f[m - 1]) => f[m] = f[m - 1]
    BY <2>10, FS_Subset
  <2>12. Cardinality(f[m - 1]) \in Nat
    BY <2>11, FS_CardinalityType
  <2>13. m \in Nat
    BY <2>4
  <2> QED
    BY ONLY <2>7, <2>8, <2>9, <2>10, <2>11, <2>12, <2>13
<1>6. f[N] \in SUBSET X /\ N \in 0 .. N
  BY <1>0, <1>2
<1>7. \A j \in f[N] \cap Ids : p[j] \in f[N]
  <2>1. CASE WalkNext(p, f[N]) = f[N]
    BY <2>1 DEF WalkNext
  <2>2. CASE WalkNext(p, f[N]) # f[N]
    <3>1. Cardinality(f[N]) >= N + 1
      BY <1>5, <1>6, <2>2
    <3>2. /\ IsFiniteSet(f[N]) /\ Cardinality(f[N]) <= Cardinality(X)
          /\ Cardinality(X) = Cardinality(f[N]) => X = f[N]
      BY <1>3, <1>6, FS_Subset
    <3>3. Cardinality(f[N]) \in Nat
      BY <3>2, FS_CardinalityType
    <3>4. X = f[N]
      BY <1>0, <1>3, <3>1, <3>2, <3>3
    <3> QED
      BY <3>4 DEF Parents, X
  <2> QED
    BY <2>1, <2>2
<1>8. p[i] \in f[N]
  <2> DEFINE T == {n \in 0 .. N : p[i] \notin f[n]}
  <2> SUFFICES ASSUME T # {} PROVE FALSE
    BY <1>6
  <2>1. T \in SUBSET Nat
    BY <1>0
  <2>2. PICK m \in T : \A y \in T : m <= y
    BY <2>1, LeastOfNats
  <2>3. m \in 1 .. N /\ m - 1 \in 0 .. N /\ m - 1 < m
    BY <1>0, <1>2, <2>2
  <2>4. p[i] \in f[m - 1]
    BY <2>2, <2>3
  <2> QED
    BY <1>4, <2>2, <2>3, <2>4
<1>9. ASSUME NEW S, p[i] \in Ids => p[i] \in S, \A j \in S \cap Ids : p[j] \in Ids => p[j] \in S
      PROVE  Up(p, i) \subseteq S
  <2> DEFINE T == {n \in 0 .. N : ~ (f[n] \cap Ids \subseteq S)}
  <2>1. T = {}
    <3> SUFFICES ASSUME T # {} PROVE FALSE
      OBVIOUS
    <3>1. T \in SUBSET Nat
      BY <1>0
    <3>2. PICK m \in T : \A y \in T : m <= y
      BY <3>1, LeastOfNats
    <3>3. m # 0
      BY <1>2, <1>9, <3>2
    <3>4. m \in 1 .. N /\ m - 1 \in 0 .. N /\ m - 1 < m
      BY <1>0, <3>2, <3>3
    <3>5. f[m - 1] \cap Ids \subseteq S
      BY <3>2, <3>4
    <3>6. f[m] = f[m - 1] \cup {p[j] : j \in f[m - 1] \cap Ids}
      BY <1>2, <3>4 DEF WalkNext
    <3>7. f[m] \cap Ids \subseteq S
      BY <1>9, <3>5, <3>6
    <3> QED
      BY <3>2, <3>7
  <2> QED
    BY <1>2, <1>6, <2>1
<1> QED
  BY <1>2, <1>7, <1>8, <1>9

\* What the tree is to show, of any parents and any issues in flight.
InTree(p, flying, i) == i \in flying \/ Up(p, i) \cap flying # {}
Looped(p, flying, i) == \E j \in Up(p, i) \cup {i} : j \in Up(p, j) /\ (Up(p, j) \cap flying # {})
RootsOf(p, flying) == {i \in flying : ~ (Up(p, i) \cap flying # {})}

\* What is above a parent is above its child.
LEMMA UpOfChild ==
    ASSUME NEW p \in Parents, NEW i \in Ids, p[i] \in Ids
    PROVE  Up(p, i) = {p[i]} \cup Up(p, p[i])
<1>1. p[i] \in Up(p, i) /\ \A j \in Up(p, i) : p[j] \in Ids => p[j] \in Up(p, i)
  BY UpFacts
<1>2. Up(p, p[i]) \subseteq Up(p, i)
  BY <1>1, UpFacts
<1>3. Up(p, i) \subseteq {p[i]} \cup Up(p, p[i])
  <2> DEFINE S == {p[i]} \cup Up(p, p[i])
  <2>1. /\ p[p[i]] \in Ids => p[p[i]] \in Up(p, p[i])
        /\ \A j \in Up(p, p[i]) : p[j] \in Ids => p[j] \in Up(p, p[i])
    BY UpFacts
  <2>2. p[i] \in S /\ \A j \in S \cap Ids : p[j] \in Ids => p[j] \in S
    BY <2>1
  <2> HIDE DEF S
  <2>3. Up(p, i) \subseteq S
    BY ONLY <2>2, UpFacts, p \in Parents, i \in Ids
  <2> QED
    BY <2>3 DEF S
<1> QED
  BY <1>1, <1>2, <1>3

\* What is above an ancestor is above the issue.
LEMMA UpOfUp ==
    ASSUME NEW p \in Parents, NEW i \in Ids, NEW j \in Up(p, i)
    PROVE  j \in Ids /\ Up(p, j) \subseteq Up(p, i)
<1>1. j \in Ids /\ \A k \in Up(p, i) : p[k] \in Ids => p[k] \in Up(p, i)
  BY UpFacts
<1> QED
  BY <1>1, UpFacts

\* A root is not under a loop, and a child is not when its parent is not.
LEMMA RootIsClear ==
    ASSUME NEW p \in Parents, NEW flying \in SUBSET Ids, NEW i \in RootsOf(p, flying)
    PROVE  ~ Looped(p, flying, i)
<1>1. i \in Ids /\ Up(p, i) \cap flying = {}
  BY DEF RootsOf
<1> QED
  BY <1>1, UpOfUp DEF Looped

\* What is below an issue of the tree belongs to the tree, and is not a root.
LEMMA ChildIsClear ==
    ASSUME NEW p \in Parents, NEW flying \in SUBSET Ids, NEW i \in Ids, p[i] \in Ids,
           InTree(p, flying, p[i]), ~ Looped(p, flying, p[i])
    PROVE  InTree(p, flying, i) /\ ~ Looped(p, flying, i) /\ i \notin RootsOf(p, flying)
<1>1. Up(p, i) = {p[i]} \cup Up(p, p[i])
  BY UpOfChild
<1>2. Up(p, i) \cap flying # {}
  BY <1>1 DEF InTree
<1>3. ASSUME NEW j \in Up(p, i) \cup {i}, j \in Up(p, j), Up(p, j) \cap flying # {} PROVE FALSE
  <2>1. CASE j \in Up(p, i)
    BY <1>1, <1>3, <2>1 DEF Looped
  <2>2. CASE j = i
    BY <1>1, <1>3, <2>2 DEF Looped
  <2> QED
    BY <2>1, <2>2
<1> QED
  BY <1>2, <1>3 DEF InTree, Looped, RootsOf

\* What is in the tree and not under a loop is a root or below one.
LEMMA RootAbove ==
    ASSUME NEW p \in Parents, NEW flying \in SUBSET Ids, NEW i \in Ids,
           InTree(p, flying, i), ~ Looped(p, flying, i)
    PROVE  \E r \in RootsOf(p, flying) : r = i \/ r \in Up(p, i)
<1> DEFINE Line == (Up(p, i) \cup {i}) \cap flying
           Heights == {Cardinality(Up(p, j)) : j \in Line}
<1>0. IsFiniteSet(Ids) /\ \A j \in Ids : IsFiniteSet(Up(p, j)) /\ Cardinality(Up(p, j)) \in Nat
  <2>1. IsFiniteSet(Ids)
    BY IssueTreeAssumption
  <2>2. ASSUME NEW j \in Ids PROVE IsFiniteSet(Up(p, j)) /\ Cardinality(Up(p, j)) \in Nat
    <3>1. Up(p, j) \in SUBSET Ids
      BY UpFacts
    <3> QED
      BY <2>1, <3>1, FS_Subset, FS_CardinalityType
  <2> QED
    BY <2>1, <2>2
<1>1. Line # {} /\ Line \subseteq Ids
  BY DEF InTree
<1>2. Heights \in SUBSET Nat /\ Heights # {}
  BY <1>0, <1>1
<1>3. PICK h \in Heights : \A x \in Heights : h <= x
  BY <1>2, LeastOfNats
<1>4. PICK r \in Line : Cardinality(Up(p, r)) = h
  BY <1>3
<1>5. r \in Ids /\ r \in flying /\ r \in Up(p, i) \cup {i}
  BY <1>1, <1>4
<1>6. ASSUME NEW k \in Up(p, r) \cap flying PROVE FALSE
  <2>1. k \in Ids /\ Up(p, k) \subseteq Up(p, r)
    BY <1>5, UpOfUp
  <2>2. k \in Line
    BY <1>5, UpOfUp
  <2>3. k \notin Up(p, k)
    BY <2>2 DEF Looped
  <2>4. /\ Cardinality(Up(p, k)) <= Cardinality(Up(p, r))
        /\ Cardinality(Up(p, r)) = Cardinality(Up(p, k)) => Up(p, r) = Up(p, k)
    BY <1>0, <1>5, <2>1, FS_Subset
  <2>5. Cardinality(Up(p, k)) # Cardinality(Up(p, r))
    BY <2>3, <2>4
  <2>6. Cardinality(Up(p, r)) <= Cardinality(Up(p, k))
    BY <1>3, <1>4, <2>2
  <2>7. Cardinality(Up(p, k)) \in Nat /\ Cardinality(Up(p, r)) \in Nat
    BY <1>0, <1>5, <2>1
  <2> QED
    BY ONLY <2>4, <2>5, <2>6, <2>7
<1>7. r \in RootsOf(p, flying)
  BY <1>5, <1>6 DEF RootsOf
<1> QED
  BY <1>5, <1>7

\* Sorted names every issue once.
LEMMA SortedIssues ==
    ASSUME NEW S \in SUBSET Ids
    PROVE  /\ Sorted(S) \in Seq(S) /\ Len(Sorted(S)) \in Nat
           /\ DOMAIN Sorted(S) = 1 .. Len(Sorted(S))
           /\ \A i \in S : \E n \in 1 .. Len(Sorted(S)) : Sorted(S)[n] = i
           /\ \A m, n \in 1 .. Len(Sorted(S)) : Sorted(S)[m] = Sorted(S)[n] => m = n
<1> DEFINE list == SetToSeq(S)
           N == Cardinality(S)
<1>1. IsFiniteSet(S) /\ N \in Nat /\ ExistsBijection(1 .. N, S) /\ S \subseteq Int
  <2>1. IsFiniteSet(S)
    BY IssueTreeAssumption, FS_Subset
  <2> QED
    BY <2>1, FS_CardinalityType, IssueTreeAssumption
<1>2. \E f \in [1 .. N -> S] : IsInjective(f)
  BY <1>1 DEF ExistsBijection, Bijection, Injection
<1>3. list \in [1 .. N -> S] /\ IsInjective(list)
  <2> HIDE DEF N
  <2>1. list = CHOOSE f \in [1 .. N -> S] : IsInjective(f)
    BY DEF SetToSeq, N
  <2> QED
    BY <1>2, <2>1
<1>4. \A i \in S : \E n \in 1 .. N : list[n] = i
  <2>1. IsFiniteSet(1 .. N) /\ Cardinality(1 .. N) = N
    <3>1. /\ IsFiniteSet(1 .. N)
          /\ Cardinality(1 .. N) = IF 1 > N THEN 0 ELSE N - 1 + 1
      BY <1>1, FS_Interval
    <3> QED
      BY <1>1, <3>1
  <2>2. list \in Injection(1 .. N, S)
    BY <1>3 DEF Injection
  <2> HIDE DEF list
  <2>3. list \in Surjection(1 .. N, S)
    BY <1>1, <2>1, <2>2, FS_Injection
  <2> QED
    BY <2>3 DEF Surjection
<1> HIDE DEF list
<1>5. list \in Seq(S) /\ Len(list) = N
  BY <1>1, <1>3, SeqDef, LenProperties
<1>6. list \in [1 .. Len(list) -> Int]
  BY <1>1, <1>3, <1>5
<1>7. Sorted(S) = SortedBy(list, list)
  BY DEF Sorted, list
<1>8. Sorted(S) \in Seq(S)
  BY <1>5, <1>6, <1>7, SortedFacts
<1>9. PICK q : SortsBy(list, list, Sorted(S), q)
  BY <1>5, <1>6, <1>7, SortedFacts
<1> HIDE DEF N
<1>10. /\ Len(Sorted(S)) = N /\ q \in [1 .. N -> 1 .. N]
       /\ \A n \in 1 .. N : Sorted(S)[n] = list[q[n]]
       /\ \A i \in 1 .. N : \E n \in 1 .. N : q[n] = i
       /\ \A m, n \in 1 .. N : m < n => Earlier(list, q[m], q[n])
  BY <1>5, <1>9 DEF SortsBy
<1>11. \A i \in S : \E n \in 1 .. N : Sorted(S)[n] = i
  BY <1>4, <1>10
<1>12. ASSUME NEW m \in 1 .. N, NEW n \in 1 .. N, Sorted(S)[m] = Sorted(S)[n] PROVE m = n
  <2>1. q[m] \in 1 .. N /\ q[n] \in 1 .. N
    BY <1>10
  <2>2. list[q[m]] = list[q[n]] /\ DOMAIN list = 1 .. N
    BY <1>3, <1>10, <1>12
  <2>3. q[m] = q[n]
    BY <1>3, <2>1, <2>2 DEF IsInjective
  <2>4. list[q[m]] \in Int
    BY <1>1, <1>3, <2>1
  <2>5. ~ Earlier(list, q[m], q[n]) /\ ~ Earlier(list, q[n], q[m])
    BY <2>1, <2>3, <2>4 DEF Earlier
  <2>6. ~ (m < n) /\ ~ (n < m)
    BY <1>10, <2>5
  <2> QED
    BY <1>1, <2>6
<1> QED
  BY <1>1, <1>8, <1>10, <1>11, <1>12

\* The rows that are put down and those still to visit are lists of these.
TreeRows == [issue : Ids, depth : Nat]
Names(list, i) == \E n \in 1 .. Len(list) : list[n].issue = i
NamesOnce(list) == \A m, n \in 1 .. Len(list) : list[m].issue = list[n].issue => m = n

\* What a list names when a row is added to it, when its first is taken off, and when
\* another list is put before it.
LEMMA AppendNames ==
    ASSUME NEW list \in Seq(TreeRows), NEW row \in TreeRows
    PROVE  /\ Append(list, row) \in Seq(TreeRows)
           /\ \A i : Names(Append(list, row), i) <=> Names(list, i) \/ row.issue = i
           /\ NamesOnce(list) /\ ~ Names(list, row.issue) => NamesOnce(Append(list, row))
<1> DEFINE new == Append(list, row)
           N == Len(list)
<1>1. /\ N \in Nat /\ new \in Seq(TreeRows) /\ Len(new) = N + 1
      /\ new[N + 1] = row /\ \A n \in 1 .. N : new[n] = list[n]
  BY AppendProperties
<1> HIDE DEF new, N
<1>2. ASSUME NEW i PROVE Names(new, i) <=> Names(list, i) \/ row.issue = i
  <2>1. \A n \in 1 .. N + 1 : n = N + 1 \/ n \in 1 .. N
    BY <1>1
  <2>2. \A n \in 1 .. N : n \in 1 .. N + 1
    BY <1>1
  <2>3. N + 1 \in 1 .. N + 1
    BY <1>1
  <2> QED
    BY <1>1, <2>1, <2>2, <2>3 DEF Names, N
<1>3. ASSUME NamesOnce(list), ~ Names(list, row.issue) PROVE NamesOnce(new)
  <2> SUFFICES ASSUME NEW m \in 1 .. N + 1, NEW n \in 1 .. N + 1, new[m].issue = new[n].issue
               PROVE  m = n
    BY <1>1 DEF NamesOnce
  <2>1. CASE m \in 1 .. N /\ n \in 1 .. N
    BY <1>1, <1>3, <2>1 DEF NamesOnce, N
  <2>2. CASE m \in 1 .. N /\ n = N + 1
    BY <1>1, <1>3, <2>2 DEF Names, N
  <2>3. CASE n \in 1 .. N /\ m = N + 1
    BY <1>1, <1>3, <2>3 DEF Names, N
  <2> QED
    BY <1>1, <2>1, <2>2, <2>3
<1> QED
  BY <1>1, <1>2, <1>3 DEF new

\* A list names its first row and what the rest names.
LEMMA TailNames ==
    ASSUME NEW list \in Seq(TreeRows), list # <<>>
    PROVE  /\ Head(list) \in TreeRows /\ Tail(list) \in Seq(TreeRows)
           /\ Head(list) = list[1] /\ Len(list) \in Nat \ {0}
           /\ Len(Tail(list)) = Len(list) - 1
           /\ \A n \in 1 .. Len(Tail(list)) :
                 Tail(list)[n] = list[n + 1] /\ n + 1 \in 1 .. Len(list)
           /\ \A i : Names(list, i) <=> Head(list).issue = i \/ Names(Tail(list), i)
           /\ NamesOnce(list) => NamesOnce(Tail(list)) /\ ~ Names(Tail(list), Head(list).issue)
<1> DEFINE rest == Tail(list)
           N == Len(list)
<1>1. /\ Head(list) \in TreeRows /\ rest \in Seq(TreeRows) /\ Head(list) = list[1]
      /\ N \in Nat \ {0} /\ Len(rest) = N - 1
      /\ \A n \in 1 .. N - 1 : rest[n] = list[n + 1] /\ n + 1 \in 1 .. N
  BY HeadTailProperties, EmptySeq
<1> HIDE DEF rest, N
<1>2. 1 \in 1 .. N /\ \A n \in 1 .. N : n = 1 \/ (n - 1 \in 1 .. N - 1 /\ (n - 1) + 1 = n)
  BY <1>1
<1>3. ASSUME NEW i PROVE Names(list, i) <=> Head(list).issue = i \/ Names(rest, i)
  <2>1. ASSUME NEW n \in 1 .. N, list[n].issue = i PROVE Head(list).issue = i \/ Names(rest, i)
    <3>1. CASE n = 1
      BY <1>1, <2>1, <3>1
    <3>2. CASE n # 1
      <4>1. n - 1 \in 1 .. N - 1 /\ (n - 1) + 1 = n
        BY <1>2, <3>2
      <4>2. rest[n - 1].issue = i
        BY <1>1, <2>1, <4>1
      <4> QED
        BY <1>1, <4>1, <4>2 DEF Names
    <3> QED
      BY <3>1, <3>2
  <2>2. ASSUME Names(rest, i) PROVE Names(list, i)
    <3>1. PICK n \in 1 .. N - 1 : rest[n].issue = i
      BY <1>1, <2>2 DEF Names
    <3>2. n + 1 \in 1 .. N /\ list[n + 1].issue = i
      BY <1>1, <3>1
    <3> QED
      BY <3>2 DEF Names, N
  <2>3. Head(list).issue = i => Names(list, i)
    BY <1>1, <1>2 DEF Names, N
  <2> QED
    BY <2>1, <2>2, <2>3 DEF Names, N
<1>4. ASSUME NamesOnce(list) PROVE NamesOnce(rest) /\ ~ Names(rest, Head(list).issue)
  <2>1. ASSUME NEW m \in 1 .. N - 1, NEW n \in 1 .. N - 1, rest[m].issue = rest[n].issue PROVE m = n
    <3>1. m + 1 = n + 1
      BY <1>1, <1>4, <2>1 DEF NamesOnce, N
    <3> QED
      BY <1>1, <3>1
  <2>2. ASSUME NEW n \in 1 .. N - 1, rest[n].issue = Head(list).issue PROVE FALSE
    <3>1. n + 1 = 1
      BY <1>1, <1>2, <1>4, <2>2 DEF NamesOnce, N
    <3> QED
      BY <1>1, <3>1
  <2> QED
    BY <1>1, <2>1, <2>2 DEF NamesOnce, Names
<1> QED
  BY <1>1, <1>3, <1>4 DEF rest, N

\* Two lists, one after the other, name what either names.
LEMMA ConcatNames ==
    ASSUME NEW one \in Seq(TreeRows), NEW two \in Seq(TreeRows)
    PROVE  /\ one \o two \in Seq(TreeRows) /\ Len(one \o two) = Len(one) + Len(two)
           /\ \A n \in 1 .. Len(one \o two) :
                 \/ n \in 1 .. Len(one) /\ (one \o two)[n] = one[n]
                 \/ n > Len(one) /\ n - Len(one) \in 1 .. Len(two)
                    /\ (one \o two)[n] = two[n - Len(one)]
           /\ \A i : Names(one \o two, i) <=> Names(one, i) \/ Names(two, i)
           /\ NamesOnce(one) /\ NamesOnce(two) /\ (\A i : ~ (Names(one, i) /\ Names(two, i)))
                => NamesOnce(one \o two)
<1> DEFINE both == one \o two
           m == Len(one)
           n == Len(two)
<1>1. /\ both \in Seq(TreeRows) /\ Len(both) = m + n /\ m \in Nat /\ n \in Nat
      /\ \A i \in 1 .. m + n : both[i] = IF i <= m THEN one[i] ELSE two[i - m]
  BY ConcatProperties
<1> HIDE DEF both, m, n
<1>2. ASSUME NEW i \in 1 .. m PROVE i \in 1 .. m + n /\ both[i] = one[i]
  <2>1. i \in 1 .. m + n /\ i <= m
    BY <1>1
  <2> QED
    BY <1>1, <2>1
<1>3. ASSUME NEW i \in 1 .. n PROVE i + m \in 1 .. m + n /\ both[i + m] = two[i]
  <2>1. i + m \in 1 .. m + n /\ ~ (i + m <= m) /\ (i + m) - m = i
    BY <1>1
  <2> QED
    BY <1>1, <2>1
<1>4. \A i \in 1 .. m + n : \/ i \in 1 .. m /\ both[i] = one[i]
                            \/ i > m /\ i - m \in 1 .. n /\ both[i] = two[i - m]
  BY <1>1
<1>5. ASSUME NEW i PROVE Names(both, i) <=> Names(one, i) \/ Names(two, i)
  <2>1. ASSUME NEW a \in 1 .. m + n, both[a].issue = i PROVE Names(one, i) \/ Names(two, i)
    BY <1>4, <2>1 DEF Names, m, n
  <2>2. ASSUME NEW a \in 1 .. m, one[a].issue = i PROVE Names(both, i)
    <3>1. a \in 1 .. m + n /\ both[a].issue = i
      BY <1>2, <2>2
    <3> QED
      BY <1>1, <3>1 DEF Names
  <2>3. ASSUME NEW a \in 1 .. n, two[a].issue = i PROVE Names(both, i)
    <3>1. a + m \in 1 .. m + n /\ both[a + m].issue = i
      BY <1>3, <2>3
    <3> QED
      BY <1>1, <3>1 DEF Names
  <2> QED
    BY <1>1, <2>1, <2>2, <2>3 DEF Names, m, n
<1>6. ASSUME NamesOnce(one), NamesOnce(two), \A i : ~ (Names(one, i) /\ Names(two, i)),
             NEW a \in 1 .. m + n, NEW b \in 1 .. m + n, both[a].issue = both[b].issue
      PROVE  a = b
  <2>1. CASE a \in 1 .. m /\ b \in 1 .. m
    BY <1>2, <1>6, <2>1 DEF NamesOnce, m
  <2>2. CASE a \notin 1 .. m /\ b \notin 1 .. m
    <3>1. a - m = b - m
      BY <1>4, <1>6, <2>2 DEF NamesOnce, n
    <3> QED
      BY <1>1, <3>1
  <2>3. CASE a \in 1 .. m /\ b \notin 1 .. m
    <3>1. one[a].issue = both[a].issue /\ b - m \in 1 .. n /\ two[b - m].issue = both[b].issue
      BY <1>2, <1>4, <2>3
    <3>2. Names(one, both[a].issue) /\ Names(two, both[a].issue)
      BY <1>6, <2>3, <3>1 DEF Names, m, n
    <3> QED
      BY <1>6, <3>2
  <2>4. CASE a \notin 1 .. m /\ b \in 1 .. m
    <3>1. one[b].issue = both[b].issue /\ a - m \in 1 .. n /\ two[a - m].issue = both[a].issue
      BY <1>2, <1>4, <2>4
    <3>2. Names(one, both[b].issue) /\ Names(two, both[b].issue)
      BY <1>6, <2>4, <3>1 DEF Names, m, n
    <3> QED
      BY <1>6, <3>2
  <2> QED
    BY <2>1, <2>2, <2>3, <2>4
<1> QED
  BY <1>1, <1>4, <1>5, <1>6 DEF both, m, n, NamesOnce

\* The rows of what is right below an issue.
RowsBelow(p, i, depth) == RowsAt(Sorted({j \in Ids : p[j] = i}), depth)

\* They name each child once, at their depth.
LEMMA RowsBelowFacts ==
    ASSUME NEW p \in Parents, NEW i \in Ids, NEW depth \in Nat
    PROVE  /\ RowsBelow(p, i, depth) \in Seq(TreeRows) /\ NamesOnce(RowsBelow(p, i, depth))
           /\ \A j : Names(RowsBelow(p, i, depth), j) <=> j \in Ids /\ p[j] = i
           /\ \A n \in 1 .. Len(RowsBelow(p, i, depth)) : RowsBelow(p, i, depth)[n].depth = depth
<1> DEFINE S == {j \in Ids : p[j] = i}
           list == Sorted(S)
           below == RowsBelow(p, i, depth)
<1>0. S \in SUBSET Ids
  OBVIOUS
<1>1. /\ list \in Seq(S) /\ Len(list) \in Nat /\ DOMAIN list = 1 .. Len(list)
      /\ \A j \in S : \E n \in 1 .. Len(list) : list[n] = j
      /\ \A m, n \in 1 .. Len(list) : list[m] = list[n] => m = n
  BY <1>0, SortedIssues
<1>2. below = [n \in 1 .. Len(list) |-> Row(list[n], depth)]
  BY <1>1 DEF RowsBelow, RowsAt
<1>3. \A n \in 1 .. Len(list) : list[n] \in S
  BY <1>1, ElementOfSeq
<1> HIDE DEF S, list, below
<1>4. below \in [1 .. Len(list) -> TreeRows]
  BY <1>2, <1>3, <1>0 DEF Row, TreeRows
<1>5. below \in Seq(TreeRows) /\ Len(below) = Len(list)
  BY <1>1, <1>4, SeqDef, LenProperties
<1>6. \A n \in 1 .. Len(list) : below[n].issue = list[n] /\ below[n].depth = depth
  BY <1>2 DEF Row
<1>7. ASSUME NEW j PROVE Names(below, j) <=> j \in Ids /\ p[j] = i
  <2>1. Names(below, j) <=> j \in S
    BY <1>1, <1>3, <1>5, <1>6 DEF Names
  <2> QED
    BY <2>1 DEF S
<1>8. NamesOnce(below)
  BY <1>1, <1>5, <1>6 DEF NamesOnce
<1> QED
  BY <1>5, <1>6, <1>7, <1>8 DEF below

\* A list of different roots, a row of which none is on the list, and so on: what holds of
\* the tree while it is made, from the parents p and the issues in flight.  rs is what is
\* left of the roots, td what is still to visit, rw the rows.
TreeTypes(p, flying, rs, td, rw) ==
    /\ p \in Parents /\ flying \in SUBSET Ids
    /\ rs \in Seq(RootsOf(p, flying)) /\ td \in Seq(TreeRows) /\ rw \in Seq(TreeRows)

\* Nothing is put down or about to be put down twice.
TreeOnce(rs, td, rw) ==
    /\ NamesOnce(td) /\ NamesOnce(rw) /\ \A m, n \in 1 .. Len(rs) : rs[m] = rs[n] => m = n
    /\ \A i : ~ (Names(td, i) /\ Names(rw, i))
    /\ \A n \in 1 .. Len(rs) : ~ Names(td, rs[n]) /\ ~ Names(rw, rs[n])

\* All that is in the rows belongs there, and comes below a row or is a root.
TreeSound(p, flying, td, rw) ==
    \A i : Names(td, i) \/ Names(rw, i) =>
        /\ InTree(p, flying, i) /\ ~ Looped(p, flying, i)
        /\ i \in RootsOf(p, flying) \/ Names(rw, p[i])

\* No root is forgotten, and no issue below a row.
TreeComplete(p, flying, rs, td, rw) ==
    /\ \A i \in RootsOf(p, flying) :
          Names(td, i) \/ Names(rw, i) \/ \E n \in 1 .. Len(rs) : rs[n] = i
    /\ \A i \in Ids : Names(rw, p[i]) => Names(td, i) \/ Names(rw, i)

\* The row of the parent of `row', after which all are deeper than it.
HangsFrom(p, row, rw, last, m) ==
    /\ rw[m] = Row(p[row.issue], row.depth - 1)
    /\ \A k \in m + 1 .. last : rw[k].depth > rw[m].depth

\* What is to visit is visited from the deepest to the shallowest, so what hangs from the
\* row of its parent still does when it is its turn.
TreeHangs(p, td, rw) ==
    /\ \A m, n \in 1 .. Len(td) : m < n => td[m].depth >= td[n].depth
    /\ \A n \in 1 .. Len(td) : td[n].depth > 0 =>
          \E m \in 1 .. Len(rw) : HangsFrom(p, td[n], rw, Len(rw), m)
    /\ \A n \in 1 .. Len(rw) : rw[n].depth > 0 =>
          \E m \in 1 .. n - 1 : HangsFrom(p, rw[n], rw, n - 1, m)

TreeInv(p, flying, rs, td, rw) ==
    /\ TreeTypes(p, flying, rs, td, rw)
    /\ TreeOnce(rs, td, rw)
    /\ TreeSound(p, flying, td, rw)
    /\ TreeComplete(p, flying, rs, td, rw)
    /\ TreeHangs(p, td, rw)

\* The empty list names nothing.
LEMMA EmptyNames ==
    /\ <<>> \in Seq(TreeRows) /\ Len(<<>>) = 0 /\ 1 .. 0 = {}
    /\ NamesOnce(<<>>) /\ \A i : ~ Names(<<>>, i)
<1>1. <<>> \in Seq(TreeRows) /\ Len(<<>>) = 0 /\ 1 .. 0 = {}
  OBVIOUS
<1> QED
  BY <1>1 DEF NamesOnce, Names

\* Before the first row.
LEMMA TreeStarts ==
    ASSUME NEW p \in Parents, NEW flying \in SUBSET Ids
    PROVE  TreeInv(p, flying, Sorted(RootsOf(p, flying)), <<>>, <<>>)
<1> DEFINE rs == Sorted(RootsOf(p, flying))
<1>1. RootsOf(p, flying) \in SUBSET Ids
  BY DEF RootsOf
<1>2. /\ rs \in Seq(RootsOf(p, flying))
      /\ \A i \in RootsOf(p, flying) : \E n \in 1 .. Len(rs) : rs[n] = i
      /\ \A m, n \in 1 .. Len(rs) : rs[m] = rs[n] => m = n
  BY <1>1, SortedIssues
<1> HIDE DEF rs
<1>3. TreeTypes(p, flying, rs, <<>>, <<>>) /\ TreeOnce(rs, <<>>, <<>>)
  BY <1>2, EmptyNames DEF TreeTypes, TreeOnce
<1>4. TreeSound(p, flying, <<>>, <<>>) /\ TreeComplete(p, flying, rs, <<>>, <<>>)
  BY <1>2, EmptyNames DEF TreeSound, TreeComplete
<1>5. TreeHangs(p, <<>>, <<>>)
  BY EmptyNames DEF TreeHangs
<1> QED
  BY <1>3, <1>4, <1>5 DEF TreeInv, rs

\* The next root.
LEMMA TreeGoesOn ==
    ASSUME NEW p, NEW flying, NEW rs, NEW rw, TreeInv(p, flying, rs, <<>>, rw), rs # <<>>
    PROVE  TreeInv(p, flying, Tail(rs), <<Row(Head(rs), 0)>>, rw)
<1> DEFINE root == Head(rs)
           rest == Tail(rs)
           td == <<Row(root, 0)>>
<1>1. TreeTypes(p, flying, rs, <<>>, rw)
  BY DEF TreeInv
<1>2. p \in Parents /\ flying \in SUBSET Ids /\ rs \in Seq(RootsOf(p, flying))
      /\ rw \in Seq(TreeRows)
  BY <1>1 DEF TreeTypes
<1>3. TreeOnce(rs, <<>>, rw) /\ TreeSound(p, flying, <<>>, rw)
  BY DEF TreeInv
<1>4. TreeComplete(p, flying, rs, <<>>, rw) /\ TreeHangs(p, <<>>, rw)
  BY DEF TreeInv
<1>5. /\ root \in RootsOf(p, flying) /\ rest \in Seq(RootsOf(p, flying)) /\ root = rs[1]
      /\ Len(rs) \in Nat \ {0} /\ Len(rest) = Len(rs) - 1
      /\ \A n \in 1 .. Len(rest) : rest[n] = rs[n + 1]
  BY <1>2, HeadTailProperties, EmptySeq
<1>6. root \in Ids /\ root \in flying
  BY <1>2, <1>5 DEF RootsOf
<1>7. td \in Seq(TreeRows) /\ Len(td) = 1 /\ td[1] = Row(root, 0)
  BY <1>6 DEF Row, TreeRows
<1> HIDE DEF root, rest, td
<1>8. Row(root, 0).issue = root /\ Row(root, 0).depth = 0
  BY DEF Row
<1>9. (\A i : Names(td, i) <=> i = root) /\ NamesOnce(td)
  BY <1>7, <1>8 DEF Names, NamesOnce
<1>10. 1 \in 1 .. Len(rs) /\ \A n \in 1 .. Len(rest) : n + 1 \in 1 .. Len(rs) /\ n + 1 # 1
  BY <1>5
<1>11. TreeOnce(rest, td, rw)
  <2>1. ~ Names(rw, root) /\ NamesOnce(rw)
    BY <1>3, <1>5, <1>10 DEF TreeOnce
  <2>2. ASSUME NEW n \in 1 .. Len(rest) PROVE rest[n] # root /\ ~ Names(rw, rest[n])
    BY <1>3, <1>5, <1>10 DEF TreeOnce
  <2>3. ASSUME NEW m \in 1 .. Len(rest), NEW n \in 1 .. Len(rest), rest[m] = rest[n] PROVE m = n
    <3>1. m + 1 = n + 1
      BY <1>3, <1>5, <1>10, <2>3 DEF TreeOnce
    <3> QED
      BY <1>5, <3>1
  <2> QED
    BY <1>9, <2>1, <2>2, <2>3 DEF TreeOnce
<1>12. TreeSound(p, flying, td, rw)
  <2>1. InTree(p, flying, root) /\ ~ Looped(p, flying, root)
    BY <1>2, <1>5, <1>6, RootIsClear DEF InTree
  <2> QED
    BY <1>3, <1>5, <1>9, <2>1 DEF TreeSound
<1>13. TreeComplete(p, flying, rest, td, rw)
  <2>1. ASSUME NEW i \in RootsOf(p, flying)
        PROVE  Names(td, i) \/ Names(rw, i) \/ \E n \in 1 .. Len(rest) : rest[n] = i
    <3>1. CASE Names(rw, i)
      BY <3>1
    <3>2. CASE ~ Names(rw, i)
      <4>1. PICK n \in 1 .. Len(rs) : rs[n] = i
        BY <1>4, <3>2, EmptyNames DEF TreeComplete
      <4>2. CASE n = 1
        BY <1>5, <1>9, <4>1, <4>2
      <4>3. CASE n # 1
        <5>1. n - 1 \in 1 .. Len(rest) /\ (n - 1) + 1 = n
          BY <1>5, <4>3
        <5> QED
          BY <1>5, <4>1, <5>1
      <4> QED
        BY <4>2, <4>3
    <3> QED
      BY <3>1, <3>2
  <2>2. ASSUME NEW i \in Ids, Names(rw, p[i]) PROVE Names(rw, i)
    BY <1>4, <2>2, EmptyNames DEF TreeComplete
  <2> QED
    BY <2>1, <2>2 DEF TreeComplete
<1>14. TreeHangs(p, td, rw)
  <2>1. \A n \in 1 .. Len(rw) : rw[n].depth > 0 =>
          \E m \in 1 .. n - 1 : HangsFrom(p, rw[n], rw, n - 1, m)
    BY <1>4 DEF TreeHangs
  <2>2. \A n \in 1 .. Len(td) : n = 1 /\ td[n].depth = 0
    BY <1>7, <1>8
  <2> QED
    BY <2>1, <2>2 DEF TreeHangs
<1>15. TreeTypes(p, flying, rest, td, rw)
  BY <1>2, <1>5, <1>7 DEF TreeTypes
<1> QED
  BY <1>11, <1>12, <1>13, <1>14, <1>15 DEF TreeInv, root, rest, td

\* The next row.
LEMMA TreeGrows ==
    ASSUME NEW p, NEW flying, NEW rs, NEW td, NEW rw, TreeInv(p, flying, rs, td, rw), td # <<>>
    PROVE  TreeInv(p, flying, rs,
                   RowsBelow(p, Head(td).issue, Head(td).depth + 1) \o Tail(td),
                   Append(rw, Head(td)))
<1> DEFINE h == Head(td)
           kids == RowsBelow(p, h.issue, h.depth + 1)
           rest == Tail(td)
           next == kids \o rest
           new == Append(rw, h)
<1>1. TreeTypes(p, flying, rs, td, rw) /\ TreeOnce(rs, td, rw)
  BY DEF TreeInv
<1>2. /\ p \in Parents /\ flying \in SUBSET Ids /\ rs \in Seq(RootsOf(p, flying))
      /\ td \in Seq(TreeRows) /\ rw \in Seq(TreeRows)
  BY <1>1 DEF TreeTypes
<1>3. TreeSound(p, flying, td, rw) /\ TreeComplete(p, flying, rs, td, rw) /\ TreeHangs(p, td, rw)
  BY DEF TreeInv
<1>4. /\ h \in TreeRows /\ rest \in Seq(TreeRows) /\ h = td[1] /\ Len(td) \in Nat \ {0}
      /\ Len(rest) = Len(td) - 1
      /\ \A n \in 1 .. Len(rest) : rest[n] = td[n + 1] /\ n + 1 \in 1 .. Len(td)
      /\ \A i : Names(td, i) <=> h.issue = i \/ Names(rest, i)
      /\ NamesOnce(td) => NamesOnce(rest) /\ ~ Names(rest, h.issue)
  BY <1>2, TailNames
<1> HIDE DEF h
<1>5. h.issue \in Ids /\ h.depth \in Nat /\ h.depth + 1 \in Nat
  BY <1>4 DEF TreeRows
<1>6. /\ kids \in Seq(TreeRows) /\ NamesOnce(kids)
      /\ \A j : Names(kids, j) <=> j \in Ids /\ p[j] = h.issue
      /\ \A n \in 1 .. Len(kids) : kids[n].depth = h.depth + 1
  BY <1>2, <1>5, RowsBelowFacts
<1> HIDE DEF kids, rest
<1>7. /\ next \in Seq(TreeRows) /\ Len(next) = Len(kids) + Len(rest)
      /\ \A n \in 1 .. Len(next) :
            \/ n \in 1 .. Len(kids) /\ next[n] = kids[n]
            \/ n > Len(kids) /\ n - Len(kids) \in 1 .. Len(rest) /\ next[n] = rest[n - Len(kids)]
      /\ \A i : Names(next, i) <=> Names(kids, i) \/ Names(rest, i)
      /\ NamesOnce(kids) /\ NamesOnce(rest) /\ (\A i : ~ (Names(kids, i) /\ Names(rest, i)))
                => NamesOnce(next)
  BY <1>4, <1>6, ConcatNames
<1> HIDE DEF next
<1>8. /\ new \in Seq(TreeRows)
      /\ \A i : Names(new, i) <=> Names(rw, i) \/ h.issue = i
      /\ NamesOnce(rw) /\ ~ Names(rw, h.issue) => NamesOnce(new)
  BY <1>2, <1>4, AppendNames
<1>9. /\ Len(rw) \in Nat /\ Len(new) = Len(rw) + 1 /\ new[Len(rw) + 1] = h
      /\ \A n \in 1 .. Len(rw) : new[n] = rw[n]
  BY <1>2, <1>4, AppendProperties
<1> HIDE DEF new
<1>10. /\ NamesOnce(td) /\ NamesOnce(rw) /\ \A m, n \in 1 .. Len(rs) : rs[m] = rs[n] => m = n
       /\ \A i : ~ (Names(td, i) /\ Names(rw, i))
       /\ \A n \in 1 .. Len(rs) : ~ Names(td, rs[n]) /\ ~ Names(rw, rs[n])
  BY <1>1 DEF TreeOnce
<1>11. ~ Names(rw, h.issue) /\ InTree(p, flying, h.issue) /\ ~ Looped(p, flying, h.issue)
  BY <1>3, <1>4, <1>10 DEF TreeSound
\* What is below the row was nowhere yet: it is not a root, and its parent had no row.
<1>12. ASSUME NEW j, Names(kids, j)
       PROVE  /\ j \in Ids /\ p[j] = h.issue
              /\ InTree(p, flying, j) /\ ~ Looped(p, flying, j) /\ j \notin RootsOf(p, flying)
              /\ ~ Names(td, j) /\ ~ Names(rw, j)
  <2>1. j \in Ids /\ p[j] = h.issue
    BY <1>6, <1>12
  <2>2. InTree(p, flying, j) /\ ~ Looped(p, flying, j) /\ j \notin RootsOf(p, flying)
    BY <1>2, <1>5, <1>11, <2>1, ChildIsClear
  <2>3. ~ Names(td, j) /\ ~ Names(rw, j)
    BY <1>3, <1>11, <2>1, <2>2 DEF TreeSound
  <2> QED
    BY <2>1, <2>2, <2>3
<1>13. TreeOnce(rs, next, new)
  <2>1. NamesOnce(next)
    BY <1>4, <1>6, <1>7, <1>10, <1>12
  <2>2. NamesOnce(new)
    BY <1>8, <1>10, <1>11
  <2>3. ASSUME NEW i, Names(next, i), Names(new, i) PROVE FALSE
    BY <1>4, <1>7, <1>8, <1>10, <1>12, <2>3
  <2>4. ASSUME NEW n \in 1 .. Len(rs) PROVE ~ Names(next, rs[n]) /\ ~ Names(new, rs[n])
    <3>1. rs[n] \in RootsOf(p, flying)
      BY <1>2, ElementOfSeq
    <3> QED
      BY <1>4, <1>7, <1>8, <1>10, <1>12, <3>1
  <2> QED
    BY <1>10, <2>1, <2>2, <2>3, <2>4 DEF TreeOnce
<1>14. TreeSound(p, flying, next, new)
  <2> SUFFICES ASSUME NEW i, Names(next, i) \/ Names(new, i)
               PROVE  /\ InTree(p, flying, i) /\ ~ Looped(p, flying, i)
                      /\ i \in RootsOf(p, flying) \/ Names(new, p[i])
    BY DEF TreeSound
  <2>1. CASE Names(kids, i)
    BY <1>8, <1>12, <2>1
  <2>2. CASE Names(td, i) \/ Names(rw, i)
    BY <1>3, <1>8, <2>2 DEF TreeSound
  <2> QED
    BY <1>4, <1>7, <1>8, <2>1, <2>2
<1>15. TreeComplete(p, flying, rs, next, new)
  <2>1. ASSUME NEW i, Names(td, i) \/ Names(rw, i) PROVE Names(next, i) \/ Names(new, i)
    BY <1>4, <1>7, <1>8, <2>1
  <2>2. ASSUME NEW i \in RootsOf(p, flying)
        PROVE  Names(next, i) \/ Names(new, i) \/ \E n \in 1 .. Len(rs) : rs[n] = i
    BY <1>3, <2>1, <2>2 DEF TreeComplete
  <2>3. ASSUME NEW i \in Ids, Names(new, p[i]) PROVE Names(next, i) \/ Names(new, i)
    <3>1. CASE p[i] = h.issue
      BY <1>6, <1>7, <3>1
    <3>2. CASE Names(rw, p[i])
      BY <1>3, <2>1, <3>2 DEF TreeComplete
    <3> QED
      BY <1>8, <2>3, <3>1, <3>2
  <2> QED
    BY <2>2, <2>3 DEF TreeComplete
<1>16. TreeHangs(p, next, new)
  <2>1. /\ \A m, n \in 1 .. Len(td) : m < n => td[m].depth >= td[n].depth
        /\ \A n \in 1 .. Len(td) : td[n].depth > 0 =>
              \E m \in 1 .. Len(rw) : HangsFrom(p, td[n], rw, Len(rw), m)
        /\ \A n \in 1 .. Len(rw) : rw[n].depth > 0 =>
              \E m \in 1 .. n - 1 : HangsFrom(p, rw[n], rw, n - 1, m)
    BY <1>3 DEF TreeHangs
  <2>2. /\ 1 \in 1 .. Len(td) /\ \A n \in 1 .. Len(rest) : 1 < n + 1
        /\ \A n \in 1 .. Len(rest) : rest[n].depth \in Nat /\ h.depth >= rest[n].depth
    <3>1. 1 \in 1 .. Len(td) /\ \A n \in 1 .. Len(rest) : 1 < n + 1
      BY <1>4
    <3>2. \A n \in 1 .. Len(rest) : rest[n] \in TreeRows
      BY <1>4, ElementOfSeq
    <3>3. \A n \in 1 .. Len(rest) : h.depth >= rest[n].depth
      BY <1>4, <2>1, <3>1
    <3> QED
      BY <3>1, <3>2, <3>3 DEF TreeRows
  <2>3. ASSUME NEW m \in 1 .. Len(next), NEW n \in 1 .. Len(next), m < n
        PROVE  next[m].depth >= next[n].depth
    <3>0. Len(kids) \in Nat /\ Len(rest) \in Nat /\ m \in Nat /\ n \in Nat
      BY <1>4, <1>6
    <3>1. CASE n \in 1 .. Len(kids) /\ next[n] = kids[n]
      <4>1. m \in 1 .. Len(kids)
        BY <2>3, <3>0, <3>1
      <4>2. next[m] = kids[m]
        BY <1>7, <3>0, <4>1
      <4> QED
        BY <1>5, <1>6, <3>1, <4>1, <4>2
    <3>2. CASE n > Len(kids) /\ n - Len(kids) \in 1 .. Len(rest) /\ next[n] = rest[n - Len(kids)]
      <4>1. CASE m \in 1 .. Len(kids) /\ next[m] = kids[m]
        <5>1. next[m].depth = h.depth + 1 /\ h.depth >= next[n].depth /\ next[n].depth \in Nat
          BY <1>6, <2>2, <3>2, <4>1
        <5> QED
          BY <1>5, <5>1
      <4>2. CASE m - Len(kids) \in 1 .. Len(rest) /\ next[m] = rest[m - Len(kids)]
        <5>1. m - Len(kids) + 1 \in 1 .. Len(td) /\ n - Len(kids) + 1 \in 1 .. Len(td)
          BY <1>4, <3>2, <4>2
        <5>2. m - Len(kids) + 1 < n - Len(kids) + 1
          BY <2>3, <3>0
        <5>3. next[m] = td[m - Len(kids) + 1] /\ next[n] = td[n - Len(kids) + 1]
          BY <1>4, <3>2, <4>2
        <5> QED
          BY <2>1, <5>1, <5>2, <5>3
      <4> QED
        BY <1>7, <4>1, <4>2
    <3> QED
      BY <1>7, <3>1, <3>2
  <2>4. ASSUME NEW n \in 1 .. Len(next), next[n].depth > 0
        PROVE  \E m \in 1 .. Len(new) : HangsFrom(p, next[n], new, Len(new), m)
    <3>1. CASE n \in 1 .. Len(kids) /\ next[n] = kids[n]
      <4>1. Names(kids, kids[n].issue)
        BY <3>1 DEF Names
      <4>2. p[kids[n].issue] = h.issue /\ kids[n].depth - 1 = h.depth
        BY <1>5, <1>6, <3>1, <4>1
      <4>3. h = Row(h.issue, h.depth)
        BY <1>4 DEF TreeRows, Row
      <4>4. Len(rw) + 1 \in 1 .. Len(new) /\ (Len(rw) + 1) + 1 .. Len(new) = {}
        BY <1>9
      <4>5. HangsFrom(p, next[n], new, Len(new), Len(rw) + 1)
        BY <1>9, <3>1, <4>2, <4>3, <4>4 DEF HangsFrom
      <4> QED
        BY <4>4, <4>5
    <3>2. CASE n - Len(kids) \in 1 .. Len(rest) /\ next[n] = rest[n - Len(kids)]
      <4> DEFINE t == n - Len(kids) + 1
      <4>1. t \in 1 .. Len(td) /\ next[n] = td[t] /\ h.depth >= td[t].depth /\ td[t].depth \in Nat
        BY <1>4, <2>2, <3>2
      <4> HIDE DEF t
      <4>2. PICK m \in 1 .. Len(rw) : HangsFrom(p, td[t], rw, Len(rw), m)
        BY <2>1, <2>4, <4>1
      <4>3. m \in 1 .. Len(new) /\ new[m] = rw[m]
        BY <1>9
      <4>4. rw[m] = Row(p[td[t].issue], td[t].depth - 1) /\ rw[m].depth = td[t].depth - 1
        BY <4>2 DEF HangsFrom, Row
      <4>5. ASSUME NEW k \in m + 1 .. Len(new) PROVE new[k].depth > new[m].depth
        <5>1. CASE k = Len(rw) + 1
          BY <1>5, <1>9, <4>1, <4>3, <4>4, <5>1
        <5>2. CASE k # Len(rw) + 1
          <6>1. k \in m + 1 .. Len(rw) /\ k \in 1 .. Len(rw)
            BY <1>9, <5>2
          <6> QED
            BY <1>9, <4>2, <4>3, <6>1 DEF HangsFrom
        <5> QED
          BY <5>1, <5>2
      <4>6. HangsFrom(p, next[n], new, Len(new), m)
        BY <4>1, <4>3, <4>4, <4>5 DEF HangsFrom
      <4> QED
        BY <4>3, <4>6
    <3> QED
      BY <1>7, <3>1, <3>2
  <2>5. ASSUME NEW n \in 1 .. Len(new), new[n].depth > 0
        PROVE  \E m \in 1 .. n - 1 : HangsFrom(p, new[n], new, n - 1, m)
    <3>1. \E m \in 1 .. n - 1 : HangsFrom(p, new[n], rw, n - 1, m)
      <4>1. CASE n = Len(rw) + 1
        <5>1. n - 1 = Len(rw) /\ new[n] = td[1]
          BY <1>4, <1>9, <4>1
        <5> QED
          BY <2>1, <2>2, <2>5, <5>1
      <4>2. CASE n # Len(rw) + 1
        <5>1. n \in 1 .. Len(rw) /\ new[n] = rw[n]
          BY <1>9, <4>2
        <5> QED
          BY <2>1, <2>5, <5>1
      <4> QED
        BY <4>1, <4>2
    <3>2. PICK m \in 1 .. n - 1 : HangsFrom(p, new[n], rw, n - 1, m)
      BY <3>1
    <3>3. m \in 1 .. Len(rw) /\ \A k \in m + 1 .. n - 1 : k \in 1 .. Len(rw)
      BY <1>9
    <3>4. HangsFrom(p, new[n], new, n - 1, m)
      BY <1>9, <3>2, <3>3 DEF HangsFrom
    <3> QED
      BY <3>4
  <2> QED
    BY <2>3, <2>4, <2>5 DEF TreeHangs
<1>17. TreeTypes(p, flying, rs, next, new)
  BY <1>2, <1>7, <1>8 DEF TreeTypes
<1> QED
  BY <1>13, <1>14, <1>15, <1>16, <1>17 DEF TreeInv, h, kids, rest, next, new

\* In the end the rows are what the tree is to show.
LEMMA TreeEnds ==
    ASSUME NEW p, NEW flying, NEW rw, TreeInv(p, flying, <<>>, <<>>, rw), NEW i \in Ids
    PROVE  Names(rw, i) <=> InTree(p, flying, i) /\ ~ Looped(p, flying, i)
<1>1. p \in Parents /\ flying \in SUBSET Ids
  BY DEF TreeInv, TreeTypes
<1>2. Names(rw, i) => InTree(p, flying, i) /\ ~ Looped(p, flying, i)
  BY DEF TreeInv, TreeSound
<1>3. /\ \A r \in RootsOf(p, flying) : Names(rw, r)
      /\ \A j \in Ids : Names(rw, p[j]) => Names(rw, j)
  <2>1. TreeComplete(p, flying, <<>>, <<>>, rw)
    BY DEF TreeInv
  <2> QED
    BY <2>1, EmptyNames DEF TreeComplete
<1>4. ASSUME InTree(p, flying, i), ~ Looped(p, flying, i), ~ Names(rw, i) PROVE FALSE
  <2> DEFINE Left == {j \in Ids : ~ Names(rw, j)}
  <2>1. PICK r \in RootsOf(p, flying) : r = i \/ r \in Up(p, i)
    BY <1>1, <1>4, RootAbove
  <2>2. /\ p[i] \in Ids => p[i] \in Left
        /\ \A j \in Left \cap Ids : p[j] \in Ids => p[j] \in Left
    BY <1>3, <1>4
  <2>3. Up(p, i) \subseteq Left
    <3> HIDE DEF Left
    <3> QED
      BY ONLY <1>1, <2>2, UpFacts, i \in Ids
  <2> QED
    BY <1>3, <1>4, <2>1, <2>3
<1> QED
  BY <1>2, <1>4

\* The state is such a tree.
TreeIsMade == TreeInv(parentOf, inFlight, roots, todo, rows)

\* The operators of the model are those of its parents.
LEMMA AboveIsUp ==
    /\ \A i : Above(i) = Up(parentOf, i)
    /\ Roots = RootsOf(parentOf, inFlight)
    /\ \A i, depth : RowsAt(Children(i), depth) = RowsBelow(parentOf, i, depth)
<1>1. \A i : Above(i) = Up(parentOf, i)
  BY DEF Above, Up
<1> QED
  BY <1>1 DEF Roots, HasInFlightAncestor, RootsOf, Children, RowsBelow

\* Such a tree is whole.
LEMMA TreeIsWholeThen ==
    ASSUME TreeIsMade PROVE TreeIsWhole
<1>1. TreeOnce(roots, todo, rows) /\ TreeHangs(parentOf, todo, rows) /\ rows \in Seq(TreeRows)
  BY DEF TreeIsMade, TreeInv, TreeTypes
<1>2. DOMAIN rows = 1 .. Len(rows) /\ Len(rows) \in Nat
  BY <1>1
<1>3. \A m, n \in DOMAIN rows : m # n => rows[m].issue # rows[n].issue
  BY <1>1, <1>2 DEF TreeOnce, NamesOnce
<1>4. ASSUME roots = <<>>, todo = <<>>, NEW i \in Ids
      PROVE  (\E n \in DOMAIN rows : rows[n].issue = i)
                <=> /\ i \in inFlight \/ HasInFlightAncestor(i)
                    /\ ~UnderALoop(i)
  <2>1. Names(rows, i) <=> InTree(parentOf, inFlight, i) /\ ~ Looped(parentOf, inFlight, i)
    BY <1>4, TreeEnds DEF TreeIsMade
  <2>2. InTree(parentOf, inFlight, i) <=> i \in inFlight \/ HasInFlightAncestor(i)
    BY AboveIsUp DEF InTree, HasInFlightAncestor
  <2>3. Looped(parentOf, inFlight, i) <=> UnderALoop(i)
    BY AboveIsUp DEF Looped, UnderALoop
  <2> QED
    BY <1>2, <2>1, <2>2, <2>3 DEF Names
<1>5. RowsHangFromTheirParents
  <2> SUFFICES ASSUME NEW n \in DOMAIN rows, rows[n].depth > 0
               PROVE  \E m \in 1 .. n - 1 :
                         /\ rows[m] = Row(parentOf[rows[n].issue], rows[n].depth - 1)
                         /\ \A k \in m + 1 .. n - 1 : rows[k].depth > rows[m].depth
    BY DEF RowsHangFromTheirParents
  <2>1. PICK m \in 1 .. n - 1 : HangsFrom(parentOf, rows[n], rows, n - 1, m)
    BY <1>1, <1>2 DEF TreeHangs
  <2> QED
    BY <2>1 DEF HangsFrom
<1> QED
  BY <1>3, <1>4, <1>5 DEF TreeIsWhole, TreeShowsTheInFlight

\* The tree of a project's issues shows what is in flight and all that is below it, each
\* issue once and under the row of its parent, whatever parents Linear sends: also when
\* they are no issue of the project, or go round in circles.
THEOREM TheTreeIsWhole == IssueTreeInit /\ [][IssueTreeNext]_treeVars => []TreeIsWhole
<1>1. IssueTreeInit => TreeIsMade
  <2> SUFFICES ASSUME IssueTreeInit PROVE TreeIsMade
    OBVIOUS
  <2>1. parentOf \in Parents /\ inFlight \in SUBSET Ids
    BY DEF IssueTreeInit, Parents
  <2>2. roots = Sorted(RootsOf(parentOf, inFlight)) /\ todo = <<>> /\ rows = <<>>
    BY AboveIsUp DEF IssueTreeInit
  <2> QED
    BY <2>1, <2>2, TreeStarts DEF TreeIsMade
<1>2. TreeIsMade /\ [IssueTreeNext]_treeVars => TreeIsMade'
  <2> SUFFICES ASSUME TreeIsMade, [IssueTreeNext]_treeVars PROVE TreeIsMade'
    OBVIOUS
  <2>0. TreeInv(parentOf, inFlight, roots, todo, rows)
    BY DEF TreeIsMade
  <2>1. CASE NextRoot
    <3>1. /\ todo = <<>> /\ roots # <<>>
          /\ todo' = <<Row(Head(roots), 0)>> /\ roots' = Tail(roots)
          /\ parentOf' = parentOf /\ inFlight' = inFlight /\ rows' = rows
      BY <2>1 DEF NextRoot
    <3>2. TreeInv(parentOf, inFlight, Tail(roots), <<Row(Head(roots), 0)>>, rows)
      BY <2>0, <3>1, TreeGoesOn
    <3> QED
      BY <3>1, <3>2 DEF TreeIsMade
  <2>2. CASE NextRow
    <3>1. /\ todo # <<>> /\ rows' = Append(rows, Head(todo))
          /\ todo' = RowsBelow(parentOf, Head(todo).issue, Head(todo).depth + 1) \o Tail(todo)
          /\ parentOf' = parentOf /\ inFlight' = inFlight /\ roots' = roots
      BY <2>2, AboveIsUp DEF NextRow
    <3>2. TreeInv(parentOf, inFlight, roots,
                  RowsBelow(parentOf, Head(todo).issue, Head(todo).depth + 1) \o Tail(todo),
                  Append(rows, Head(todo)))
      BY <2>0, <3>1, TreeGrows
    <3> QED
      BY <3>1, <3>2 DEF TreeIsMade
  <2>3. CASE UNCHANGED treeVars
    BY <2>3 DEF TreeIsMade, treeVars
  <2> QED
    BY <2>1, <2>2, <2>3 DEF IssueTreeNext
<1>3. TreeIsMade => TreeIsWhole
  BY TreeIsWholeThen
<1> QED
  BY <1>1, <1>2, <1>3, PTL

=============================================================================
