-------------------------- MODULE PushedTiersProofs --------------------------
(***************************************************************************)
(* What the activity cache never gets wrong, for every number of           *)
(* repositories and of overlapping refreshes: it claims no push that was   *)
(* not made, and it forgets one only by overlap or by an unreadable file.  *)
(***************************************************************************)
EXTENDS PushedTiers, FiniteSetTheorems, TLAPS

\* The steps of the specification, for the case split every proof makes.
LEMMA StepCases ==
  ASSUME [Next]_vars
  PROVE  \/ \E r \in Repos : Push(r) \/ Age(r)
         \/ \E w \in Workers : Load(w) \/ LoadNothing(w) \/ Ask(w) \/ Save(w) \/ GiveUp(w)
         \/ UNCHANGED vars
  BY DEF Next

\* What the stamps are: from Old to Hot, and none of them is missing.
LEMMA StampFacts ==
  /\ Stamp \subseteq Nat /\ Old \in Stamp /\ Cold \in Stamp /\ Hot \in Stamp
  /\ \A s \in Stamp : s <= Hot /\ Old <= s /\ (s # Old => s - 1 \in Stamp)
  /\ None \notin Stamp /\ None \notin Record
  BY NoneAssumption DEF Stamp, Old, Cold, Hot, Record

\* Every set of values of a function on a finite set is finite.
LEMMA FiniteValues ==
  ASSUME NEW f, IsFiniteSet(DOMAIN f)
  PROVE  IsFiniteSet({f[x] : x \in DOMAIN f})
<1> DEFINE T == {f[x] : x \in DOMAIN f}
           g == [x \in DOMAIN f |-> f[x]]
<1>1. g \in Surjection(DOMAIN f, T)
  BY DEF Surjection
<1> QED
  BY <1>1, FS_Surjection

\* There are finitely many dates, so they can be ranked.
LEMMA DatesAreFinite ==
  ASSUME TypeOK
  PROVE  IsFiniteSet(Dates) /\ Dates \subseteq Nat
<1> USE DEF TypeOK, Records
<1> DEFINE Kept(known) == {q \in Repos : known[q] # None}
           Of(known) == {known[r].probed : r \in Kept(known)}
           R == {v \in Workers : Running(v)}
           Copied == UNION {Of(copy[w]) : w \in Workers}
           Started == {now[w] : w \in R}
<1>1. IsFiniteSet(Repos)
  BY NAssumption, FS_Interval DEF Repos
<1>2. ASSUME NEW known \in Records PROVE IsFiniteSet(Of(known)) /\ Of(known) \subseteq Nat
  <2> DEFINE f == [r \in Kept(known) |-> known[r].probed]
  <2>1. IsFiniteSet(Kept(known))
    BY <1>1, FS_Subset
  <2>2. IsFiniteSet(DOMAIN f)
    BY <2>1
  <2> HIDE DEF f
  <2>3. IsFiniteSet({f[r] : r \in DOMAIN f})
    BY <2>2, FiniteValues
  <2>4. {f[r] : r \in DOMAIN f} = Of(known)
    BY DEF f
  <2>5. \A r \in Kept(known) : known[r].probed \in Nat
    BY DEF Record
  <2> QED
    BY <2>3, <2>4, <2>5
<1>3. IsFiniteSet(Copied) /\ Copied \subseteq Nat
  <2> DEFINE g == [w \in Workers |-> Of(copy[w])]
  <2>1. \A w \in Workers : IsFiniteSet(Of(copy[w])) /\ Of(copy[w]) \subseteq Nat
    BY <1>2
  <2> HIDE DEF Of
  <2>2. IsFiniteSet(DOMAIN g)
    BY WorkersAssumption
  <2> HIDE DEF g
  <2>3. IsFiniteSet({g[w] : w \in DOMAIN g})
    BY <2>2, FiniteValues
  <2>4. {Of(copy[w]) : w \in Workers} = {g[w] : w \in DOMAIN g}
    BY DEF g
  <2>5. IsFiniteSet({Of(copy[w]) : w \in Workers})
    BY <2>3, <2>4
  <2>6. IsFiniteSet(Copied)
    BY <2>1, <2>5, FS_UNION
  <2> QED
    BY <2>1, <2>6
<1>4. IsFiniteSet(Started) /\ Started \subseteq Nat
  <2> DEFINE h == [w \in R |-> now[w]]
  <2>1. IsFiniteSet(R)
    BY WorkersAssumption, FS_Subset
  <2>2. IsFiniteSet(DOMAIN h)
    BY <2>1
  <2> HIDE DEF h
  <2>3. IsFiniteSet({h[w] : w \in DOMAIN h})
    BY <2>2, FiniteValues
  <2>4. Started = {h[w] : w \in DOMAIN h}
    BY DEF h
  <2> QED
    BY <2>3, <2>4
<1>5. Dates = (Of(records) \cup Copied) \cup Started
  BY DEF Dates
<1>6. IsFiniteSet(Of(records)) /\ Of(records) \subseteq Nat
  BY <1>2
<1> HIDE DEF Of, Copied, Started
<1>7. IsFiniteSet(Of(records) \cup Copied)
  BY <1>3, <1>6, FS_Union
<1> QED
  BY <1>3, <1>4, <1>5, <1>6, <1>7, FS_Union

\* Ranks are numbers.
LEMMA RanksAreDates ==
  ASSUME TypeOK
  PROVE  Today \in Nat /\ \A date \in Nat : Rank(date) \in Nat
<1>1. Today \in Nat
  BY DatesAreFinite, FS_CardinalityType DEF Today
<1>2. ASSUME NEW date \in Nat PROVE Rank(date) \in Nat
  <2>1. IsFiniteSet({d \in Dates : d < date})
    BY DatesAreFinite, FS_Subset
  <2> QED
    BY <2>1, FS_CardinalityType DEF Rank
<1> QED
  BY <1>1, <1>2
-----------------------------------------------------------------------------

\* An ActivityCache claims no push that was not made.
Truthful(known, truth) ==
    \A r \in Repos : known[r] # None => truth[r] # None /\ known[r].stamp <= truth[r]

\* Every push that one ActivityCache knows, another knows as well.
Covers(known, other) ==
    \A r \in Repos : other[r] # None => known[r] # None /\ other[r].stamp <= known[r].stamp

\* The stamps of an ActivityCache do not depend on how dates are numbered.
LEMMA RankedRecords ==
  ASSUME TypeOK, NEW known \in Records
  PROVE  Ranked(known) \in Records
<1>1. ASSUME NEW r \in Repos, known[r] # None
      PROVE  [known[r] EXCEPT !.probed = Rank(@)] \in Record
  <2>1. known[r] \in Record
    BY <1>1 DEF Records
  <2>2. Rank(known[r].probed) \in Nat
    BY <2>1, RanksAreDates DEF Record
  <2> QED
    BY <2>1, <2>2 DEF Record
<1> QED
  BY <1>1 DEF Ranked, Records

\* Ranking the records of all repositories ranks each one by itself.
LEMMA RankedOne ==
  ASSUME TypeOK, NEW known \in Records, NEW r \in Repos
  PROVE  /\ Ranked(known)[r] = None <=> known[r] = None
         /\ known[r] # None => Ranked(known)[r].stamp = known[r].stamp
<1>1. known[r] \in Record \cup {None} /\ Ranked(known)[r] \in Record \cup {None}
  BY RankedRecords DEF Records
<1>2. CASE known[r] = None
  BY <1>2 DEF Ranked
<1>3. CASE known[r] # None
  <2> DEFINE ranked == [known[r] EXCEPT !.probed = Rank(@)]
  <2>1. ranked.stamp = known[r].stamp /\ ranked \in Record
    <3>1. Rank(known[r].probed) \in Nat
      BY <1>1, <1>3, RanksAreDates DEF Record
    <3> QED
      BY <1>1, <1>3, <3>1 DEF Record
  <2>2. Ranked(known)[r] = ranked
    BY <1>3 DEF Ranked
  <2> QED
    BY <1>3, <2>1, <2>2, StampFacts
<1> QED
  BY <1>2, <1>3

\* Time takes what is known and what is true down together.
LEMMA AgedOne ==
  ASSUME NEW known \in Records, NEW r \in Repos, NEW q \in Repos
  PROVE  /\ Aged(known, r) \in Records
         /\ Aged(known, r)[q] = None <=> known[q] = None
         /\ known[q] # None => Aged(known, r)[q].stamp =
                IF q = r /\ known[q].stamp # Old THEN known[q].stamp - 1 ELSE known[q].stamp
<1>1. CASE known[r] = None \/ known[r].stamp = Old
  BY <1>1 DEF Aged
<1>2. CASE ~ (known[r] = None \/ known[r].stamp = Old)
  <2> DEFINE older == [known[r] EXCEPT !.stamp = @ - 1]
  <2>1. known[r] \in Record
    BY <1>2 DEF Records
  <2>2. older \in Record /\ older.stamp = known[r].stamp - 1
    BY <1>2, <2>1, StampFacts DEF Record
  <2>3. Aged(known, r) = [known EXCEPT ![r] = older]
    BY <1>2 DEF Aged
  <2>4. older # None
    BY <2>2, StampFacts
  <2> HIDE DEF older
  <2> QED
    BY <1>2, <2>2, <2>3, <2>4 DEF Records
<1> QED
  BY <1>1, <1>2

\* A sighting wakes what was unknown or retired, and forgets nothing.
LEMMA PromotedLearns ==
  ASSUME NEW known \in Records, NEW sighted \in [Repos -> Stamp], NEW date \in Nat,
         NEW truth \in [Repos -> Stamp \cup {None}], Truthful(known, truth),
         \A r \in Repos : sighted[r] # Old => truth[r] # None /\ sighted[r] <= truth[r]
  PROVE  LET learned == Promoted(known, sighted, date)
         IN  learned \in Records /\ Truthful(learned, truth) /\ Covers(learned, known)
<1> DEFINE learned == Promoted(known, sighted, date)
<1>1. ASSUME NEW r \in Repos
      PROVE  /\ learned[r] \in Record \cup {None}
             /\ learned[r] # None => truth[r] # None /\ learned[r].stamp <= truth[r]
             /\ known[r] # None => learned[r] # None /\ known[r].stamp <= learned[r].stamp
  <2>1. known[r] \in Record \cup {None}
    BY DEF Records
  <2>2. CASE sighted[r] # Old /\ (known[r] = None \/ known[r].stamp = Old)
    <3>1. learned[r] = [stamp |-> sighted[r], probed |-> date]
      BY <2>2 DEF Promoted
    <3>2. learned[r] \in Record /\ learned[r].stamp = sighted[r]
      BY <3>1 DEF Record
    <3>3. sighted[r] \in Stamp /\ Old <= sighted[r]
      BY StampFacts
    <3> HIDE DEF learned
    <3> QED
      BY <2>2, <3>2, <3>3, StampFacts
  <2>3. CASE ~ (sighted[r] # Old /\ (known[r] = None \/ known[r].stamp = Old))
    <3>1. learned[r] = known[r]
      BY <2>3 DEF Promoted
    <3>2. known[r] # None => known[r].stamp \in Nat /\ known[r].stamp <= known[r].stamp
      BY <2>1 DEF Record, Stamp, Old, Cold, Hot
    <3> HIDE DEF learned
    <3> QED
      BY <2>1, <3>1, <3>2 DEF Truthful
  <2> QED
    BY <2>2, <2>3
<1> QED
  BY <1>1 DEF Promoted, Records, Truthful, Covers

\* An answer advances a stamp, or leaves it.
LEMMA ObservedLearns ==
  ASSUME NEW known \in Records, NEW calls \in SUBSET Repos, NEW answered \in SUBSET calls,
         NEW answer \in [answered -> Stamp], NEW date \in Nat,
         NEW truth \in [Repos -> Stamp \cup {None}], Truthful(known, truth),
         \A r \in answered : truth[r] # None /\ answer[r] <= truth[r]
  PROVE  LET learned == Observed(known, answer, date)
         IN  learned \in Records /\ Truthful(learned, truth) /\ Covers(learned, known)
<1> DEFINE learned == Observed(known, answer, date)
<1>1. ASSUME NEW r \in Repos
      PROVE  /\ learned[r] \in Record \cup {None}
             /\ learned[r] # None => truth[r] # None /\ learned[r].stamp <= truth[r]
             /\ known[r] # None => learned[r] # None /\ known[r].stamp <= learned[r].stamp
  <2>1. known[r] \in Record \cup {None}
    BY DEF Records
  <2>2. CASE r \in answered
    <3> DEFINE previous == IF known[r] = None THEN Old ELSE known[r].stamp
               newest == IF answer[r] > previous THEN answer[r] ELSE previous
    <3>1. learned[r] = [stamp |-> newest, probed |-> date]
      BY <2>2 DEF Observed
    <3>2. previous \in Stamp /\ answer[r] \in Stamp
      BY <2>1, <2>2, StampFacts DEF Record
    <3>3. newest \in Stamp /\ previous <= newest /\ newest \in {answer[r], previous}
      <4> HIDE DEF previous
      <4> QED
        BY <3>2 DEF Stamp, Old, Cold, Hot
    <3>4. truth[r] # None /\ newest <= truth[r]
      <4>1. answer[r] <= truth[r] /\ truth[r] # None /\ truth[r] \in Stamp
        BY <2>2
      <4>2. previous <= truth[r]
        BY <4>1, StampFacts DEF Truthful
      <4> HIDE DEF newest
      <4> QED
        BY <3>3, <4>1, <4>2
    <3>5. learned[r] \in Record /\ learned[r].stamp = newest
      BY <3>1, <3>3 DEF Record
    <3>6. known[r] # None => known[r].stamp = previous
      OBVIOUS
    <3> HIDE DEF newest, previous, learned
    <3> QED
      BY <3>3, <3>4, <3>5, <3>6, StampFacts
  <2>3. CASE r \notin answered
    <3>1. learned[r] = known[r]
      BY <2>3 DEF Observed
    <3>2. known[r] # None => known[r].stamp \in Nat /\ known[r].stamp <= known[r].stamp
      BY <2>1 DEF Record, Stamp, Old, Cold, Hot
    <3> HIDE DEF learned
    <3> QED
      BY <2>1, <3>1, <3>2 DEF Truthful
  <2> QED
    BY <2>2, <2>3
<1> QED
  BY <1>1 DEF Observed, Records, Truthful, Covers

\* Records that cover others cover what those cover.
LEMMA CoversIsTransitive ==
  ASSUME NEW k1 \in Records, NEW k2 \in Records, NEW k3 \in Records,
         Covers(k1, k2), Covers(k2, k3)
  PROVE  Covers(k1, k3)
<1>1. ASSUME NEW r \in Repos, k3[r] # None
      PROVE  k1[r] # None /\ k3[r].stamp <= k1[r].stamp
  <2>1. k2[r] # None /\ k1[r] # None /\ k3[r].stamp <= k2[r].stamp /\ k2[r].stamp <= k1[r].stamp
    BY <1>1 DEF Covers
  <2>2. k1[r].stamp \in Nat /\ k2[r].stamp \in Nat /\ k3[r].stamp \in Nat
    BY <1>1, <2>1, StampFacts DEF Records, Record
  <2> QED
    BY <2>1, <2>2
<1> QED
  BY <1>1 DEF Covers

\* Records cover themselves.
LEMMA CoversIsReflexive ==
  ASSUME NEW known \in Records
  PROVE  Covers(known, known)
<1>1. ASSUME NEW r \in Repos, known[r] # None PROVE known[r].stamp \in Nat
  BY <1>1, StampFacts DEF Records, Record
<1> QED
  BY <1>1 DEF Covers

\* Knowing nothing is always true.
LEMMA UnknownIsTruthful ==
  /\ Unknown \in Records
  /\ \A truth : Truthful(Unknown, truth)
  /\ \A known \in Records : Covers(known, Unknown)
  BY DEF Unknown, Records, Truthful, Covers

\* The whole of a refresh's requests only adds to what it loaded.
LEMMA AskLearns ==
  ASSUME TypeOK, NEW w \in Workers, Ask(w), Truthful(copy[w], pushed)
  PROVE  /\ \E learned \in Records : /\ copy' = [copy EXCEPT ![w] = learned]
                                    /\ Truthful(learned, pushed)
                                    /\ Covers(learned, copy[w])
         /\ \E next \in Repos \cup {0} : place' = [place EXCEPT ![w] = next]
<1>1. PICK found \in Discoveries, sighted \in Sightings :
        LET known == Promoted(copy[w], sighted, now[w])
            names == Names(known, found)
            unknown == {r \in names : known[r] = None}
            probes == ProbeRotation(Tier(known, names, Cold), place[w])
            oldest == OldestRetired(known, Tier(known, names, Old))
        IN  /\ \E last \in IF oldest = {} THEN {{}} ELSE {{r} : r \in oldest} :
                  \E answer \in Answers(Tier(known, names, Hot) \cup unknown
                                           \cup probes \cup last) :
                      copy' = [copy EXCEPT ![w] = Observed(known, answer, now[w])]
            /\ \E next \in NextCursor(probes, place[w]) :
                  place' = [place EXCEPT ![w] = next]
  BY DEF Ask
<1> DEFINE known == Promoted(copy[w], sighted, now[w])
           names == Names(known, found)
           unknown == {r \in names : known[r] = None}
           probes == ProbeRotation(Tier(known, names, Cold), place[w])
           oldest == OldestRetired(known, Tier(known, names, Old))
<1>2. PICK last \in IF oldest = {} THEN {{}} ELSE {{r} : r \in oldest} :
        \E answer \in Answers(Tier(known, names, Hot) \cup unknown \cup probes \cup last) :
            copy' = [copy EXCEPT ![w] = Observed(known, answer, now[w])]
  BY <1>1
<1> DEFINE calls == Tier(known, names, Hot) \cup unknown \cup probes \cup last
<1>3. PICK answer \in Answers(calls) :
        copy' = [copy EXCEPT ![w] = Observed(known, answer, now[w])]
  BY <1>2
<1>4. known \in Records /\ Truthful(known, pushed) /\ Covers(known, copy[w])
  BY PromotedLearns DEF TypeOK, Sightings
<1>5. names \subseteq Repos /\ \A r \in names : pushed[r] # None
  BY <1>4 DEF Names, Truthful, Discoveries
<1>6. probes \subseteq names /\ oldest \subseteq names
  BY DEF ProbeRotation, OldestRetired, Tier
<1>7. calls \subseteq names
  BY <1>6 DEF Tier
<1>8. PICK answered \in SUBSET calls : answer \in [answered -> Stamp]
  BY DEF Answers
<1>9. \A r \in answered : pushed[r] # None /\ answer[r] <= pushed[r]
  <2> SUFFICES ASSUME NEW r \in answered PROVE pushed[r] # None /\ answer[r] <= pushed[r]
    OBVIOUS
  <2>1. pushed[r] # None /\ pushed[r] \in Stamp
    BY <1>5, <1>7 DEF TypeOK
  <2>2. answer[r] = pushed[r] \/ answer[r] = Old
    BY <1>8 DEF Answers
  <2> QED
    BY <2>1, <2>2 DEF Stamp, Old, Cold, Hot
<1> DEFINE learned == Observed(known, answer, now[w])
<1>10. learned \in Records /\ Truthful(learned, pushed) /\ Covers(learned, known)
  <2>1. calls \in SUBSET Repos /\ now[w] \in Nat /\ pushed \in [Repos -> Stamp \cup {None}]
    BY <1>5, <1>7 DEF TypeOK
  <2> HIDE DEF known, calls
  <2> QED
    BY <1>4, <1>8, <1>9, <2>1, ObservedLearns
<1>11. Covers(learned, copy[w])
  <2>1. copy[w] \in Records
    BY DEF TypeOK
  <2> HIDE DEF learned, known
  <2> QED
    BY <1>4, <1>10, <2>1, CoversIsTransitive
<1>12. \E next \in Repos \cup {0} : place' = [place EXCEPT ![w] = next]
  <2>1. \E next \in NextCursor(probes, place[w]) : place' = [place EXCEPT ![w] = next]
    BY <1>1
  <2>2. NextCursor(probes, place[w]) \subseteq Repos \cup {0}
    BY <1>5, <1>6 DEF NextCursor, TypeOK
  <2> QED
    BY <2>1, <2>2
<1> QED
  BY <1>3, <1>10, <1>11, <1>12

-----------------------------------------------------------------------------

\* A refresh that no other has crossed holds all that the file knows.
Abreast == \A w \in Workers : Running(w) /\ ~ crossed[w] => Covers(copy[w], records)

Inv == TypeOK /\ RecordIsEvidence /\ Abreast

\* The invariant says that what is recorded and copied is true.
LEMMA EvidenceIsTruth ==
  RecordIsEvidence <=> /\ Truthful(records, pushed)
                       /\ \A w \in Workers : Truthful(copy[w], pushed)
  BY DEF RecordIsEvidence, Truthful

\* The initial state satisfies the invariant.
LEMMA InitInv == Init => Inv
<1> SUFFICES ASSUME Init PROVE Inv
  OBVIOUS
<1> USE DEF Init
<1>1. TypeOK
  BY UnknownIsTruthful DEF TypeOK
<1>2. Truthful(records, pushed) /\ \A w \in Workers : Truthful(copy[w], pushed)
  BY UnknownIsTruthful
<1>3. Abreast
  BY DEF Abreast, Running
<1> QED
  BY <1>1, <1>2, <1>3, EvidenceIsTruth DEF Inv

\* A push adds to the truth only.
LEMMA PushInv ==
  ASSUME Inv, NEW r \in Repos, Push(r)
  PROVE  Inv'
<1> USE DEF Inv, Push, workerVars
<1>1. TypeOK'
  BY StampFacts DEF TypeOK
<1>2. ASSUME NEW known \in Records, Truthful(known, pushed) PROVE Truthful(known, pushed')
  <2>1. ASSUME NEW q \in Repos, known[q] # None
        PROVE  pushed'[q] # None /\ known[q].stamp <= pushed'[q]
    <3>1. known[q].stamp \in Stamp
      BY <2>1 DEF Records, Record
    <3> QED
      BY <1>2, <2>1, <3>1, StampFacts DEF Truthful, TypeOK
  <2> QED
    BY <2>1 DEF Truthful
<1>3. RecordIsEvidence'
  BY <1>2, EvidenceIsTruth DEF TypeOK, RecordIsEvidence, Truthful
<1>4. Abreast'
  BY DEF Abreast, Running
<1> QED
  BY <1>1, <1>3, <1>4

\* Time passing keeps the invariant.
LEMMA AgeInv ==
  ASSUME Inv, NEW r \in Repos, Age(r)
  PROVE  Inv'
<1> USE DEF Inv, Age
<1>1. ASSUME NEW known \in Records, Truthful(known, pushed)
      PROVE  Aged(known, r) \in Records /\ Truthful(Aged(known, r), pushed')
  <2>1. ASSUME NEW q \in Repos, Aged(known, r)[q] # None
        PROVE  pushed'[q] # None /\ Aged(known, r)[q].stamp <= pushed'[q]
    <3>1. known[q] # None /\ Aged(known, r)[q].stamp =
              IF q = r /\ known[q].stamp # Old THEN known[q].stamp - 1 ELSE known[q].stamp
      BY <2>1, AgedOne
    <3>2. known[q].stamp \in Stamp /\ pushed[q] \in Stamp /\ known[q].stamp <= pushed[q]
      BY <1>1, <3>1 DEF Records, Record, Truthful, TypeOK
    <3>3. pushed'[q] = IF q = r THEN pushed[q] - 1 ELSE pushed[q]
      BY DEF TypeOK
    <3>4. q = r => pushed[q] # Old
      OBVIOUS
    <3>5. pushed'[q] # None
      BY <3>2, <3>3, <3>4, StampFacts
    <3> QED
      BY <3>1, <3>2, <3>3, <3>4, <3>5 DEF Stamp, Old, Cold, Hot
  <2> QED
    BY <2>1, AgedOne DEF Truthful
<1>2. ASSUME NEW known \in Records, NEW other \in Records, Covers(known, other)
      PROVE  Covers(Aged(known, r), Aged(other, r))
  <2>1. ASSUME NEW q \in Repos, Aged(other, r)[q] # None
        PROVE  Aged(known, r)[q] # None /\ Aged(other, r)[q].stamp <= Aged(known, r)[q].stamp
    <3>1. other[q] # None /\ known[q] # None /\ other[q].stamp <= known[q].stamp
      BY <1>2, <2>1, AgedOne DEF Covers
    <3>2. other[q].stamp \in Stamp /\ known[q].stamp \in Stamp
      BY <3>1 DEF Records, Record
    <3>3. /\ Aged(known, r)[q] # None
          /\ Aged(known, r)[q].stamp =
                IF q = r /\ known[q].stamp # Old THEN known[q].stamp - 1 ELSE known[q].stamp
          /\ Aged(other, r)[q].stamp =
                IF q = r /\ other[q].stamp # Old THEN other[q].stamp - 1 ELSE other[q].stamp
      BY <3>1, AgedOne
    <3> QED
      BY <3>1, <3>2, <3>3 DEF Stamp, Old, Cold, Hot
  <2> QED
    BY <2>1 DEF Covers
<1>3. TypeOK'
  <2>1. records' \in Records /\ copy' \in [Workers -> Records]
    BY AgedOne DEF TypeOK
  <2>2. pushed' \in [Repos -> Stamp \cup {None}]
    BY StampFacts DEF TypeOK
  <2> QED
    BY <2>1, <2>2 DEF TypeOK
<1>4. Truthful(records', pushed') /\ \A w \in Workers : Truthful(copy'[w], pushed')
  BY <1>1, EvidenceIsTruth DEF TypeOK
<1>5. RecordIsEvidence'
  BY <1>4 DEF RecordIsEvidence, Truthful
<1>6. Abreast'
  BY <1>2 DEF Abreast, Running, TypeOK
<1> QED
  BY <1>3, <1>5, <1>6

\* A load renumbers the dates; what is loaded is the file, or nothing.
LEMMA LoadInv ==
  ASSUME Inv, NEW w \in Workers, Load(w) \/ LoadNothing(w)
  PROVE  Inv'
<1> USE DEF Inv
<1>1. PICK known \in Records, cold \in Repos \cup {0} :
        /\ Loading(w, known, cold)
        /\ \/ known = records /\ crossed' = [crossed EXCEPT ![w] = FALSE]
           \/ known = Unknown /\ crossed' = [crossed EXCEPT ![w] = TRUE]
  BY UnknownIsTruthful DEF Load, LoadNothing, TypeOK
<1>2. /\ records' = Ranked(records) /\ pushed' = pushed
      /\ copy' = [v \in Workers |-> Ranked(IF v = w THEN known ELSE copy[v])]
      /\ pc' = [pc EXCEPT ![w] = "loaded"]
  BY <1>1 DEF Loading
<1>3. TypeOK'
  <2>1. now' \in [Workers -> Nat]
    BY <1>1, RanksAreDates DEF Loading, TypeOK
  <2>2. copy' \in [Workers -> Records] /\ records' \in Records
    BY <1>2, RankedRecords DEF TypeOK
  <2> QED
    BY <1>1, <2>1, <2>2 DEF Loading, TypeOK
<1>4. ASSUME NEW known1 \in Records, Truthful(known1, pushed)
      PROVE  Truthful(Ranked(known1), pushed)
  BY <1>4, RankedOne DEF Truthful
<1>5. ASSUME NEW known1 \in Records, NEW known2 \in Records, Covers(known1, known2)
      PROVE  Covers(Ranked(known1), Ranked(known2))
  BY <1>5, RankedOne DEF Covers
<1>6. Truthful(records', pushed') /\ \A v \in Workers : Truthful(copy'[v], pushed')
  BY <1>1, <1>2, <1>4, EvidenceIsTruth, UnknownIsTruthful DEF TypeOK
<1>7. RecordIsEvidence'
  BY <1>6 DEF RecordIsEvidence, Truthful
<1>8. ASSUME NEW v \in Workers, Running(v)', ~ crossed'[v]
      PROVE  Covers(copy'[v], records')
  <2>1. CASE v = w
    BY <1>1, <1>2, <1>5, <1>8, <2>1, CoversIsReflexive DEF TypeOK
  <2>2. CASE v # w
    <3>1. Running(v) /\ ~ crossed[v] /\ copy'[v] = Ranked(copy[v])
      BY <1>1, <1>2, <1>8, <2>2 DEF Running, TypeOK
    <3> QED
      BY <1>2, <1>5, <3>1 DEF Abreast, TypeOK
  <2> QED
    BY <2>1, <2>2
<1> QED
  BY <1>3, <1>7, <1>8 DEF Abreast

\* Asking keeps the invariant.
LEMMA AskInv ==
  ASSUME Inv, NEW w \in Workers, Ask(w)
  PROVE  Inv'
<1> USE DEF Inv
<1>1. PICK learned \in Records : /\ copy' = [copy EXCEPT ![w] = learned]
                                /\ Truthful(learned, pushed)
                                /\ Covers(learned, copy[w])
  BY AskLearns, EvidenceIsTruth
<1>2. /\ pc[w] = "loaded" /\ pc' = [pc EXCEPT ![w] = "asked"]
      /\ UNCHANGED <<pushed, records, cursor, now, crossed>>
  BY DEF Ask
<1>3. TypeOK'
  <2>1. PICK next \in Repos \cup {0} : place' = [place EXCEPT ![w] = next]
    BY AskLearns, EvidenceIsTruth
  <2> QED
    BY <1>1, <1>2, <2>1 DEF TypeOK
<1>4. Truthful(records', pushed') /\ \A v \in Workers : Truthful(copy'[v], pushed')
  BY <1>1, <1>2, EvidenceIsTruth DEF TypeOK
<1>5. RecordIsEvidence'
  BY <1>4 DEF RecordIsEvidence, Truthful
<1>6. ASSUME NEW v \in Workers, Running(v)', ~ crossed'[v]
      PROVE  Covers(copy'[v], records')
  <2>1. Running(v) /\ ~ crossed[v]
    BY <1>2, <1>6 DEF Running, TypeOK
  <2>2. CASE v = w
    BY <1>1, <1>2, <2>1, <2>2, CoversIsTransitive DEF Abreast, TypeOK
  <2>3. CASE v # w
    BY <1>1, <1>2, <2>1, <2>3 DEF Abreast, TypeOK
  <2> QED
    BY <2>2, <2>3
<1> QED
  BY <1>3, <1>5, <1>6 DEF Abreast

\* Only a refresh that was crossed, or could not read, leaves something out.
LEMMA SaveKeeps ==
  ASSUME Inv, NEW w \in Workers, Save(w), ~ crossed[w]
  PROVE  Covers(records', records)
  BY DEF Inv, Abreast, Save, Running

\* Saving and giving up keep the invariant.
LEMMA EndInv ==
  ASSUME Inv, NEW w \in Workers, Save(w) \/ GiveUp(w)
  PROVE  Inv'
<1> USE DEF Inv
<1>1. /\ Finish(w) /\ pushed' = pushed
      /\ records' \in {records, copy[w]} /\ cursor' \in {cursor, place[w]}
      /\ crossed' \in [Workers -> BOOLEAN]
  BY DEF Save, GiveUp, TypeOK, Running
<1>2. TypeOK'
  BY <1>1, UnknownIsTruthful DEF Finish, TypeOK
<1>3. Truthful(records', pushed') /\ \A v \in Workers : Truthful(copy'[v], pushed')
  BY <1>1, EvidenceIsTruth, UnknownIsTruthful DEF Finish, TypeOK
<1>4. RecordIsEvidence'
  BY <1>3 DEF RecordIsEvidence, Truthful
<1>5. ASSUME NEW v \in Workers, Running(v)', ~ crossed'[v]
      PROVE  Covers(copy'[v], records')
  <2>1. v # w /\ Running(v) /\ copy'[v] = copy[v]
    BY <1>1, <1>5 DEF Finish, Running, TypeOK
  <2>2. GiveUp(w) /\ ~ crossed[v]
    BY <1>5, <2>1 DEF Save, GiveUp, TypeOK
  <2> QED
    BY <2>1, <2>2 DEF GiveUp, Abreast
<1> QED
  BY <1>2, <1>4, <1>5 DEF Abreast

\* A step that changes nothing keeps the invariant.
LEMMA StutterInv ==
  ASSUME Inv, UNCHANGED vars
  PROVE  Inv'
  BY DEF Inv, TypeOK, RecordIsEvidence, Abreast, Covers, Running, vars, workerVars

\* Every step keeps the invariant.
LEMMA StepInv == Inv /\ [Next]_vars => Inv'
  BY StepCases, PushInv, AgeInv, LoadInv, AskInv, EndInv, StutterInv

\* The invariant holds of every behaviour.
LEMMA Invariance == Spec => []Inv
  BY InitInv, StepInv, PTL DEF Spec

-----------------------------------------------------------------------------

\* Every variable keeps its type: above all, the cursor and the calls of a
\* refresh name repositories, and a record has a stamp and a date or is none.
THEOREM TypeCorrect == Spec => []TypeOK
<1>1. Inv => TypeOK
  BY DEF Inv
<1> QED
  BY <1>1, Invariance, PTL

\* "The stamp advances only on evidence", for every number of repositories and
\* refreshes: no record claims a push that the viewer did not make.
THEOREM RecordsAreEvidence == Spec => []RecordIsEvidence
<1>1. Inv => RecordIsEvidence
  BY DEF Inv
<1> QED
  BY <1>1, Invariance, PTL

\* The file forgets a push only when a refresh saves that another has crossed,
\* or that could not read it: of refreshes one after another, none does.
THEOREM LearnedStays == Spec => LearnedIsKept
<1>1. ASSUME Inv, [Next]_vars
      PROVE  [\A r \in Repos :
                records[r] # None /\ pushed'[r] = pushed[r] =>
                    \/ records'[r] # None /\ records'[r].stamp >= records[r].stamp
                    \/ \E w \in Workers : Save(w) /\ crossed[w]]_vars
  <2> SUFFICES ASSUME NEW r \in Repos, records[r] # None, pushed'[r] = pushed[r],
                      \A w \in Workers : ~ (Save(w) /\ crossed[w])
               PROVE  records'[r] # None /\ records'[r].stamp >= records[r].stamp
    OBVIOUS
  <2>1. records \in Records /\ records[r].stamp \in Nat
    BY <1>1, StampFacts DEF Inv, TypeOK, Records, Record
  <2>2. records'[r] # None => records'[r].stamp \in Nat
    BY <1>1, StepInv, StampFacts DEF Inv, TypeOK, Records, Record
  <2>3. ASSUME Covers(records', records)
        PROVE  records'[r] # None /\ records'[r].stamp >= records[r].stamp
    BY <2>1, <2>2, <2>3 DEF Covers
  <2>4. CASE UNCHANGED records
    BY <2>1, <2>4
  <2>5. ASSUME NEW q \in Repos, Age(q)
        PROVE  records'[r] # None /\ records'[r].stamp >= records[r].stamp
    <3>1. q # r
      <4>1. pushed[q] \in Nat /\ pushed'[q] = pushed[q] - 1
        BY <1>1, <2>5, StampFacts DEF Inv, TypeOK, Age
      <4> QED
        BY <4>1
    <3> QED
      BY <2>1, <2>5, <3>1, AgedOne DEF Age
  <2>6. ASSUME NEW w \in Workers, Load(w) \/ LoadNothing(w)
        PROVE  records'[r] # None /\ records'[r].stamp >= records[r].stamp
    <3>1. records' = Ranked(records)
      BY <2>6 DEF Load, LoadNothing, Loading
    <3> QED
      BY <1>1, <2>1, <3>1, RankedOne DEF Inv
  <2>7. ASSUME NEW w \in Workers, Save(w)
        PROVE  records'[r] # None /\ records'[r].stamp >= records[r].stamp
    BY <1>1, <2>3, <2>7, SaveKeeps
  <2> QED
    BY <1>1, <2>4, <2>5, <2>6, <2>7, StepCases DEF Push, Ask, GiveUp, vars
<1> QED
  BY <1>1, Invariance, PTL DEF Spec, LearnedIsKept

=============================================================================
