--------------------------------- MODULE Matcher -------------------------------
(***************************************************************************)
(* Package matcher (backend/internal/matcher/matcher.go): which registered *)
(* name a name that the language model wrote can mean.  A name is a        *)
(* sequence of characters, of which Lower tells the letters and digits and *)
(* their lower case; the other characters separate words.                  *)
(*                                                                         *)
(* The state machine resolves one written name against a list that grows,  *)
(* as the list of the robot's objects does after a scan.  Its definitions  *)
(* have names of their own: the proofs relate it to RecipePipeline.        *)
(***************************************************************************)
EXTENDS Naturals, FiniteSets, SequencesExt

CONSTANTS Values,      \* names the model may write
          Registrable, \* names the middleware may register
          Lower,       \* the lower case of each letter and digit
          StopWords,   \* the, a, an, it, ...
          MaxNames     \* bound: registered names

ASSUME NamesAreWords == Registrable \cup Values \cup StopWords \subseteq Seq(STRING)
ASSUME MaxNamesIsNat == MaxNames \in Nat

VARIABLES
    value,       \* what the model wrote
    registered,  \* the registered names, in the order of the middleware
    outcome      \* Outcome of Resolve(value, registered)

matcherVars == <<value, registered, outcome>>

Space == " "

\* normalize: lower case, and every run of separators is one space between words.
normalize(name) ==
    LET Add(done, c) ==
            IF c \in DOMAIN Lower THEN Append(done, Lower[c])
            ELSE IF done = <<>> \/ Last(done) = Space THEN done
            ELSE Append(done, Space)
        n == FoldLeft(Add, <<>>, name)
    IN  IF n # <<>> /\ Last(n) = Space THEN Front(n) ELSE n

\* tokenize: the words of a normalized name that carry a meaning.
tokenize(n) ==
    LET Edge(i) == i \in {0, Len(n) + 1} \/ n[i] = Space
        Gaps == {p \in (0..Len(n)) \X (1..Len(n) + 1) :
                   /\ p[1] + 1 < p[2] /\ Edge(p[1]) /\ Edge(p[2])
                   /\ \A i \in p[1] + 1..p[2] - 1 : n[i] # Space}
    IN  {SubSeq(n, p[1] + 1, p[2] - 1) : p \in Gaps} \ StopWords

tokensContained(valueTokens, nameTokens) ==
    valueTokens # {} /\ valueTokens \subseteq nameTokens

min3(a, b, c) == Min({a, b, c})

\* Mutant: the first column is not set for the new row.
NextRowKeepsColumn(a, b, i, prev) ==
    LET curr[j \in 0..Len(b)] ==
            IF j = 0 THEN prev[0]
            ELSE min3(prev[j] + 1, curr[j - 1] + 1,
                      prev[j - 1] + IF a[i] = b[j] THEN 0 ELSE 1)
    IN  curr

\* One pass of the outer loop of levenshtein: the row of i from the row of i - 1.
NextRow(a, b, i, prev) ==
    LET curr[j \in 0..Len(b)] ==
            IF j = 0 THEN i
            ELSE min3(prev[j] + 1, curr[j - 1] + 1,
                      prev[j - 1] + IF a[i] = b[j] THEN 0 ELSE 1)
    IN  curr

levenshtein(a, b) ==
    LET row[i \in 0..Len(a)] ==
            IF i = 0 THEN [j \in 0..Len(b) |-> j] ELSE NextRow(a, b, i, row[i - 1])
    IN  row[Len(a)][Len(b)]

\* similarity(a, b) >= fuzzyThreshold, which is 0.7, without the fraction.
IsSimilar(a, b) ==
    LET longer == Max({Len(a), Len(b)})
    IN  10 * (longer - levenshtein(a, b)) >= 7 * longer

IsCandidate(v, name) ==
    \/ IsSimilar(normalize(v), normalize(name))
    \/ tokensContained(tokenize(normalize(v)), tokenize(normalize(name)))

NoMatch == [matched |-> FALSE, ambiguous |-> FALSE, candidates |-> <<>>]
Match(name) == [matched |-> TRUE, ambiguous |-> FALSE, candidates |-> <<name>>]
Ambiguity(names) == [matched |-> FALSE, ambiguous |-> TRUE, candidates |-> names]

\* The registered names that v can mean, in their order.
CandidatesOf(v, names) ==
    FlattenSeq([i \in DOMAIN names |-> IF IsCandidate(v, names[i]) THEN <<names[i]>> ELSE <<>>])

\* Mutant: the last of several candidates wins.
ResolveLast(v, names) ==
    LET candidates == CandidatesOf(v, names)
    IN  IF v \in ToSet(names) THEN Match(v)
        ELSE IF candidates = <<>> THEN NoMatch
        ELSE Match(Last(candidates))

Resolve(v, names) ==
    LET candidates == CandidatesOf(v, names)
    IN  IF v \in ToSet(names) THEN Match(v)
        ELSE CASE Len(candidates) = 0 -> NoMatch
               [] Len(candidates) = 1 -> Match(candidates[1])
               [] OTHER -> Ambiguity(candidates)

-----------------------------------------------------------------------------
MatcherInit ==
    /\ value \in Values
    /\ registered = <<>>
    /\ outcome = NoMatch

\* The middleware registers another name, wherever it puts it in its list, and
\* the same name is written again.
Register ==
    /\ Len(registered) < MaxNames
    /\ \E name \in Registrable \ ToSet(registered), i \in 1..Len(registered) + 1 :
         registered' = InsertAt(registered, i, name)
    /\ outcome' = Resolve(value, registered')
    /\ UNCHANGED value

MatcherSpec == MatcherInit /\ [][Register]_matcherVars

-----------------------------------------------------------------------------
\* The ways to align the first i characters of one word with the first j of
\* another: an increasing function from the places that are kept.
Alignments(i, j) ==
    {f \in UNION {[kept -> 1..j] : kept \in SUBSET (1..i)} :
       \A k, l \in DOMAIN f : k < l => f[k] < f[l]}

\* The characters that an alignment deletes, inserts and changes.
Edits(a, b, i, j, f) ==
    (i - Cardinality(DOMAIN f)) + (j - Cardinality(DOMAIN f))
      + Cardinality({k \in DOMAIN f : a[k] # b[f[k]]})

EditDistance(a, b) ==
    Min({Edits(a, b, Len(a), Len(b), f) : f \in Alignments(Len(a), Len(b))})

\* The two rows that levenshtein reuses yield the edit distance of the written
\* and every registered name, in both directions (matcher.go:151-173).
DistanceIsRight ==
    \A name \in ToSet(registered) :
        LET v == normalize(value)
            n == normalize(name)
            d == EditDistance(v, n)
        IN  levenshtein(v, n) = d /\ levenshtein(n, v) = d

\* A written name never changes its meaning silently: when the robot learns one
\* more name, what was resolved stays resolved to the same name or becomes
\* ambiguous, unless the new name is the written one (matcher.go:47-79).
MeaningIsStable ==
    [][outcome.matched =>
         \/ outcome' = outcome
         \/ outcome'.ambiguous /\ outcome.candidates[1] \in ToSet(outcome'.candidates)
         \/ value \in ToSet(registered') \ ToSet(registered) /\ outcome' = Match(value)]_matcherVars
=============================================================================
