----------------------------- MODULE EvaluationProofs -----------------------------
(***************************************************************************)
(* The verdicts, the exit code and the summary of an evaluation are right, *)
(* for every command line, every result and every expectation.             *)
(*                                                                         *)
(* ExitTellsAll and SummaryIsRight look at a run that has ended.  What     *)
(* carries them through the run is how far it is: the report has each case *)
(* before the next one, once, and no other; and the list of failures has   *)
(* as many entries as there are failed cases in the report and suites      *)
(* before the next one that did not load.                                  *)
(*                                                                         *)
(* FirstDifference compares the walk of match with the set of all places   *)
(* that are missed.  match and Places are recursive functions, and TLA+    *)
(* only chooses a function that satisfies such an equation, if there is    *)
(* one.  RankRecursion shows that there is one when the equation goes down *)
(* a rank, here the depth of a value; DocInduction goes up from the parts. *)
(* What is missed below a part is what the part misses itself (MissedPart  *)
(* and the lemmas after it), so that the first part that differs has the   *)
(* first place that is missed (LoopIsRight).                               *)
(***************************************************************************)
EXTENDS Evaluation, SequenceTheorems, FiniteSetTheorems, WellFoundedInduction, TLAPS

-----------------------------------------------------------------------------
(* The inductive invariant.                                                *)

\* Case c of suite i comes before the next one.
Before(i, c) ==
    \/ i < at.suite /\ suites[i].loads
    \/ i = at.suite /\ c < at.case

\* A suite whose cases run is one that loaded.
PlaceInv ==
    at.case # 0 =>
        /\ at.suite <= Len(suites)
        /\ suites[at.suite].loads
        /\ at.case <= Len(suites[at.suite].cases) + 1

Reports(k, i, c) == report[k].suite = i /\ report[k].case = c

\* The report has the cases before the next one, each of them once.
ReportInv ==
    /\ \A k \in DOMAIN report : Before(report[k].suite, report[k].case)
    /\ \A i \in DOMAIN suites : \A c \in DOMAIN suites[i].cases :
         Before(i, c) => \E k \in DOMAIN report : Reports(k, i, c)
    /\ \A k, l \in DOMAIN report :
         report[k].suite = report[l].suite /\ report[k].case = report[l].case => k = l

PassedCases == {k \in DOMAIN report : report[k].passed = TRUE}
FailedCases == {k \in DOMAIN report : report[k].passed = FALSE}
NotLoaded(n) == {i \in DOMAIN suites : i < n /\ ~suites[i].loads}

\* The list of failures is as long as the failures are many.
CountInv ==
    /\ Cardinality(PassedCases) + Cardinality(FailedCases) = Len(report)
    /\ Len(failures) = Cardinality(FailedCases) + Cardinality(NotLoaded(at.suite))

\* How a run ends: with a summary of all, at its start, or before a case.
EndInv ==
    /\ Running => summary = <<>>
    /\ summary # <<>> => at.suite = Len(suites) + 1 /\ summary = Counts(Len(failures))
    /\ exit = 0 => at.suite = Len(suites) + 1 /\ Len(failures) = 0
    /\ exit = 1 =>
         \/ Len(failures) > 0
         \/ at = [suite |-> 1, case |-> 0]
         \/ at.suite <= Len(suites) /\ at.case \in DOMAIN Cases

IInv == TypeOK /\ PlaceInv /\ ReportInv /\ CountInv /\ EndInv

-----------------------------------------------------------------------------
(* Lemmas.                                                                 *)

\* The suites of a command line are records of a verdict and their cases.
LEMMA SuitesAre ==
    ASSUME TypeOK
    PROVE  /\ Len(suites) \in Nat /\ DOMAIN suites = 1 .. Len(suites)
           /\ \A i \in DOMAIN suites :
                /\ suites[i].loads \in BOOLEAN
                /\ suites[i].cases \in Seq(TestCases)
                /\ Len(suites[i].cases) \in Nat
                /\ DOMAIN suites[i].cases = 1 .. Len(suites[i].cases)
  <1> DEFINE Suite == [loads : BOOLEAN, cases : Seq(TestCases)]
  <1>1. suites \in Seq(Suite)
    BY SuitesAssumption DEF TypeOK
  <1>2. Len(suites) \in Nat /\ DOMAIN suites = 1 .. Len(suites)
    BY <1>1, LenProperties
  <1>3. \A i \in DOMAIN suites : suites[i] \in Suite
    <2> HIDE DEF Suite
    <2> QED BY <1>1, <1>2, ElementOfSeq
  <1>4. \A s \in Seq(TestCases) : Len(s) \in Nat /\ DOMAIN s = 1 .. Len(s)
    BY LenProperties
  <1> QED BY <1>2, <1>3, <1>4

\* The next place is a suite of the command line or its end.
LEMMA PlaceIs ==
    ASSUME TypeOK
    PROVE  /\ at = [suite |-> at.suite, case |-> at.case]
           /\ at.suite \in 1 .. Len(suites) + 1 /\ at.suite \in Nat \ {0}
           /\ at.case \in Nat
           /\ at.suite <= Len(suites) => at.suite \in DOMAIN suites
  BY SuitesAre DEF TypeOK

\* What the report has are cases of the command line with their verdict.
LEMMA ReportIs ==
    ASSUME TypeOK
    PROVE  /\ Len(report) \in Nat /\ DOMAIN report = 1 .. Len(report)
           /\ \A k \in DOMAIN report :
                /\ report[k].suite \in DOMAIN suites
                /\ report[k].case \in DOMAIN suites[report[k].suite].cases
                /\ report[k].suite \in Nat /\ report[k].case \in Nat \ {0}
                /\ report[k].passed \in BOOLEAN
  <1> DEFINE Reported == [suite : Nat, case : Nat, result : Results, passed : BOOLEAN,
                          mismatches : Mismatches]
  <1>1. report \in Seq(Reported)
    BY DEF TypeOK
  <1>2. Len(report) \in Nat /\ DOMAIN report = 1 .. Len(report)
    BY <1>1, LenProperties
  <1>3. \A k \in DOMAIN report : report[k] \in Reported
    <2> HIDE DEF Reported
    <2> QED BY <1>1, <1>2, ElementOfSeq
  <1>4. \A k \in DOMAIN report :
          /\ report[k].suite \in DOMAIN suites
          /\ report[k].case \in DOMAIN suites[report[k].suite].cases
    BY DEF TypeOK
  <1>5. \A k \in DOMAIN report : report[k].case # 0
    BY <1>4, SuitesAre
  <1> QED BY <1>2, <1>3, <1>4, <1>5

\* One more of either kind makes one more in all.
LEMMA OneMore ==
    \A p \in Nat, f \in Nat, n \in Nat :
       p + f = n => (p + 1) + f = n + 1 /\ p + (f + 1) = n + 1
  OBVIOUS

\* The sets that are counted are finite.
LEMMA Counted ==
    ASSUME TypeOK
    PROVE  /\ IsFiniteSet(PassedCases) /\ Cardinality(PassedCases) \in Nat
           /\ IsFiniteSet(FailedCases) /\ Cardinality(FailedCases) \in Nat
           /\ \A n : IsFiniteSet(NotLoaded(n)) /\ Cardinality(NotLoaded(n)) \in Nat
  <1>1. IsFiniteSet(DOMAIN report)
    <2>1. Len(report) \in Nat /\ DOMAIN report = 1 .. Len(report)
      BY ReportIs
    <2> QED BY <2>1, FS_Interval
  <1>2. IsFiniteSet(DOMAIN suites)
    <2>1. Len(suites) \in Nat /\ DOMAIN suites = 1 .. Len(suites)
      BY SuitesAre
    <2> QED BY <2>1, FS_Interval
  <1>3. PassedCases \in SUBSET DOMAIN report /\ FailedCases \in SUBSET DOMAIN report
    BY DEF PassedCases, FailedCases
  <1>4. IsFiniteSet(PassedCases) /\ IsFiniteSet(FailedCases)
    BY <1>1, <1>3, FS_Subset
  <1>5. ASSUME NEW n PROVE IsFiniteSet(NotLoaded(n))
    <2>1. NotLoaded(n) \in SUBSET DOMAIN suites
      BY DEF NotLoaded
    <2> QED BY <1>2, <2>1, FS_Subset
  <1>6. \A n : IsFiniteSet(NotLoaded(n)) /\ Cardinality(NotLoaded(n)) \in Nat
    BY <1>5, FS_CardinalityType
  <1> QED BY <1>4, <1>6, FS_CardinalityType

-----------------------------------------------------------------------------
(* The invariant holds at first and is preserved by each action.           *)

\* Nothing is run and nothing is counted.
LEMMA InitStep == Init => IInv
  <1> SUFFICES ASSUME Init PROVE IInv
    OBVIOUS
  <1>1. suites \in Seq([loads : BOOLEAN, cases : Seq(TestCases)])
    BY SuitesAssumption DEF Init
  <1>2. Len(suites) \in Nat /\ DOMAIN suites = 1 .. Len(suites)
    BY <1>1, LenProperties
  <1>3. Len(report) = 0 /\ Len(failures) = 0 /\ DOMAIN report = {}
    BY EmptySeq DEF Init
  <1>4. /\ failures \in Seq([suite : Nat, case : Nat])
        /\ report \in Seq([suite : Nat, case : Nat, result : Results, passed : BOOLEAN,
                           mismatches : Mismatches])
    BY EmptySeq DEF Init
  <1>5. at \in [suite : 1 .. Len(suites) + 1, case : Nat]
    BY <1>2 DEF Init
  <1>6. TypeOK
    BY <1>3, <1>4, <1>5 DEF Init, TypeOK
  <1>7. PlaceInv /\ ReportInv
    <2>1. \A i, c : i \in DOMAIN suites /\ c \in DOMAIN suites[i].cases => ~Before(i, c)
      BY <1>6, SuitesAre DEF Init, Before
    <2> QED BY <1>3, <2>1 DEF Init, PlaceInv, ReportInv
  <1>8. CountInv
    <2>1. PassedCases = {} /\ FailedCases = {}
      BY <1>3 DEF PassedCases, FailedCases
    <2>2. NotLoaded(at.suite) = {}
      BY <1>2 DEF Init, NotLoaded
    <2>3. Cardinality(PassedCases) = 0 /\ Cardinality(FailedCases) = 0
          /\ Cardinality(NotLoaded(at.suite)) = 0
      BY <2>1, <2>2, FS_EmptySet
    <2> QED BY <1>3, <2>3 DEF CountInv
  <1>9. EndInv
    BY DEF Init, EndInv, Running
  <1> QED BY <1>6, <1>7, <1>8, <1>9 DEF IInv

\* A step that leaves the place, the report and the failures alone keeps what
\* is said of them.
LEMMA KeepsProgress ==
    ASSUME IInv, UNCHANGED <<suites, at, casesRun, failures, report>>
    PROVE  PlaceInv' /\ ReportInv' /\ CountInv'
  <1>1. PlaceInv'
    BY DEF IInv, PlaceInv
  <1>2. ReportInv'
    BY DEF IInv, ReportInv, Reports, Before
  <1>3. CountInv'
    BY DEF IInv, CountInv, PassedCases, FailedCases, NotLoaded
  <1> QED BY <1>1, <1>2, <1>3

\* The run does not start, or is interrupted before a case.
LEMMA StopStep ==
    ASSUME IInv, FailToStart \/ Abort
    PROVE  IInv'
  <1>1. UNCHANGED <<suites, at, ctxDone, casesRun, failures, report, summary>> /\ Running
    BY DEF FailToStart, Abort, AtCase
  <1>2. exit' = 1
    <2>1. Len(failures) + 1 > 0
      BY LenProperties DEF IInv, TypeOK
    <2> QED BY <2>1 DEF FailToStart, Abort, ExitCode
  <1>3. TypeOK'
    BY <1>1, <1>2 DEF IInv, TypeOK
  <1>4. PlaceInv' /\ ReportInv' /\ CountInv'
    BY <1>1, KeepsProgress
  <1>5. summary = <<>>
    BY <1>1 DEF IInv, EndInv
  <1>6. at = [suite |-> 1, case |-> 0] \/ (at.suite <= Len(suites) /\ at.case \in DOMAIN Cases)
    BY DEF FailToStart, Abort, AtCase
  <1>7. EndInv'
    BY <1>1, <1>2, <1>5, <1>6 DEF EndInv, Running, Cases
  <1> QED BY <1>3, <1>4, <1>7 DEF IInv

\* A signal comes, or the run has ended.
LEMMA QuietStep ==
    ASSUME IInv, Signal \/ UNCHANGED vars
    PROVE  IInv'
  <1>1. UNCHANGED <<suites, at, casesRun, failures, report, summary, exit>>
    BY DEF Signal, vars
  <1>2. ctxDone' \in BOOLEAN
    BY DEF Signal, vars, IInv, TypeOK
  <1>3. TypeOK'
    BY <1>1, <1>2 DEF IInv, TypeOK
  <1>4. PlaceInv' /\ ReportInv' /\ CountInv'
    BY <1>1, KeepsProgress
  <1>5. EndInv'
    BY <1>1 DEF IInv, EndInv, Running, Counts, Cases
  <1> QED BY <1>3, <1>4, <1>5 DEF IInv

\* The summary counts what the whole run has counted.
LEMMA SummarizeStep ==
    ASSUME IInv, Summarize
    PROVE  IInv'
  <1> USE DEF Summarize
  <1>1. Len(failures) \in Nat /\ casesRun \in Nat
    BY LenProperties, ReportIs DEF IInv, TypeOK
  <1>2. summary'.passed \in Int /\ summary'.failed \in Nat
    BY <1>1 DEF Counts
  <1>3. exit' \in {-1, 0, 1}
    BY <1>1 DEF ExitCode
  <1>4. TypeOK'
    BY <1>2, <1>3 DEF IInv, TypeOK
  <1>5. PlaceInv' /\ ReportInv' /\ CountInv'
    BY KeepsProgress
  <1>6. EndInv'
    <2>1. exit' # -1
      BY <1>1 DEF ExitCode
    <2>2. exit' = 0 => Len(failures) = 0
      BY <1>1 DEF ExitCode
    <2>3. exit' = 1 => Len(failures) > 0
      BY <1>1 DEF ExitCode
    <2>4. at.suite = Len(suites) + 1 /\ summary' = Counts(Len(failures)) /\ casesRun' = casesRun
      OBVIOUS
    <2> QED BY <2>1, <2>2, <2>3, <2>4 DEF EndInv, Running, Counts
  <1> QED BY <1>4, <1>5, <1>6 DEF IInv

\* A suite that is left is one of which no case is left to run: it did not
\* load, or its last case has run.
LEMMA LeavesSuite ==
    ASSUME IInv, UNCHANGED <<suites, report>>, at' = NextSuite, at.suite \in DOMAIN suites,
           \/ suites[at.suite].loads /\ at.case = Len(Cases) + 1
           \/ ~suites[at.suite].loads /\ at.case = 0
    PROVE  /\ at' \in [suite : 1 .. Len(suites) + 1, case : Nat]
           /\ PlaceInv' /\ ReportInv'
           /\ NotLoaded(at.suite)' =
                 NotLoaded(at.suite) \cup (IF suites[at.suite].loads THEN {} ELSE {at.suite})
  <1> USE DEF IInv
  <1>1. at'.suite = at.suite + 1 /\ at'.case = 0
    BY DEF NextSuite
  <1>2. at.suite \in 1 .. Len(suites) /\ Len(suites) \in Nat /\ DOMAIN suites = 1 .. Len(suites)
    BY SuitesAre
  <1>3. at' \in [suite : 1 .. Len(suites) + 1, case : Nat]
    BY <1>2 DEF NextSuite
  <1>4. PlaceInv'
    BY <1>1 DEF PlaceInv
  <1>5. ASSUME NEW i \in DOMAIN suites, NEW c \in DOMAIN suites[i].cases
        PROVE  Before(i, c)' <=> Before(i, c)
    <2>1. c \in Nat \ {0} /\ c <= Len(suites[i].cases) /\ i \in Nat
      BY SuitesAre
    <2>2. at.case \in Nat
      BY PlaceIs
    <2>3. CASE i = at.suite
      <3>1. c < Len(Cases) + 1
        BY <2>1, <2>3, SuitesAre DEF Cases
      <3> QED BY <1>1, <1>2, <2>1, <2>3, <3>1 DEF Before
    <2>4. CASE i # at.suite
      BY <1>1, <1>2, <2>1, <2>4 DEF Before
    <2> QED BY <2>3, <2>4
  <1>6. ReportInv'
    <2>1. \A k \in DOMAIN report : Before(report[k].suite, report[k].case)'
      BY <1>5, ReportIs DEF ReportInv
    <2>2. \A i \in DOMAIN suites : \A c \in DOMAIN suites[i].cases :
            Before(i, c)' => \E k \in DOMAIN report : Reports(k, i, c)
      BY <1>5 DEF ReportInv
    <2> QED BY <2>1, <2>2 DEF ReportInv, Reports, Before
  <1>7. NotLoaded(at.suite)' =
           NotLoaded(at.suite) \cup (IF suites[at.suite].loads THEN {} ELSE {at.suite})
    BY <1>1, <1>2 DEF NotLoaded
  <1> QED BY <1>3, <1>4, <1>6, <1>7

\* A suite that does not load is one more failure.
LEMMA LoadFailsStep ==
    ASSUME IInv, Load, ~suites[at.suite].loads
    PROVE  IInv'
  <1>1. /\ UNCHANGED <<suites, ctxDone, casesRun, report, summary, exit>>
        /\ at' = NextSuite /\ failures' = Append(failures, at) /\ Running /\ at.case = 0
    BY DEF Load
  <1>2. at.suite \in DOMAIN suites
    BY PlaceIs DEF Load, IInv
  <1>3. /\ at' \in [suite : 1 .. Len(suites) + 1, case : Nat] /\ PlaceInv' /\ ReportInv'
        /\ NotLoaded(at.suite)' = NotLoaded(at.suite) \cup {at.suite}
    BY <1>1, <1>2, LeavesSuite
  <1>4. failures' \in Seq([suite : Nat, case : Nat]) /\ Len(failures') = Len(failures) + 1
    <2>1. at \in [suite : Nat, case : Nat]
      BY PlaceIs DEF IInv
    <2> QED BY <1>1, <2>1, AppendProperties DEF IInv, TypeOK
  <1>5. TypeOK'
    BY <1>1, <1>3, <1>4 DEF IInv, TypeOK
  <1>6. CountInv'
    <2>1. at.suite \notin NotLoaded(at.suite)
      BY PlaceIs DEF NotLoaded, IInv
    <2>2. Cardinality(NotLoaded(at.suite)') = Cardinality(NotLoaded(at.suite)) + 1
      BY <1>3, <2>1, Counted, FS_AddElement DEF IInv
    <2>3. PassedCases' = PassedCases /\ FailedCases' = FailedCases
      BY <1>1 DEF PassedCases, FailedCases
    <2>4. /\ Cardinality(NotLoaded(at.suite)) \in Nat /\ Cardinality(FailedCases) \in Nat
          /\ Len(failures) = Cardinality(FailedCases) + Cardinality(NotLoaded(at.suite))
      BY Counted DEF IInv, CountInv
    <2>5. Len(failures') = Cardinality(FailedCases') + Cardinality(NotLoaded(at.suite)')
      BY <1>4, <2>2, <2>3, <2>4
    <2>6. (Cardinality(PassedCases) + Cardinality(FailedCases) = Len(report))'
      BY <1>1, <2>3 DEF IInv, CountInv
    <2> QED BY <2>5, <2>6 DEF CountInv
  <1>7. EndInv'
    BY <1>1 DEF IInv, EndInv, Running
  <1> QED BY <1>3, <1>5, <1>6, <1>7 DEF IInv

\* The last case of a suite has run.
LEMMA LeaveSuiteStep ==
    ASSUME IInv, LeaveSuite
    PROVE  IInv'
  <1>1. /\ UNCHANGED <<suites, ctxDone, casesRun, failures, report, summary, exit>>
        /\ at' = NextSuite /\ Running /\ at.case = Len(Cases) + 1
    BY DEF LeaveSuite
  <1>2. at.suite \in DOMAIN suites
    BY PlaceIs DEF LeaveSuite, IInv
  <1>3. suites[at.suite].loads
    <2>1. Len(Cases) \in Nat
      BY <1>2, SuitesAre DEF Cases, IInv
    <2> QED BY <1>1, <2>1 DEF IInv, PlaceInv
  <1>4. /\ at' \in [suite : 1 .. Len(suites) + 1, case : Nat] /\ PlaceInv' /\ ReportInv'
        /\ NotLoaded(at.suite)' = NotLoaded(at.suite)
    BY <1>1, <1>2, <1>3, LeavesSuite
  <1>5. TypeOK'
    BY <1>1, <1>4 DEF IInv, TypeOK
  <1>6. CountInv'
    BY <1>1, <1>4 DEF IInv, CountInv, PassedCases, FailedCases
  <1>7. EndInv'
    BY <1>1 DEF IInv, EndInv, Running
  <1> QED BY <1>4, <1>5, <1>6, <1>7 DEF IInv

\* The first case of a suite that loaded is next.
LEMMA LoadsStep ==
    ASSUME IInv, Load, suites[at.suite].loads
    PROVE  IInv'
  <1>1. /\ UNCHANGED <<suites, ctxDone, casesRun, failures, report, summary, exit>>
        /\ at' = [at EXCEPT !.case = 1] /\ Running /\ at.case = 0
    BY DEF Load
  <1>2. at.suite \in DOMAIN suites
    BY PlaceIs DEF Load, IInv
  <1>3. at'.suite = at.suite /\ at'.case = 1 /\ at' \in [suite : 1 .. Len(suites) + 1, case : Nat]
    BY <1>1 DEF IInv, TypeOK
  <1>4. TypeOK'
    BY <1>1, <1>3 DEF IInv, TypeOK
  <1>5. PlaceInv'
    <2>1. at.suite <= Len(suites) /\ 1 <= Len(suites[at.suite].cases) + 1
      BY <1>2, SuitesAre DEF IInv
    <2> QED BY <1>1, <1>3, <2>1 DEF Load, PlaceInv
  <1>6. ReportInv'
    <2>1. ASSUME NEW i \in DOMAIN suites, NEW c \in DOMAIN suites[i].cases
          PROVE  Before(i, c)' <=> Before(i, c)
      <3>1. c \in Nat \ {0}
        BY SuitesAre DEF IInv
      <3> QED BY <1>1, <1>3, <3>1 DEF Before
    <2>2. \A k \in DOMAIN report : Before(report[k].suite, report[k].case)'
      BY <1>1, <2>1, ReportIs DEF IInv, ReportInv
    <2>3. \A i \in DOMAIN suites : \A c \in DOMAIN suites[i].cases :
            Before(i, c)' => \E k \in DOMAIN report : Reports(k, i, c)
      BY <2>1 DEF IInv, ReportInv
    <2> QED BY <1>1, <2>2, <2>3 DEF IInv, ReportInv, Reports, Before
  <1>7. CountInv'
    BY <1>1, <1>3 DEF IInv, CountInv, PassedCases, FailedCases, NotLoaded
  <1>8. EndInv'
    BY <1>1 DEF IInv, EndInv, Running
  <1> QED BY <1>4, <1>5, <1>6, <1>7, <1>8 DEF IInv

\* The case that is next is one of the command line, is not in the report, and
\* its verdict is one of the comparison.
LEMMA CaseIs ==
    ASSUME IInv, AtCase, NEW result \in Results
    PROVE  /\ at.suite \in DOMAIN suites /\ at.case \in DOMAIN Cases
           /\ at.suite \in Nat /\ at.case \in Nat \ {0}
           /\ suites[at.suite].loads /\ at.case <= Len(Cases)
           /\ check(Cases[at.case], result).passed \in BOOLEAN
           /\ check(Cases[at.case], result).mismatches \in Mismatches
           /\ \A k \in DOMAIN report : ~Reports(k, at.suite, at.case)
  <1> USE DEF IInv
  <1>1. at.suite \in DOMAIN suites /\ at.case \in DOMAIN Cases
    BY PlaceIs DEF AtCase
  <1>2. /\ Cases \in Seq(TestCases) /\ Len(Cases) \in Nat /\ DOMAIN Cases = 1 .. Len(Cases)
    BY <1>1, SuitesAre DEF Cases
  <1>3. at.suite \in Nat /\ at.case \in Nat \ {0} /\ at.case <= Len(Cases)
    BY <1>1, <1>2, PlaceIs
  <1>4. suites[at.suite].loads
    BY <1>3 DEF PlaceInv
  <1>5. Cases[at.case] \in TestCases
    BY <1>1, <1>2, ElementOfSeq
  <1>6. check(Cases[at.case], result).passed \in BOOLEAN
    BY <1>5 DEF check
  <1>7. check(Cases[at.case], result).mismatches \in Mismatches
    BY <1>5 DEF Mismatches
  <1>8. ASSUME NEW k \in DOMAIN report, Reports(k, at.suite, at.case)
        PROVE  FALSE
    <2>1. Before(at.suite, at.case)
      BY <1>8 DEF ReportInv, Reports
    <2> QED BY <1>3, <2>1 DEF Before
  <1> QED BY <1>1, <1>3, <1>4, <1>6, <1>7, <1>8

\* A case runs: the report has one more case, and a failed one is one more
\* failure.
LEMMA RunCaseStep ==
    ASSUME IInv, NEW result \in Results, RunCase(result)
    PROVE  IInv'
  <1> DEFINE passed == check(Cases[at.case], result).passed
             mismatches == check(Cases[at.case], result).mismatches
             entry == [suite |-> at.suite, case |-> at.case, result |-> result,
                       passed |-> passed, mismatches |-> mismatches]
             Reported == [suite : Nat, case : Nat, result : Results, passed : BOOLEAN,
                          mismatches : Mismatches]
             last == Len(report) + 1
  <1> HIDE DEF passed, mismatches
  <1>1. /\ UNCHANGED <<suites, ctxDone, summary, exit>> /\ AtCase
        /\ casesRun' = casesRun + 1 /\ report' = Append(report, entry)
        /\ failures' = IF passed THEN failures ELSE Append(failures, at)
        /\ at' = [at EXCEPT !.case = @ + 1]
    BY DEF RunCase, passed, mismatches
  <1>2. /\ at.suite \in DOMAIN suites /\ at.case \in DOMAIN Cases
        /\ at.suite \in Nat /\ at.case \in Nat \ {0}
        /\ suites[at.suite].loads /\ at.case <= Len(Cases)
        /\ \A k \in DOMAIN report : ~Reports(k, at.suite, at.case)
    BY <1>1, CaseIs
  <1>3. passed \in BOOLEAN /\ mismatches \in Mismatches
    BY <1>1, CaseIs DEF passed, mismatches
  <1>4. /\ at'.suite = at.suite /\ at'.case = at.case + 1
        /\ at' \in [suite : 1 .. Len(suites) + 1, case : Nat]
    <2>1. at \in [suite : 1 .. Len(suites) + 1, case : Nat]
      BY DEF IInv, TypeOK
    <2>2. at.case + 1 \in Nat
      BY <1>2
    <2> QED BY <1>1, <2>1, <2>2
  <1>5. entry \in Reported
    BY <1>2, <1>3
  <1>6. report \in Seq(Reported) /\ casesRun = Len(report)
    BY DEF IInv, TypeOK
  <1>7. /\ report' \in Seq(Reported) /\ Len(report') = Len(report) + 1
        /\ report'[last] = entry
        /\ DOMAIN report' = DOMAIN report \cup {last} /\ last \notin DOMAIN report
        /\ \A k \in DOMAIN report : report'[k] = report[k]
    <2> HIDE DEF entry, Reported
    <2>1. Len(report) \in Nat /\ DOMAIN report = 1 .. Len(report)
      BY <1>6, LenProperties
    <2>2. /\ report' \in Seq(Reported) /\ Len(report') = Len(report) + 1
          /\ report'[last] = entry
          /\ \A k \in 1 .. Len(report) : report'[k] = report[k]
      BY <1>1, <1>5, <1>6, AppendProperties
    <2>3. DOMAIN report' = 1 .. Len(report')
      BY <2>2, LenProperties
    <2>4. DOMAIN report' = DOMAIN report \cup {last} /\ last \notin DOMAIN report
      BY <2>1, <2>2, <2>3
    <2> QED BY <2>1, <2>2, <2>4
  <1>8. failures' \in Seq([suite : Nat, case : Nat])
    <2>1. at \in [suite : Nat, case : Nat]
      BY PlaceIs DEF IInv
    <2> QED BY <1>1, <2>1, AppendProperties DEF IInv, TypeOK
  <1>9. TypeOK'
    <2>1. \A i \in DOMAIN report' :
            /\ report'[i].suite \in DOMAIN suites
            /\ report'[i].case \in DOMAIN suites[report'[i].suite].cases
      <3>1. ASSUME NEW i \in DOMAIN report
            PROVE  /\ report'[i].suite \in DOMAIN suites
                   /\ report'[i].case \in DOMAIN suites[report'[i].suite].cases
        <4>1. report'[i] = report[i]
          BY <1>7
        <4>2. /\ report[i].suite \in DOMAIN suites
              /\ report[i].case \in DOMAIN suites[report[i].suite].cases
          BY ReportIs DEF IInv
        <4> QED BY <4>1, <4>2
      <3>2. report'[last].suite = at.suite /\ report'[last].case = at.case
        BY <1>7
      <3>3. at.case \in DOMAIN suites[at.suite].cases
        BY <1>2 DEF Cases
      <3> HIDE DEF last
      <3> QED BY <1>2, <1>7, <3>1, <3>2, <3>3
    <2>2. casesRun' = Len(report')
      <3>1. casesRun' = casesRun + 1 /\ casesRun = Len(report) /\ Len(report') = Len(report) + 1
        BY <1>1, <1>6, <1>7
      <3> QED BY <3>1
    <2> QED BY <1>1, <1>4, <1>7, <1>8, <2>1, <2>2 DEF IInv, TypeOK
  <1>10. PlaceInv'
    <2>1. at.case + 1 <= Len(suites[at.suite].cases) + 1
      <3>1. Len(Cases) \in Nat
        BY <1>2, SuitesAre DEF Cases, IInv
      <3> QED BY <1>2, <3>1 DEF Cases
    <2>2. at.suite <= Len(suites)
      BY <1>1 DEF AtCase
    <2> QED BY <1>1, <1>2, <1>4, <2>1, <2>2 DEF PlaceInv
  <1>11. ReportInv'
    <2>1. ASSUME NEW i \in DOMAIN suites, NEW c \in DOMAIN suites[i].cases
          PROVE  Before(i, c)' <=> Before(i, c) \/ (i = at.suite /\ c = at.case)
      <3>1. c \in Nat
        BY SuitesAre DEF IInv
      <3> QED BY <1>1, <1>2, <1>4, <3>1 DEF Before
    <2>2. ASSUME NEW k \in DOMAIN report'
          PROVE  \/ report'[k].suite < at.suite /\ suites[report'[k].suite].loads
                 \/ report'[k].suite = at.suite /\ report'[k].case < at.case + 1
      <3>1. CASE k = last
        BY <1>2, <1>7, <3>1
      <3>2. CASE k \in DOMAIN report
        <4>1. /\ report'[k] = report[k] /\ Before(report[k].suite, report[k].case)
              /\ report[k].case \in Nat
          BY <1>7, <3>2, ReportIs DEF IInv, ReportInv
        <4> QED BY <1>2, <4>1 DEF Before
      <3> QED BY <1>7, <3>1, <3>2
    <2>3. ASSUME NEW i \in DOMAIN suites, NEW c \in DOMAIN suites[i].cases, Before(i, c)'
          PROVE  \E k \in DOMAIN report' : Reports(k, i, c)'
      <3>1. CASE i = at.suite /\ c = at.case
        BY <1>7, <3>1 DEF Reports
      <3>2. CASE Before(i, c)
        BY <1>7, <3>2 DEF Reports, IInv, ReportInv
      <3> QED BY <2>1, <2>3, <3>1, <3>2
    <2>4. ASSUME NEW k \in DOMAIN report', NEW l \in DOMAIN report',
                 report'[k].suite = report'[l].suite, report'[k].case = report'[l].case
          PROVE  k = l
      BY <1>2, <1>7, <2>4 DEF Reports, IInv, ReportInv
    <2>5. (\A k \in DOMAIN report : Before(report[k].suite, report[k].case))'
      BY <1>1, <1>4, <2>2 DEF Before
    <2> QED BY <1>1, <2>3, <2>4, <2>5 DEF ReportInv
  <1>12. CountInv'
    <2>1. /\ Cardinality(PassedCases) \in Nat /\ Cardinality(FailedCases) \in Nat
          /\ Cardinality(NotLoaded(at.suite)) \in Nat /\ Len(report) \in Nat
          /\ Cardinality(PassedCases) + Cardinality(FailedCases) = Len(report)
          /\ Len(failures) = Cardinality(FailedCases) + Cardinality(NotLoaded(at.suite))
      BY Counted, ReportIs DEF IInv, CountInv
    <2>2. NotLoaded(at.suite)' = NotLoaded(at.suite)
      BY <1>1, <1>4 DEF NotLoaded
    <2>3. last \notin PassedCases /\ last \notin FailedCases
      BY <1>7 DEF PassedCases, FailedCases
    <2>4. Len(report') = Len(report) + 1
      BY <1>7
    <2>5. CASE passed
      <3>1. PassedCases' = PassedCases \cup {last} /\ FailedCases' = FailedCases
        BY <1>7, <2>5 DEF PassedCases, FailedCases
      <3>2. Cardinality(PassedCases') = Cardinality(PassedCases) + 1
        BY <2>3, <3>1, Counted, FS_AddElement DEF IInv
      <3>3. failures' = failures
        BY <1>1, <2>5
      <3>4. Cardinality(FailedCases') = Cardinality(FailedCases)
        BY <3>1
      <3>5. Cardinality(PassedCases') + Cardinality(FailedCases') = Len(report')
        <4>1. (Cardinality(PassedCases) + 1) + Cardinality(FailedCases) = Len(report) + 1
          BY <2>1, OneMore, Zenon
        <4> QED BY <2>4, <3>2, <3>4, <4>1, Zenon
      <3>6. Len(failures') = Cardinality(FailedCases') + Cardinality(NotLoaded(at.suite)')
        BY <2>1, <2>2, <3>3, <3>4
      <3> QED BY <3>5, <3>6 DEF CountInv
    <2>6. CASE ~passed
      <3>1. PassedCases' = PassedCases /\ FailedCases' = FailedCases \cup {last}
        BY <1>3, <1>7, <2>6 DEF PassedCases, FailedCases
      <3>2. Cardinality(FailedCases') = Cardinality(FailedCases) + 1
        BY <2>3, <3>1, Counted, FS_AddElement DEF IInv
      <3>3. Len(failures') = Len(failures) + 1
        <4>1. at \in [suite : Nat, case : Nat]
          BY PlaceIs DEF IInv
        <4> QED BY <1>1, <2>6, <4>1, AppendProperties DEF IInv, TypeOK
      <3>4. Cardinality(PassedCases') = Cardinality(PassedCases)
        BY <3>1
      <3>5. Cardinality(PassedCases') + Cardinality(FailedCases') = Len(report')
        <4>1. Cardinality(PassedCases) + (Cardinality(FailedCases) + 1) = Len(report) + 1
          BY <2>1, OneMore, Zenon
        <4> QED BY <2>4, <3>2, <3>4, <4>1, Zenon
      <3>6. Len(failures') = Cardinality(FailedCases') + Cardinality(NotLoaded(at.suite)')
        BY <2>1, <2>2, <3>2, <3>3
      <3> QED BY <3>5, <3>6 DEF CountInv
    <2> QED BY <2>5, <2>6
  <1>13. EndInv'
    BY <1>1 DEF AtCase, IInv, EndInv, Running
  <1> QED BY <1>9, <1>10, <1>11, <1>12, <1>13 DEF IInv

\* The invariant holds throughout a run.
THEOREM Inductive == Spec => []IInv
  <1>1. Init => IInv
    BY InitStep
  <1>2. IInv /\ [Next]_vars => IInv'
    <2> SUFFICES ASSUME IInv, [Next]_vars PROVE IInv'
      OBVIOUS
    <2>1. CASE FailToStart \/ Abort
      BY <2>1, StopStep
    <2>2. CASE Load
      BY <2>2, LoadsStep, LoadFailsStep
    <2>3. CASE LeaveSuite
      BY <2>3, LeaveSuiteStep
    <2>4. CASE Summarize
      BY <2>4, SummarizeStep
    <2>5. CASE Signal \/ UNCHANGED vars
      BY <2>5, QuietStep
    <2>6. ASSUME NEW result \in Results, RunCase(result)
          PROVE  IInv'
      BY <2>6, RunCaseStep
    <2> QED BY <2>1, <2>2, <2>3, <2>4, <2>5, <2>6 DEF Next, Ended
  <1> QED BY <1>1, <1>2, PTL DEF Spec

-----------------------------------------------------------------------------
(* The theorems.                                                           *)

\* The place, the report and the list of failures are what the code's types
\* say, and the report names cases of the command line (eval.go, runEval).
THEOREM Typing == Spec => []TypeOK
  <1>1. IInv => TypeOK
    BY DEF IInv
  <1> QED BY <1>1, Inductive, PTL

\* Exit code 0 means that every case of every suite ran and passed, and a
\* command line of which every case passed ends with 0, unless it has none
\* and the runner did not start (runEval, and Runner.Run of eval.go).
THEOREM ExitIsRight == Spec => []ExitTellsAll
  <1> DEFINE PassedIn(i, c) == \E k \in DOMAIN report : Reports(k, i, c) /\ report[k].passed
             AllPassed == \A i \in DOMAIN suites :
                            suites[i].loads /\ \A c \in DOMAIN suites[i].cases : PassedIn(i, c)
             NoCase == \A i \in DOMAIN suites : suites[i].loads /\ suites[i].cases = <<>>
  <1>1. ASSUME IInv, exit = 0 PROVE AllPassed
    <2>1. /\ at.suite = Len(suites) + 1 /\ Len(failures) = 0
          /\ DOMAIN suites = 1 .. Len(suites) /\ Len(suites) \in Nat
      BY <1>1, SuitesAre DEF IInv, EndInv
    <2>2. /\ Cardinality(FailedCases) \in Nat /\ Cardinality(NotLoaded(at.suite)) \in Nat
          /\ Len(failures) = Cardinality(FailedCases) + Cardinality(NotLoaded(at.suite))
      BY <1>1, Counted DEF IInv, CountInv
    <2>3. Cardinality(FailedCases) = 0 /\ Cardinality(NotLoaded(at.suite)) = 0
      BY <2>1, <2>2
    <2>4. FailedCases = {} /\ NotLoaded(at.suite) = {}
      BY <1>1, <2>3, Counted, FS_EmptySet DEF IInv
    <2>5. \A i \in DOMAIN suites : suites[i].loads
      BY <2>1, <2>4 DEF NotLoaded
    <2>6. \A k \in DOMAIN report : report[k].passed
      BY <1>1, <2>4, ReportIs DEF FailedCases, IInv
    <2>7. ASSUME NEW i \in DOMAIN suites, NEW c \in DOMAIN suites[i].cases
          PROVE  PassedIn(i, c)
      <3>1. Before(i, c)
        BY <2>1, <2>5 DEF Before
      <3> QED BY <1>1, <2>6, <3>1 DEF IInv, ReportInv
    <2> QED BY <2>5, <2>7
  <1>2. ASSUME IInv, exit = 1, AllPassed PROVE NoCase
    <2>1. Len(failures) = 0
      <3>1. NotLoaded(at.suite) = {}
        BY <1>2 DEF NotLoaded
      <3>2. ASSUME NEW k \in FailedCases PROVE FALSE
        <4>1. k \in DOMAIN report /\ report[k].passed = FALSE
          BY DEF FailedCases
        <4>2. PassedIn(report[k].suite, report[k].case)
          BY <1>2, <4>1, ReportIs DEF IInv
        <4>3. PICK l \in DOMAIN report : Reports(l, report[k].suite, report[k].case) /\ report[l].passed
          BY <4>2
        <4>4. k = l
          BY <1>2, <4>1, <4>3 DEF IInv, ReportInv, Reports
        <4> QED BY <4>1, <4>3, <4>4
      <3>3. FailedCases = {}
        BY <3>2
      <3>4. Cardinality(FailedCases) = 0 /\ Cardinality(NotLoaded(at.suite)) = 0
        BY <3>1, <3>3, FS_EmptySet
      <3>5. Len(failures) = Cardinality(FailedCases) + Cardinality(NotLoaded(at.suite))
        BY <1>2 DEF IInv, CountInv
      <3> QED BY <3>4, <3>5
    <2>2. \/ at = [suite |-> 1, case |-> 0]
          \/ at.suite <= Len(suites) /\ at.case \in DOMAIN Cases
      BY <1>2, <2>1 DEF IInv, EndInv
    <2>3. CASE at = [suite |-> 1, case |-> 0]
      <3>1. ASSUME NEW i \in DOMAIN suites, NEW c \in DOMAIN suites[i].cases
            PROVE  FALSE
        <4>1. i \in Nat \ {0} /\ c \in Nat \ {0}
          BY <1>2, SuitesAre DEF IInv
        <4>2. PICK k \in DOMAIN report : Reports(k, i, c)
          BY <1>2
        <4>3. Before(i, c)
          BY <1>2, <4>2 DEF IInv, ReportInv, Reports
        <4> QED BY <2>3, <4>1, <4>3 DEF Before
      <3>2. ASSUME NEW i \in DOMAIN suites PROVE suites[i].cases = <<>>
        <4>1. /\ suites[i].cases \in Seq(TestCases) /\ Len(suites[i].cases) \in Nat
              /\ DOMAIN suites[i].cases = 1 .. Len(suites[i].cases)
          BY <1>2, SuitesAre DEF IInv
        <4>2. ASSUME Len(suites[i].cases) # 0 PROVE FALSE
          <5>1. 1 \in 1 .. Len(suites[i].cases)
            BY <4>1, <4>2
          <5> QED BY <3>1, <4>1, <5>1
        <4> QED BY <4>1, <4>2, EmptySeq
      <3> QED BY <1>2, <3>2
    <2>4. CASE at.suite <= Len(suites) /\ at.case \in DOMAIN Cases
      <3>1. at.suite \in DOMAIN suites /\ at.suite \in Nat
        BY <1>2, <2>4, PlaceIs DEF IInv
      <3>2. PICK k \in DOMAIN report : Reports(k, at.suite, at.case)
        BY <1>2, <2>4, <3>1 DEF Cases
      <3>3. Before(at.suite, at.case)
        BY <1>2, <3>2 DEF IInv, ReportInv, Reports
      <3> QED BY <1>2, <3>1, <3>3, PlaceIs DEF Before, IInv
    <2> QED BY <2>2, <2>3, <2>4
  <1>3. IInv => ExitTellsAll
    <2> SUFFICES ASSUME IInv PROVE ExitTellsAll
      OBVIOUS
    <2>1. exit \in {-1, 0, 1}
      BY DEF IInv, TypeOK
    <2>2. exit = 0 => AllPassed
      BY <1>1
    <2>3. exit = 1 /\ AllPassed => NoCase
      BY <1>2
    <2> QED BY <2>1, <2>2, <2>3 DEF ExitTellsAll, Running, Reports
  <1> QED BY <1>3, Inductive, PTL

\* The counts of the last line: as many failed as there are failed cases and
\* suites that did not load, and the others of the cases passed (Runner.Run).
THEOREM SummaryCounts == Spec => []SummaryIsRight
  <1>1. IInv => SummaryIsRight
    <2> SUFFICES ASSUME IInv, summary # <<>> PROVE SummaryIsRight
      BY DEF SummaryIsRight
    <2> DEFINE unloaded == {i \in DOMAIN suites : ~suites[i].loads}
    <2>1. at.suite = Len(suites) + 1 /\ summary = Counts(Len(failures))
      BY DEF IInv, EndInv
    <2>2. NotLoaded(at.suite) = unloaded
      BY <2>1, SuitesAre DEF NotLoaded, IInv
    <2>3. /\ Cardinality(PassedCases) \in Nat /\ Cardinality(FailedCases) \in Nat
          /\ Cardinality(unloaded) \in Nat
          /\ Cardinality(PassedCases) + Cardinality(FailedCases) = Len(report)
          /\ Len(failures) = Cardinality(FailedCases) + Cardinality(unloaded)
          /\ casesRun = Len(report)
      BY <2>2, Counted DEF IInv, CountInv, TypeOK
    <2>4. summary.failed = Cardinality(FailedCases) + Cardinality(unloaded)
      BY <2>1, <2>3 DEF Counts
    <2>5. summary.passed = Cardinality(PassedCases) - Cardinality(unloaded)
      BY <2>1, <2>3 DEF Counts
    <2> QED BY <2>4, <2>5 DEF SummaryIsRight, PassedCases, FailedCases
  <1> QED BY <1>1, Inductive, PTL

-----------------------------------------------------------------------------
(* Induction and recursion over ranked values.                             *)

\* A set of numbers that is not empty has a least one.
LEMMA LeastExists ==
    ASSUME NEW S \in SUBSET Nat, S # {}
    PROVE  \E i \in S : \A j \in S : i <= j
  <1> DEFINE Less == {p \in Nat \X Nat : p[1] < p[2]}
  <1>1. PICK i \in S : \A j \in S : <<j, i>> \notin Less
    <2>1. IsWellFoundedOn(Less, Nat)
      BY NatLessThanWellFounded DEF OpToRel
    <2> HIDE DEF Less
    <2> QED BY <2>1, WFMin
  <1>2. ASSUME NEW j \in S PROVE i <= j
    <2>1. <<j, i>> \in Nat \X Nat /\ <<j, i>>[1] = j /\ <<j, i>>[2] = i
      OBVIOUS
    <2> QED BY <1>1, <2>1
  <1> QED BY <1>2

\* The same for Min.
LEMMA MinIs ==
    ASSUME NEW S \in SUBSET Nat, S # {}
    PROVE  Min(S) \in S /\ \A j \in S : Min(S) <= j
  BY LeastExists DEF Min

\* Induction over ranked values, for a set in place of a predicate: what holds
\* for a value when it holds for all values of lower rank holds for all.
LEMMA RankInduction ==
    ASSUME NEW D, NEW rank \in [D -> Nat], NEW G,
           \A w \in D : (\A v \in D : rank[v] < rank[w] => v \in G) => w \in G
    PROVE  D \subseteq G
  <1> DEFINE Ranks == {rank[w] : w \in D \ G}
  <1> SUFFICES ASSUME Ranks # {} PROVE FALSE
    OBVIOUS
  <1>1. PICK n \in Ranks : \A m \in Ranks : n <= m
    <2>1. Ranks \in SUBSET Nat
      OBVIOUS
    <2> HIDE DEF Ranks
    <2> QED BY <2>1, LeastExists
  <1>2. PICK w \in D \ G : n = rank[w]
    OBVIOUS
  <1>3. ASSUME NEW v \in D, rank[v] < rank[w] PROVE v \in G
    <2>1. rank[v] \in Nat /\ rank[w] \in Nat
      OBVIOUS
    <2> QED BY <1>1, <1>2, <1>3, <2>1
  <1> QED BY <1>2, <1>3

\* Recursion over ranked values: Entries gives each entry from a table, and
\* looks only at the entries of lower rank.
IsRecursion(D, V, rank, Entries) ==
    /\ V # {} /\ rank \in [D -> Nat] /\ Entries \in [D -> [[D -> V] -> V]]
    /\ \A w \in D : \A f, g \in [D -> V] :
         (\A v \in D : rank[v] < rank[w] => f[v] = g[v]) => Entries[w][f] = Entries[w][g]

HasTable(D, V, Entries) == \E f \in [D -> V] : \A w \in D : f[w] = Entries[w][f]

\* Then there is a table with these entries.
LEMMA RankRecursion ==
    ASSUME NEW D, NEW V, NEW rank, NEW Entries, IsRecursion(D, V, rank, Entries)
    PROVE  HasTable(D, V, Entries)
  <1>a. /\ V # {} /\ rank \in [D -> Nat] /\ Entries \in [D -> [[D -> V] -> V]]
        /\ \A w \in D : \A f, g \in [D -> V] :
             (\A v \in D : rank[v] < rank[w] => f[v] = g[v]) => Entries[w][f] = Entries[w][g]
    BY DEF IsRecursion
  <1>b. PICK e \in V : TRUE
    BY <1>a
  <1> USE <1>a, <1>b
  <1> DEFINE Good(f, n) == \A w \in D : rank[w] < n => f[w] = Entries[w][f]
             Nats == [n \in Nat |-> n]
             Some == {n \in Nat : \E f \in [D -> V] : Good(f, n)}
             Agree(f, g) == {w \in D : f[w] = g[w]}
  <1>1. ASSUME NEW w \in D, NEW f \in [D -> V] PROVE Entries[w][f] \in V
    OBVIOUS
  <1>2. \A n \in Nat : \E f \in [D -> V] : Good(f, n)
    <2>1. ASSUME NEW n \in Nat, \A m \in Nat : m < n => \E f \in [D -> V] : Good(f, m)
          PROVE  \E f \in [D -> V] : Good(f, n)
      <3>1. CASE n = 0
        <4>1. [w \in D |-> e] \in [D -> V] /\ Good([w \in D |-> e], 0)
          OBVIOUS
        <4> QED BY <3>1, <4>1
      <3>2. CASE n # 0
        <4>1. n - 1 \in Nat /\ n - 1 < n
          BY <3>2
        <4>2. PICK g \in [D -> V] : Good(g, n - 1)
          <5> HIDE DEF Good
          <5> QED BY <2>1, <4>1
        <4> DEFINE f == [w \in D |-> Entries[w][g]]
        <4>3. f \in [D -> V]
          BY <1>1
        <4>4. ASSUME NEW w \in D, rank[w] < n PROVE f[w] = Entries[w][f]
          <5>1. ASSUME NEW v \in D, rank[v] < rank[w] PROVE g[v] = f[v]
            <6>1. rank[v] \in Nat /\ rank[w] \in Nat
              OBVIOUS
            <6>2. rank[v] < n - 1
              BY <4>4, <5>1, <6>1
            <6> QED BY <4>2, <6>2
          <5>2. Entries[w][g] = Entries[w][f]
            <6> HIDE DEF f
            <6> QED BY <4>3, <5>1
          <5> QED BY <5>2
        <4> QED BY <4>3, <4>4
      <3> QED BY <3>1, <3>2
    <2>2. Nats \in [Nat -> Nat]
      OBVIOUS
    <2>3. \A n \in Nat : (\A m \in Nat : Nats[m] < Nats[n] => m \in Some) => n \in Some
      <3> HIDE DEF Good
      <3> QED BY <2>1
    <2> HIDE DEF Nats, Some
    <2>4. Nat \subseteq Some
      BY <2>2, <2>3, RankInduction
    <2> QED BY <2>4 DEF Some
  <1>3. ASSUME NEW f \in [D -> V], NEW g \in [D -> V], NEW n \in Nat, Good(f, n), Good(g, n)
        PROVE  \A w \in D : rank[w] < n => f[w] = g[w]
    <2> DEFINE G == {w \in D : rank[w] < n => f[w] = g[w]}
    <2>1. ASSUME NEW w \in D, \A v \in D : rank[v] < rank[w] => v \in G PROVE w \in G
      <3> SUFFICES ASSUME rank[w] < n PROVE f[w] = g[w]
        OBVIOUS
      <3>1. ASSUME NEW v \in D, rank[v] < rank[w] PROVE f[v] = g[v]
        <4>1. rank[v] \in Nat /\ rank[w] \in Nat
          OBVIOUS
        <4>2. rank[v] < n
          BY <3>1, <4>1
        <4> QED BY <2>1, <3>1, <4>2
      <3>2. Entries[w][f] = Entries[w][g]
        BY <3>1
      <3>3. f[w] = Entries[w][f] /\ g[w] = Entries[w][g]
        BY <1>3
      <3> QED BY <3>2, <3>3
    <2> HIDE DEF G
    <2>2. D \subseteq G
      BY <2>1, RankInduction
    <2> QED BY <2>2 DEF G
  <1> HIDE DEF Good
  <1> DEFINE upto(n) == CHOOSE f \in [D -> V] : Good(f, n)
             f == [w \in D |-> upto(rank[w] + 1)[w]]
  <1>4. ASSUME NEW n \in Nat PROVE upto(n) \in [D -> V] /\ Good(upto(n), n)
    BY <1>2
  <1>5. ASSUME NEW n \in Nat, NEW m \in Nat, n <= m, NEW w \in D, rank[w] < n
        PROVE  upto(n)[w] = upto(m)[w]
    <2>1. Good(upto(m), n)
      <3>1. \A v \in D : rank[v] < n => rank[v] < m
        BY <1>5
      <3>2. Good(upto(m), m)
        BY <1>4
      <3> HIDE DEF upto
      <3> QED BY <3>1, <3>2 DEF Good
    <2>2. Good(upto(n), n) /\ upto(n) \in [D -> V] /\ upto(m) \in [D -> V]
      BY <1>4
    <2> HIDE DEF upto
    <2> QED BY <1>3, <1>5, <2>1, <2>2
  <1>6. \A w \in D : rank[w] \in Nat /\ rank[w] + 1 \in Nat /\ rank[w] < rank[w] + 1
    OBVIOUS
  <1> HIDE DEF upto
  <1>7. f \in [D -> V]
    BY <1>4, <1>6
  <1>8. ASSUME NEW w \in D PROVE f[w] = Entries[w][f]
    <2> DEFINE u == upto(rank[w] + 1)
    <2>1. u \in [D -> V] /\ Good(u, rank[w] + 1)
      BY <1>4, <1>6
    <2>2. u[w] = Entries[w][u]
      BY <1>6, <2>1 DEF Good
    <2>3. ASSUME NEW v \in D, rank[v] < rank[w] PROVE u[v] = f[v]
      <3>1. rank[v] + 1 <= rank[w] + 1
        BY <1>6, <2>3
      <3>2. upto(rank[v] + 1)[v] = upto(rank[w] + 1)[v]
        BY <1>5, <1>6, <3>1
      <3> QED BY <3>2
    <2>4. f[w] = u[w]
      OBVIOUS
    <2> HIDE DEF f, u
    <2> QED BY <1>7, <2>1, <2>2, <2>3, <2>4
  <1> QED BY <1>7, <1>8 DEF HasTable

-----------------------------------------------------------------------------
(* What a value is made of, and induction over values.                     *)

\* What a value is made of.
LEMMA DocIs ==
    ASSUME NEW doc \in Docs
    PROVE  /\ depth[doc] \in Nat
           /\ HasParts(doc) => /\ DOMAIN doc.parts \subseteq Nat
                               /\ \A k \in DOMAIN doc.parts :
                                    doc.parts[k] \in Docs /\ depth[doc.parts[k]] < depth[doc]
  BY DocsAssumption DEF HasParts

RankOf == [doc \in Docs |-> depth[doc]]

\* Induction over values: from the parts to the whole.
LEMMA DocInduction ==
    ASSUME NEW G,
           \A doc \in Docs :
              (HasParts(doc) => \A k \in DOMAIN doc.parts : doc.parts[k] \in G) => doc \in G
    PROVE  Docs \subseteq G
  <1>1. RankOf \in [Docs -> Nat] /\ \A doc \in Docs : RankOf[doc] = depth[doc]
    BY DocIs DEF RankOf
  <1>2. \A w \in Docs : (\A v \in Docs : RankOf[v] < RankOf[w] => v \in G) => w \in G
    BY <1>1, DocIs
  <1> QED BY <1>1, <1>2, RankInduction

-----------------------------------------------------------------------------
(* match and Places are the functions that their equations describe.       *)

Reasons == {"", "want", "want absent", "missing", "want an object", "want an array", "want items"}
Mismatch == [path : Seq(Nat), why : Reasons]
Comparisons == [Seq(Nat) -> [Docs -> Mismatch]]

\* The first of some mismatches is one.
LEMMA FirstMismatchType ==
    ASSUME NEW of, DOMAIN of \subseteq Nat, \A k \in DOMAIN of : of[k] \in Mismatch
    PROVE  FirstMismatch(of) \in Mismatch
  <1> DEFINE differing == {k \in DOMAIN of : of[k] # Same}
  <1>1. Same \in Mismatch
    BY EmptySeq DEF Same, Mismatch, Reasons
  <1>2. CASE differing # {}
    <2>1. Min(differing) \in differing
      BY <1>2, MinIs
    <2> QED BY <1>2, <2>1 DEF FirstMismatch
  <1> QED BY <1>1, <1>2 DEF FirstMismatch

\* A comparison of two values gives a mismatch.
LEMMA MatchValueType ==
    ASSUME NEW inner \in [Docs -> Comparisons], NEW want \in Docs, NEW got \in Docs,
           NEW path \in Seq(Nat)
    PROVE  matchValue(inner, path, want, got) \in Mismatch
  <1>1. \A p \in Seq(Nat) :
           /\ Differs(p, "want") \in Mismatch /\ Differs(p, "want absent") \in Mismatch
           /\ Differs(p, "missing") \in Mismatch /\ Differs(p, "want an object") \in Mismatch
           /\ Differs(p, "want an array") \in Mismatch /\ Differs(p, "want items") \in Mismatch
    BY DEF Differs, Mismatch, Reasons
  <1>2. Same \in Mismatch
    BY EmptySeq DEF Same, Mismatch, Reasons
  <1>3. \A w \in Docs, p \in Seq(Nat), g \in Docs : inner[w][p][g] \in Mismatch
    BY DEF Comparisons
  <1>4. \A k \in Nat : Append(path, k) \in Seq(Nat)
    BY AppendProperties
  <1>5. HasParts(want) => /\ DOMAIN want.parts \subseteq Nat
                          /\ \A k \in DOMAIN want.parts : want.parts[k] \in Docs
    BY DocIs
  <1>6. HasParts(got) => \A k \in DOMAIN got.parts : got.parts[k] \in Docs
    BY DocIs
  <1>7. CASE want.kind = "object"
    <2>1. ASSUME NEW k \in DOMAIN want.parts, got.kind = "object"
          PROVE  matchKey(inner, Append(path, k), want.parts[k], k, got) \in Mismatch
      <3>1. k \in Nat /\ want.parts[k] \in Docs /\ Append(path, k) \in Seq(Nat)
        BY <1>4, <1>5, <1>7 DEF HasParts
      <3>2. k \in DOMAIN got.parts => got.parts[k] \in Docs
        BY <1>6, <2>1 DEF HasParts
      <3>3. k \in DOMAIN got.parts =>
              inner[want.parts[k]][Append(path, k)][got.parts[k]] \in Mismatch
        BY <1>3, <3>1, <3>2
      <3> QED BY <1>1, <1>2, <3>1, <3>3 DEF matchKey
    <2> DEFINE of == [k \in DOMAIN want.parts |->
                        matchKey(inner, Append(path, k), want.parts[k], k, got)]
    <2>2. got.kind = "object" => FirstMismatch(of) \in Mismatch
      BY <1>5, <1>7, <2>1, FirstMismatchType DEF HasParts
    <2>3. matchObject(inner, path, want, got) \in Mismatch
      BY <1>1, <2>2 DEF matchObject
    <2> QED BY <1>7, <2>3 DEF matchValue
  <1>8. CASE want.kind = "array"
    <2> DEFINE of == [i \in DOMAIN want.parts |->
                        inner[want.parts[i]][Append(path, i)][got.parts[i]]]
    <2>1. ASSUME got.kind = "array", Len(got.parts) = Len(want.parts)
          PROVE  \A i \in DOMAIN want.parts : of[i] \in Mismatch
      <3>1. DOMAIN got.parts = DOMAIN want.parts
        BY <1>8, <2>1, DocsAssumption
      <3> QED BY <1>3, <1>4, <1>5, <1>6, <1>8, <2>1, <3>1 DEF HasParts
    <2>2. got.kind = "array" /\ Len(got.parts) = Len(want.parts) => FirstMismatch(of) \in Mismatch
      BY <1>5, <1>8, <2>1, FirstMismatchType DEF HasParts
    <2>3. matchArray(inner, path, want, got) \in Mismatch
      BY <1>1, <2>2 DEF matchArray
    <2> QED BY <1>8, <2>3 DEF matchValue
  <1> QED BY <1>1, <1>2, <1>7, <1>8 DEF matchValue, matchNumber

\* A comparison depends on those of the parts only.
LEMMA MatchValueLocal ==
    ASSUME NEW f, NEW g, NEW want \in Docs, NEW got \in Docs, NEW path \in Seq(Nat),
           HasParts(want) => \A k \in DOMAIN want.parts : f[want.parts[k]] = g[want.parts[k]]
    PROVE  matchValue(f, path, want, got) = matchValue(g, path, want, got)
  <1>1. CASE want.kind = "object"
    <2>1. \A k \in DOMAIN want.parts :
             matchKey(f, Append(path, k), want.parts[k], k, got)
           = matchKey(g, Append(path, k), want.parts[k], k, got)
      BY <1>1 DEF matchKey, HasParts
    <2>2. [k \in DOMAIN want.parts |-> matchKey(f, Append(path, k), want.parts[k], k, got)]
        = [k \in DOMAIN want.parts |-> matchKey(g, Append(path, k), want.parts[k], k, got)]
      BY <2>1
    <2> QED BY <1>1, <2>2 DEF matchValue, matchObject
  <1>2. CASE want.kind = "array"
    <2>1. [i \in DOMAIN want.parts |-> f[want.parts[i]][Append(path, i)][got.parts[i]]]
        = [i \in DOMAIN want.parts |-> g[want.parts[i]][Append(path, i)][got.parts[i]]]
      BY <1>2 DEF HasParts
    <2> QED BY <1>2, <2>1 DEF matchValue, matchArray
  <1> QED BY <1>1, <1>2 DEF matchValue

\* match satisfies its equation: it is matchValue, given itself for the parts.
LEMMA MatchIs ==
    \A want \in Docs, path \in Seq(Nat), got \in Docs :
       match[want][path][got] = matchValue(match, path, want, got)
  <1> DEFINE Entry(f, w) == [p \in Seq(Nat) |-> [g \in Docs |-> matchValue(f, p, w, g)]]
             Table(f) == f = [w \in Docs |-> Entry(f, w)]
             Entries == [w \in Docs |-> [f \in [Docs -> Comparisons] |-> Entry(f, w)]]
             Nothing == [p \in Seq(Nat) |-> [g \in Docs |-> Same]]
  <1>1. ASSUME NEW w \in Docs, NEW f \in [Docs -> Comparisons] PROVE Entry(f, w) \in Comparisons
    BY MatchValueType DEF Comparisons
  <1>2. Nothing \in Comparisons
    BY EmptySeq DEF Comparisons, Mismatch, Same, Reasons
  <1>3. ASSUME NEW w \in Docs, NEW f, NEW g,
               HasParts(w) => \A k \in DOMAIN w.parts : f[w.parts[k]] = g[w.parts[k]]
        PROVE  Entry(f, w) = Entry(g, w)
    <2>1. ASSUME NEW p \in Seq(Nat)
          PROVE  [d \in Docs |-> matchValue(f, p, w, d)] = [d \in Docs |-> matchValue(g, p, w, d)]
      <3>1. ASSUME NEW d \in Docs PROVE matchValue(f, p, w, d) = matchValue(g, p, w, d)
        BY <1>3, MatchValueLocal
      <3> QED BY <3>1
    <2> QED BY <2>1
  <1>4. RankOf \in [Docs -> Nat] /\ \A doc \in Docs : RankOf[doc] = depth[doc]
    BY DocIs DEF RankOf
  <1> HIDE DEF Entry, Nothing
  <1>5. Entries \in [Docs -> [[Docs -> Comparisons] -> Comparisons]]
    BY <1>1
  <1>6. ASSUME NEW w \in Docs, NEW f \in [Docs -> Comparisons], NEW g \in [Docs -> Comparisons],
               \A v \in Docs : RankOf[v] < RankOf[w] => f[v] = g[v]
        PROVE  Entries[w][f] = Entries[w][g]
    <2>1. Entry(f, w) = Entry(g, w)
      BY <1>3, <1>4, <1>6, DocIs
    <2> QED BY <2>1
  <1>7. \A w \in Docs, f \in [Docs -> Comparisons] : Entries[w][f] = Entry(f, w)
    OBVIOUS
  <1> HIDE DEF Entries
  <1>8. PICK f \in [Docs -> Comparisons] : \A w \in Docs : f[w] = Entries[w][f]
    <2>1. \A w \in Docs : \A f, g \in [Docs -> Comparisons] :
            (\A v \in Docs : RankOf[v] < RankOf[w] => f[v] = g[v]) => Entries[w][f] = Entries[w][g]
      BY <1>6
    <2>2. IsRecursion(Docs, Comparisons, RankOf, Entries)
      BY <1>2, <1>4, <1>5, <2>1 DEF IsRecursion
    <2>3. HasTable(Docs, Comparisons, Entries)
      BY <2>2, RankRecursion
    <2> QED BY <2>3 DEF HasTable
  <1>9. Table(f)
    BY <1>7, <1>8
  <1>10. Table(match)
    <2>1. match = CHOOSE m : Table(m)
      BY DEF match, Entry
    <2> HIDE DEF Table
    <2> QED BY <1>9, <2>1
  <1>11. \A want \in Docs : match[want] = Entry(match, want)
    BY <1>10
  <1> SUFFICES ASSUME NEW want \in Docs, NEW path \in Seq(Nat), NEW got \in Docs
               PROVE  match[want][path][got] = matchValue(match, path, want, got)
    OBVIOUS
  <1>12. Entry(match, want)[path] = [g \in Docs |-> matchValue(match, path, want, g)]
    BY DEF Entry
  <1> QED BY <1>11, <1>12

\* Places satisfies its equation.
LEMMA PlacesIs ==
    \A doc \in Docs :
       Places[doc] =
             {Place(<<>>, FALSE, doc)} \cup
                IF HasParts(doc)
                THEN UNION {{Within(doc, k, place) : place \in Places[doc.parts[k]]} :
                              k \in DOMAIN doc.parts}
                ELSE {}
  <1> DEFINE PlaceSet == [path : Seq(Nat), isKey : BOOLEAN, value : Docs]
             PlaceSets == SUBSET PlaceSet
             Entry(f, d) ==
                {Place(<<>>, FALSE, d)} \cup
                   IF HasParts(d)
                   THEN UNION {{Within(d, k, place) : place \in f[d.parts[k]]} : k \in DOMAIN d.parts}
                   ELSE {}
             Table(f) == f = [d \in Docs |-> Entry(f, d)]
             Entries == [d \in Docs |-> [f \in [Docs -> PlaceSets] |-> Entry(f, d)]]
  <1>1. ASSUME NEW d \in Docs, NEW f \in [Docs -> PlaceSets] PROVE Entry(f, d) \in PlaceSets
    <2>1. Place(<<>>, FALSE, d) \in PlaceSet
      BY EmptySeq DEF Place
    <2>2. ASSUME HasParts(d), NEW k \in DOMAIN d.parts, NEW place \in f[d.parts[k]]
          PROVE  Within(d, k, place) \in PlaceSet
      <3>1. k \in Nat /\ d.parts[k] \in Docs
        BY <2>2, DocIs
      <3>2. f[d.parts[k]] \in PlaceSets
        BY <3>1
      <3>3. place.path \in Seq(Nat) /\ place.isKey \in BOOLEAN /\ place.value \in Docs
        BY <2>2, <3>2
      <3>4. <<k>> \o place.path \in Seq(Nat)
        BY <3>1, <3>3, ConcatProperties
      <3>5. (IF place.path = <<>> THEN d.kind = "object" ELSE place.isKey) \in BOOLEAN
        BY <3>3
      <3> QED BY <3>3, <3>4, <3>5 DEF Within, Place
    <2>3. Entry(f, d) \subseteq PlaceSet
      <3> HIDE DEF PlaceSet
      <3> SUFFICES ASSUME NEW x \in Entry(f, d) PROVE x \in PlaceSet
        OBVIOUS
      <3>1. CASE ~HasParts(d)
        BY <2>1, <3>1
      <3>2. CASE HasParts(d) /\ x # Place(<<>>, FALSE, d)
        <4>1. PICK k \in DOMAIN d.parts : x \in {Within(d, k, place) : place \in f[d.parts[k]]}
          BY <3>2
        <4>2. PICK place \in f[d.parts[k]] : x = Within(d, k, place)
          BY <4>1
        <4> QED BY <2>2, <3>2, <4>2
      <3> QED BY <2>1, <3>1, <3>2
    <2> QED BY <2>3
  <1>2. {} \in PlaceSets
    OBVIOUS
  <1>3. ASSUME NEW d \in Docs, NEW f, NEW g,
               HasParts(d) => \A k \in DOMAIN d.parts : f[d.parts[k]] = g[d.parts[k]]
        PROVE  Entry(f, d) = Entry(g, d)
    <2> DEFINE Inner(h, k) == {Within(d, k, place) : place \in h[d.parts[k]]}
    <2>1. CASE HasParts(d)
      <3>1. \A k \in DOMAIN d.parts : Inner(f, k) = Inner(g, k)
        BY <1>3, <2>1
      <3>2. /\ Entry(f, d) = {Place(<<>>, FALSE, d)} \cup UNION {Inner(f, k) : k \in DOMAIN d.parts}
            /\ Entry(g, d) = {Place(<<>>, FALSE, d)} \cup UNION {Inner(g, k) : k \in DOMAIN d.parts}
        BY <2>1
      <3> HIDE DEF Inner, Entry
      <3>3. \A x : x \in UNION {Inner(f, k) : k \in DOMAIN d.parts}
                 <=> x \in UNION {Inner(g, k) : k \in DOMAIN d.parts}
        BY <3>1
      <3> QED BY <3>2, <3>3
    <2>2. CASE ~HasParts(d)
      BY <2>2
    <2> QED BY <2>1, <2>2
  <1>4. RankOf \in [Docs -> Nat] /\ \A d \in Docs : RankOf[d] = depth[d]
    BY DocIs DEF RankOf
  <1> HIDE DEF Entry, PlaceSets
  <1>5. Entries \in [Docs -> [[Docs -> PlaceSets] -> PlaceSets]]
    BY <1>1
  <1>6. ASSUME NEW w \in Docs, NEW f \in [Docs -> PlaceSets], NEW g \in [Docs -> PlaceSets],
               \A v \in Docs : RankOf[v] < RankOf[w] => f[v] = g[v]
        PROVE  Entries[w][f] = Entries[w][g]
    <2>1. Entry(f, w) = Entry(g, w)
      BY <1>3, <1>4, <1>6, DocIs
    <2> QED BY <2>1
  <1>7. \A w \in Docs, f \in [Docs -> PlaceSets] : Entries[w][f] = Entry(f, w)
    OBVIOUS
  <1> HIDE DEF Entries
  <1>8. PICK f \in [Docs -> PlaceSets] : \A w \in Docs : f[w] = Entries[w][f]
    <2>1. \A w \in Docs : \A f, g \in [Docs -> PlaceSets] :
            (\A v \in Docs : RankOf[v] < RankOf[w] => f[v] = g[v]) => Entries[w][f] = Entries[w][g]
      BY <1>6
    <2>2. IsRecursion(Docs, PlaceSets, RankOf, Entries)
      BY <1>2, <1>4, <1>5, <2>1 DEF IsRecursion
    <2>3. HasTable(Docs, PlaceSets, Entries)
      BY <2>2, RankRecursion
    <2> QED BY <2>3 DEF HasTable
  <1>9. Table(f)
    BY <1>7, <1>8
  <1>10. Table(Places)
    <2>1. Places = CHOOSE f_1 : Table(f_1)
      BY DEF Places, Entry
    <2> HIDE DEF Table
    <2> QED BY <1>9, <2>1
  <1>11. \A doc \in Docs : Places[doc] = Entry(Places, doc)
    BY <1>10
  <1> QED BY <1>11 DEF Entry

-----------------------------------------------------------------------------
(* Paths and places.                                                       *)

\* One step more at the front of a path.
LEMMA ConsIs ==
    ASSUME NEW k \in Nat, NEW p \in Seq(Nat)
    PROVE  /\ <<k>> \o p \in Seq(Nat)
           /\ Len(p) \in Nat /\ Len(<<k>> \o p) = Len(p) + 1
           /\ (<<k>> \o p)[1] = k
           /\ DOMAIN p = 1 .. Len(p) /\ DOMAIN (<<k>> \o p) = 1 .. Len(p) + 1
           /\ \A i \in DOMAIN p : (<<k>> \o p)[i + 1] = p[i]
           /\ <<k>> \o p # <<>>
  <1>1. <<k>> \in Seq(Nat) /\ Len(<<k>>) = 1 /\ <<k>>[1] = k
    OBVIOUS
  <1>2. Len(p) \in Nat /\ DOMAIN p = 1 .. Len(p)
    BY LenProperties
  <1>3. <<k>> \o p \in Seq(Nat) /\ Len(<<k>> \o p) = Len(p) + 1
    BY <1>1, <1>2, ConcatProperties
  <1>4. \A i \in 1 .. Len(p) + 1 : (<<k>> \o p)[i] = IF i <= 1 THEN <<k>>[i] ELSE p[i - 1]
    BY <1>1, <1>2, ConcatProperties
  <1>5. 1 \in 1 .. Len(p) + 1 /\ \A i \in 1 .. Len(p) : i + 1 \in 1 .. Len(p) + 1 /\ (i + 1) - 1 = i /\ ~(i + 1 <= 1)
    BY <1>2
  <1>6. (<<k>> \o p)[1] = k
    BY <1>1, <1>4, <1>5
  <1>7. \A i \in DOMAIN p : (<<k>> \o p)[i + 1] = p[i]
    BY <1>2, <1>4, <1>5
  <1>8. DOMAIN (<<k>> \o p) = 1 .. Len(p) + 1
    BY <1>3, LenProperties
  <1>9. <<k>> \o p # <<>>
    BY <1>2, <1>3, EmptySeq
  <1> QED BY <1>2, <1>3, <1>6, <1>7, <1>8, <1>9

\* A path gives its first step and the rest.
LEMMA ConsCancel ==
    ASSUME NEW k \in Nat, NEW p \in Seq(Nat), NEW l \in Nat, NEW q \in Seq(Nat), <<k>> \o p = <<l>> \o q
    PROVE  k = l /\ p = q
  <1>1. k = l
    BY ConsIs
  <1>2. Len(p) = Len(q)
    <2>1. Len(p) \in Nat /\ Len(q) \in Nat /\ Len(p) + 1 = Len(q) + 1
      BY ConsIs
    <2> QED BY <2>1
  <1>3. \A i \in 1 .. Len(p) : p[i] = q[i]
    BY <1>2, ConsIs
  <1> QED BY <1>1, <1>2, <1>3, SeqEqual

\* Which paths come first.
LEMMA RootPrecedes ==
    ASSUME NEW p \in Seq(Nat), p # <<>>
    PROVE  Precedes(<<>>, p)
  <1>1. Len(p) \in Nat /\ Len(p) # 0 /\ Len(<<>>) = 0 /\ DOMAIN <<>> = {}
    BY LenProperties, EmptySeq
  <1> QED BY <1>1 DEF Precedes

\* The order of two paths below a value.
LEMMA PartPrecedes ==
    ASSUME NEW k \in Nat, NEW p \in Seq(Nat), NEW l \in Nat, NEW q \in Seq(Nat),
           k < l \/ (k = l /\ Precedes(p, q))
    PROVE  Precedes(<<k>> \o p, <<l>> \o q)
  <1> DEFINE kp == <<k>> \o p
             lq == <<l>> \o q
  <1>1. /\ Len(p) \in Nat /\ Len(kp) = Len(p) + 1 /\ kp[1] = k
        /\ DOMAIN p = 1 .. Len(p) /\ DOMAIN kp = 1 .. Len(p) + 1
        /\ \A i \in DOMAIN p : kp[i + 1] = p[i]
    BY ConsIs
  <1>2. /\ Len(q) \in Nat /\ Len(lq) = Len(q) + 1 /\ lq[1] = l
        /\ DOMAIN q = 1 .. Len(q) /\ DOMAIN lq = 1 .. Len(q) + 1
        /\ \A i \in DOMAIN q : lq[i + 1] = q[i]
    BY ConsIs
  <1> HIDE DEF kp, lq
  <1>3. CASE k < l
    <2>1. 1 \in DOMAIN kp \cap DOMAIN lq /\ kp[1] < lq[1] /\ \A j \in 1 .. 1 - 1 : kp[j] = lq[j]
      BY <1>1, <1>2, <1>3
    <2>2. Precedes(kp, lq)
      BY <2>1 DEF Precedes
    <2> QED BY <2>2 DEF kp, lq
  <1>4. CASE k = l /\ Len(p) < Len(q) /\ \A j \in DOMAIN p : p[j] = q[j]
    <2>1. Len(kp) < Len(lq)
      BY <1>1, <1>2, <1>4
    <2>2. ASSUME NEW j \in DOMAIN kp PROVE kp[j] = lq[j]
      <3>1. CASE j = 1
        BY <1>1, <1>2, <1>4, <3>1
      <3>2. CASE j # 1
        <4>1. j - 1 \in DOMAIN p /\ j - 1 \in DOMAIN q /\ (j - 1) + 1 = j
          BY <1>1, <1>2, <1>4, <3>2
        <4>2. kp[j] = p[j - 1] /\ lq[j] = q[j - 1]
          BY <1>1, <1>2, <4>1
        <4> QED BY <1>4, <4>1, <4>2
      <3> QED BY <3>1, <3>2
    <2>3. Precedes(kp, lq)
      BY <2>1, <2>2 DEF Precedes
    <2> QED BY <2>3 DEF kp, lq
  <1>5. CASE k = l /\ \E i \in DOMAIN p \cap DOMAIN q : p[i] < q[i] /\ \A j \in 1 .. i - 1 : p[j] = q[j]
    <2>1. PICK i \in DOMAIN p \cap DOMAIN q : p[i] < q[i] /\ \A j \in 1 .. i - 1 : p[j] = q[j]
      BY <1>5
    <2>2. i \in Nat /\ i + 1 \in DOMAIN kp \cap DOMAIN lq /\ kp[i + 1] < lq[i + 1]
      BY <1>1, <1>2, <2>1
    <2>3. ASSUME NEW j \in 1 .. (i + 1) - 1 PROVE kp[j] = lq[j]
      <3>1. CASE j = 1
        BY <1>1, <1>2, <1>5, <3>1
      <3>2. CASE j # 1
        <4>1. j - 1 \in DOMAIN p /\ j - 1 \in DOMAIN q /\ (j - 1) + 1 = j /\ j - 1 \in 1 .. i - 1
          BY <1>1, <1>2, <2>1, <2>2, <3>2
        <4>2. kp[j] = p[j - 1] /\ lq[j] = q[j - 1]
          BY <1>1, <1>2, <4>1
        <4> QED BY <2>1, <4>1, <4>2
      <3> QED BY <3>1, <3>2
    <2>4. Precedes(kp, lq)
      BY <2>2, <2>3 DEF Precedes
    <2> QED BY <2>4 DEF kp, lq
  <1> QED BY <1>3, <1>4, <1>5 DEF Precedes

PlaceSet == [path : Seq(Nat), isKey : BOOLEAN, value : Docs]

\* The places of a value: itself, and those of its parts.
LEMMA PlaceOf ==
    ASSUME NEW doc \in Docs, NEW x
    PROVE  x \in Places[doc] <=>
             \/ x = Place(<<>>, FALSE, doc)
             \/ HasParts(doc) /\ \E k \in DOMAIN doc.parts : \E y \in Places[doc.parts[k]] : x = Within(doc, k, y)
  <1>1. CASE ~HasParts(doc)
    <2>1. Places[doc] = {Place(<<>>, FALSE, doc)}
      BY <1>1, PlacesIs
    <2> QED BY <1>1, <2>1
  <1>2. CASE HasParts(doc)
    <2> DEFINE Inner(k) == {Within(doc, k, place) : place \in Places[doc.parts[k]]}
    <2>1. Places[doc] = {Place(<<>>, FALSE, doc)} \cup UNION {Inner(k) : k \in DOMAIN doc.parts}
      BY <1>2, PlacesIs
    <2>2. \A k : x \in Inner(k) <=> \E y \in Places[doc.parts[k]] : x = Within(doc, k, y)
      OBVIOUS
    <2> HIDE DEF Inner
    <2>3. x \in UNION {Inner(k) : k \in DOMAIN doc.parts} <=> \E k \in DOMAIN doc.parts : x \in Inner(k)
      OBVIOUS
    <2> QED BY <1>2, <2>1, <2>2, <2>3
  <1> QED BY <1>1, <1>2

\* A place of a part, as a place of the whole.
LEMMA WithinIs ==
    ASSUME NEW doc \in Docs, HasParts(doc), NEW k \in DOMAIN doc.parts, NEW y \in PlaceSet
    PROVE  /\ Within(doc, k, y) \in PlaceSet
           /\ Within(doc, k, y).path = <<k>> \o y.path /\ Within(doc, k, y).value = y.value
           /\ Within(doc, k, y).isKey = IF y.path = <<>> THEN doc.kind = "object" ELSE y.isKey
  <1>1. k \in Nat /\ y.path \in Seq(Nat)
    BY DocIs DEF PlaceSet
  <1>2. <<k>> \o y.path \in Seq(Nat)
    BY <1>1, ConsIs
  <1> QED BY <1>2 DEF Within, Place, PlaceSet

\* Places are at paths and hold values.
LEMMA PlacesType == \A doc \in Docs : Places[doc] \subseteq PlaceSet
  <1> DEFINE G == {doc \in Docs : Places[doc] \subseteq PlaceSet}
  <1>1. ASSUME NEW d \in Docs, HasParts(d) => \A k \in DOMAIN d.parts : d.parts[k] \in G
        PROVE  Places[d] \subseteq PlaceSet
    <2> SUFFICES ASSUME NEW z \in Places[d] PROVE z \in PlaceSet
      OBVIOUS
    <2>1. CASE z = Place(<<>>, FALSE, d)
      BY <2>1, EmptySeq DEF Place, PlaceSet
    <2>2. ASSUME HasParts(d), NEW k \in DOMAIN d.parts, NEW y \in Places[d.parts[k]], z = Within(d, k, y)
          PROVE  z \in PlaceSet
      BY <1>1, <2>2, WithinIs
    <2> QED BY <2>1, <2>2, PlaceOf
  <1>2. \A d \in Docs : (HasParts(d) => \A k \in DOMAIN d.parts : d.parts[k] \in G) => d \in G
    BY <1>1
  <1> HIDE DEF G
  <1>3. Docs \subseteq G
    BY <1>2, DocInduction
  <1> QED BY <1>3 DEF G

\* What is found at a path.
LEMMA FoundIs ==
    ASSUME NEW p, NEW doc, NEW v
    PROVE  v \in Found(p, doc) <=> \E x \in Places[doc] : x.path = p /\ x.value = v
  BY DEF Found

\* The whole is found at its root.
LEMMA FoundRoot ==
    ASSUME NEW doc \in Docs
    PROVE  Found(<<>>, doc) = {doc}
  <1>1. ASSUME NEW x \in Places[doc], x.path = <<>> PROVE x = Place(<<>>, FALSE, doc)
    <2>1. ASSUME HasParts(doc), NEW k \in DOMAIN doc.parts, NEW y \in Places[doc.parts[k]], x = Within(doc, k, y)
          PROVE  FALSE
      <3>1. k \in Nat /\ doc.parts[k] \in Docs /\ y \in PlaceSet
        BY <2>1, DocIs, PlacesType
      <3>2. y.path \in Seq(Nat) /\ x.path = <<k>> \o y.path
        BY <2>1, <3>1, WithinIs DEF PlaceSet
      <3> QED BY <1>1, <3>1, <3>2, ConsIs
    <2> QED BY <2>1, PlaceOf
  <1>2. Place(<<>>, FALSE, doc) \in Places[doc]
    BY PlaceOf
  <1>3. Place(<<>>, FALSE, doc).path = <<>> /\ Place(<<>>, FALSE, doc).value = doc
    BY DEF Place
  <1> QED BY <1>1, <1>2, <1>3 DEF Found

\* What is found below a part is what the part has there.
LEMMA FoundPart ==
    ASSUME NEW doc \in Docs, NEW k \in Nat, NEW p \in Seq(Nat)
    PROVE  Found(<<k>> \o p, doc) =
             IF HasParts(doc) /\ k \in DOMAIN doc.parts THEN Found(p, doc.parts[k]) ELSE {}
  <1>1. ASSUME NEW x \in Places[doc], x.path = <<k>> \o p
        PROVE  HasParts(doc) /\ k \in DOMAIN doc.parts /\ x.value \in Found(p, doc.parts[k])
    <2>1. x # Place(<<>>, FALSE, doc)
      BY <1>1, ConsIs DEF Place
    <2>2. PICK l \in DOMAIN doc.parts : HasParts(doc) /\ \E y \in Places[doc.parts[l]] : x = Within(doc, l, y)
      BY <2>1, PlaceOf
    <2>3. PICK y \in Places[doc.parts[l]] : x = Within(doc, l, y)
      BY <2>2
    <2>4. l \in Nat /\ y \in PlaceSet /\ y.path \in Seq(Nat)
      BY <2>2, DocIs, PlacesType DEF PlaceSet
    <2>5. <<k>> \o p = <<l>> \o y.path /\ x.value = y.value
      BY <1>1, <2>2, <2>3, <2>4, WithinIs
    <2>6. k = l /\ p = y.path
      BY <2>4, <2>5, ConsCancel
    <2> QED BY <2>2, <2>3, <2>5, <2>6, FoundIs
  <1>2. ASSUME HasParts(doc), k \in DOMAIN doc.parts, NEW y \in Places[doc.parts[k]], y.path = p
        PROVE  y.value \in Found(<<k>> \o p, doc)
    <2>1. y \in PlaceSet
      BY <1>2, DocIs, PlacesType
    <2>2. Within(doc, k, y) \in Places[doc]
      BY <1>2, PlaceOf
    <2>3. Within(doc, k, y).path = <<k>> \o p /\ Within(doc, k, y).value = y.value
      BY <1>2, <2>1, WithinIs
    <2> QED BY <2>2, <2>3, FoundIs
  <1> QED BY <1>1, <1>2 DEF Found

-----------------------------------------------------------------------------
(* What a value misses at its root, and in its parts.                      *)

\* Only the place of the whole is at the root.
LEMMA RootPlace ==
    ASSUME NEW doc \in Docs, NEW x \in Places[doc]
    PROVE  x.path = <<>> <=> x = Place(<<>>, FALSE, doc)
  <1>1. ASSUME HasParts(doc), NEW k \in DOMAIN doc.parts, NEW y \in Places[doc.parts[k]], x = Within(doc, k, y)
        PROVE  x.path # <<>>
    <2>1. k \in Nat /\ doc.parts[k] \in Docs /\ y \in PlaceSet
      BY <1>1, DocIs, PlacesType
    <2>2. y.path \in Seq(Nat) /\ x.path = <<k>> \o y.path
      BY <1>1, <2>1, WithinIs DEF PlaceSet
    <2> QED BY <2>1, <2>2, ConsIs
  <1>2. Place(<<>>, FALSE, doc).path = <<>>
    BY DEF Place
  <1> QED BY <1>1, <1>2, PlaceOf

\* What is missed.
LEMMA MissedIs ==
    ASSUME NEW want, NEW got, NEW q
    PROVE  q \in Missed(want, got) <=> \E x \in Places[want] : x.path = q /\ ~Satisfied(x, got)
  BY DEF Missed

\* What is missed are paths.
LEMMA MissedType ==
    ASSUME NEW want \in Docs, NEW got
    PROVE  Missed(want, got) \subseteq Seq(Nat)
  BY MissedIs, PlacesType DEF PlaceSet

\* The root is missed when the two wholes do not meet.
LEMMA MissedRoot ==
    ASSUME NEW want \in Docs, NEW got \in Docs
    PROVE  <<>> \in Missed(want, got) <=> ~Meets(got, want)
  <1> DEFINE root == Place(<<>>, FALSE, want)
  <1>1. root.path = <<>> /\ root.isKey = FALSE /\ root.value = want
    BY DEF Place
  <1>2. root \in Places[want]
    BY PlaceOf
  <1> HIDE DEF root
  <1>3. Satisfied(root, got) <=> Meets(got, want)
    BY <1>1, FoundRoot DEF Satisfied
  <1>4. \A x \in Places[want] : x.path = <<>> <=> x = root
    BY RootPlace DEF root
  <1> QED BY <1>2, <1>3, <1>4, MissedIs

Below(want, q) == \E k \in DOMAIN want.parts : \E p \in Seq(Nat) : q = <<k>> \o p

\* What is missed below the root is missed in a part.
LEMMA MissedBelow ==
    ASSUME NEW want \in Docs, NEW got, NEW q \in Missed(want, got), q # <<>>
    PROVE  HasParts(want) /\ Below(want, q)
  <1>1. PICK x \in Places[want] : x.path = q
    BY MissedIs
  <1>2. x # Place(<<>>, FALSE, want)
    BY <1>1, RootPlace
  <1>3. PICK k \in DOMAIN want.parts : HasParts(want) /\ \E y \in Places[want.parts[k]] : x = Within(want, k, y)
    BY <1>2, PlaceOf
  <1>4. PICK y \in Places[want.parts[k]] : x = Within(want, k, y)
    BY <1>3
  <1>5. y \in PlaceSet /\ y.path \in Seq(Nat)
    BY <1>3, DocIs, PlacesType DEF PlaceSet
  <1>6. q = <<k>> \o y.path
    BY <1>1, <1>3, <1>4, <1>5, WithinIs
  <1> QED BY <1>3, <1>5, <1>6 DEF Below

\* A part misses what its places, as places of the whole, are not given.
LEMMA MissedPart ==
    ASSUME NEW want \in Docs, NEW got, HasParts(want), NEW k \in DOMAIN want.parts, NEW p \in Seq(Nat)
    PROVE  <<k>> \o p \in Missed(want, got) <=>
             \E y \in Places[want.parts[k]] : y.path = p /\ ~Satisfied(Within(want, k, y), got)
  <1>0. k \in Nat /\ want.parts[k] \in Docs
    BY DocIs
  <1>1. ASSUME NEW x \in Places[want], x.path = <<k>> \o p, ~Satisfied(x, got)
        PROVE  \E y \in Places[want.parts[k]] : y.path = p /\ ~Satisfied(Within(want, k, y), got)
    <2>1. x # Place(<<>>, FALSE, want)
      BY <1>0, <1>1, ConsIs DEF Place
    <2>2. PICK l \in DOMAIN want.parts : \E y \in Places[want.parts[l]] : x = Within(want, l, y)
      BY <2>1, PlaceOf
    <2>3. PICK y \in Places[want.parts[l]] : x = Within(want, l, y)
      BY <2>2
    <2>4. l \in Nat /\ y \in PlaceSet /\ y.path \in Seq(Nat)
      BY <2>2, DocIs, PlacesType DEF PlaceSet
    <2>5. <<k>> \o p = <<l>> \o y.path
      BY <1>1, <2>3, <2>4, WithinIs
    <2>6. k = l /\ p = y.path
      BY <1>0, <2>4, <2>5, ConsCancel
    <2> QED BY <1>1, <2>3, <2>6
  <1>2. ASSUME NEW y \in Places[want.parts[k]], y.path = p, ~Satisfied(Within(want, k, y), got)
        PROVE  <<k>> \o p \in Missed(want, got)
    <2>1. y \in PlaceSet
      BY <1>0, <1>2, PlacesType
    <2>2. Within(want, k, y) \in Places[want] /\ Within(want, k, y).path = <<k>> \o p
      BY <1>2, <2>1, PlaceOf, WithinIs
    <2> QED BY <1>2, <2>2, MissedIs
  <1> QED BY <1>1, <1>2, MissedIs

\* A part that must be absent.
AbsentPart(want, k) == want.kind = "object" /\ want.parts[k].kind = "null"
HasPart(got, k) == HasParts(got) /\ k \in DOMAIN got.parts

\* A part that must be absent is missed when it is there, and nothing in it.
LEMMA MissedAbsent ==
    ASSUME NEW want \in Docs, NEW got \in Docs, HasParts(want), NEW k \in DOMAIN want.parts,
           NEW p \in Seq(Nat), AbsentPart(want, k)
    PROVE  <<k>> \o p \in Missed(want, got) <=> p = <<>> /\ HasPart(got, k)
  <1> DEFINE part == want.parts[k]
             root == Place(<<>>, FALSE, part)
             x == Within(want, k, root)
  <1>1. k \in Nat /\ part \in Docs /\ part.kind = "null" /\ want.kind = "object" /\ ~HasParts(part)
    BY DocIs DEF AbsentPart, HasParts
  <1>2. \A y : y \in Places[part] <=> y = root
    BY <1>1, PlaceOf
  <1>3. root.path = <<>> /\ root.value = part /\ root \in PlaceSet
    BY <1>1, <1>2, PlacesType DEF Place
  <1> HIDE DEF root
  <1>4. x.path = <<k>> \o <<>> /\ x.value = part /\ x.isKey = TRUE
    <2>1. /\ x.path = <<k>> \o root.path /\ x.value = root.value
          /\ x.isKey = IF root.path = <<>> THEN want.kind = "object" ELSE root.isKey
      BY <1>3, WithinIs
    <2> HIDE DEF x
    <2> QED BY <1>1, <1>3, <2>1
  <1>5. Satisfied(x, got) <=> Found(<<k>> \o <<>>, got) = {}
    BY <1>1, <1>4 DEF Satisfied
  <1>6. <<>> \in Seq(Nat)
    BY EmptySeq
  <1>7. Found(<<k>> \o <<>>, got) = IF HasPart(got, k) THEN Found(<<>>, got.parts[k]) ELSE {}
    BY <1>1, <1>6, FoundPart DEF HasPart
  <1>8. HasPart(got, k) => Found(<<>>, got.parts[k]) # {}
    <2>1. HasPart(got, k) => got.parts[k] \in Docs
      BY DocIs DEF HasPart
    <2> QED BY <2>1, FoundRoot
  <1>9. Satisfied(x, got) <=> ~HasPart(got, k)
    BY <1>5, <1>7, <1>8
  <1>10. <<k>> \o p \in Missed(want, got) <=> \E y \in Places[part] : y.path = p /\ ~Satisfied(Within(want, k, y), got)
    BY MissedPart
  <1> QED BY <1>2, <1>3, <1>9, <1>10

\* A part that is there misses what it does not have.
LEMMA MissedThere ==
    ASSUME NEW want \in Docs, NEW got \in Docs, HasParts(want), NEW k \in DOMAIN want.parts,
           NEW p \in Seq(Nat), ~AbsentPart(want, k), HasPart(got, k)
    PROVE  <<k>> \o p \in Missed(want, got) <=> p \in Missed(want.parts[k], got.parts[k])
  <1> DEFINE part == want.parts[k]
             there == got.parts[k]
  <1>1. k \in Nat /\ part \in Docs /\ there \in Docs
    BY DocIs DEF HasPart
  <1>2. ASSUME NEW y \in Places[part]
        PROVE  Satisfied(Within(want, k, y), got) <=> Satisfied(y, there)
    <2> DEFINE x == Within(want, k, y)
    <2>1. y \in PlaceSet /\ y.path \in Seq(Nat)
      BY <1>1, PlacesType DEF PlaceSet
    <2>2. x.path = <<k>> \o y.path /\ x.value = y.value
          /\ x.isKey = IF y.path = <<>> THEN want.kind = "object" ELSE y.isKey
      BY <2>1, WithinIs
    <2>3. Found(x.path, got) = Found(y.path, there)
      BY <1>1, <2>1, <2>2, FoundPart DEF HasPart
    <2> SUFFICES Satisfied(x, got) <=> Satisfied(y, there)
      OBVIOUS
    <2> HIDE DEF x
    <2>4. /\ Satisfied(x, got) <=>
              IF x.value.kind = "null" /\ x.isKey THEN Found(x.path, got) = {}
              ELSE \E v \in Found(x.path, got) : Meets(v, x.value)
          /\ Satisfied(y, there) <=>
              IF y.value.kind = "null" /\ y.isKey THEN Found(y.path, there) = {}
              ELSE \E v \in Found(y.path, there) : Meets(v, y.value)
      BY DEF Satisfied
    <2>5. CASE y.path = <<>>
      <3>1. y = Place(<<>>, FALSE, part)
        BY <1>1, <2>5, RootPlace
      <3>2. y.isKey = FALSE /\ y.value = part
        BY <3>1 DEF Place
      <3>3. ~(x.value.kind = "null" /\ x.isKey)
        BY <2>2, <2>5, <3>2 DEF AbsentPart
      <3>4. ~(y.value.kind = "null" /\ y.isKey)
        BY <3>2
      <3>5. Satisfied(x, got) <=> \E v \in Found(x.path, got) : Meets(v, x.value)
        BY <2>4, <3>3
      <3>6. Satisfied(y, there) <=> \E v \in Found(y.path, there) : Meets(v, y.value)
        BY <2>4, <3>4
      <3>7. x.value = y.value
        BY <2>2
      <3> QED BY <2>3, <3>5, <3>6, <3>7, Zenon
    <2>6. CASE y.path # <<>>
      <3>1. x.isKey = y.isKey
        BY <2>2, <2>6
      <3>2. x.value = y.value
        BY <2>2
      <3> QED BY <2>3, <2>4, <3>1, <3>2, Zenon
    <2> QED BY <2>5, <2>6
  <1>3. <<k>> \o p \in Missed(want, got) <=> \E y \in Places[part] : y.path = p /\ ~Satisfied(Within(want, k, y), got)
    BY MissedPart
  <1>4. p \in Missed(part, there) <=> \E y \in Places[part] : y.path = p /\ ~Satisfied(y, there)
    BY MissedIs
  <1> QED BY <1>2, <1>3, <1>4

\* A part that is not there is missed.
LEMMA MissedGone ==
    ASSUME NEW want \in Docs, NEW got \in Docs, HasParts(want), NEW k \in DOMAIN want.parts,
           ~AbsentPart(want, k), ~HasPart(got, k)
    PROVE  <<k>> \o <<>> \in Missed(want, got)
  <1> DEFINE part == want.parts[k]
             root == Place(<<>>, FALSE, part)
             x == Within(want, k, root)
  <1>1. k \in Nat /\ part \in Docs
    BY DocIs
  <1>2. root \in Places[part] /\ root \in PlaceSet /\ root.path = <<>> /\ root.value = part
    BY <1>1, PlaceOf, PlacesType DEF Place
  <1>3. x.path = <<k>> \o <<>> /\ x.value = part /\ x.isKey = (want.kind = "object")
    BY <1>2, WithinIs
  <1>4. <<>> \in Seq(Nat)
    BY EmptySeq
  <1>5. Found(x.path, got) = {}
    BY <1>1, <1>3, <1>4, FoundPart DEF HasPart
  <1>6. ~(x.value.kind = "null" /\ x.isKey)
    BY <1>3 DEF AbsentPart
  <1>7. ~Satisfied(x, got)
    BY <1>5, <1>6 DEF Satisfied
  <1> QED BY <1>2, <1>4, <1>7, MissedPart

-----------------------------------------------------------------------------
(* match finds the first place that is missed.                             *)

First(p, S) == p \in S /\ \A q \in S \ {p} : Precedes(p, q)

\* A mismatch m at path is the one for the set S of missed paths below it.
RightFor(m, path, S) ==
    \/ m = Same /\ S = {}
    \/ m.why # "" /\ \E p \in Seq(Nat) : First(p, S) /\ m.path = path \o p

MissedIn(want, k, got) == {p \in Seq(Nat) : <<k>> \o p \in Missed(want, got)}

\* A mismatch at a place that is missed as a whole.
LEMMA RootIsRight ==
    ASSUME NEW S \in SUBSET Seq(Nat), <<>> \in S, NEW path \in Seq(Nat), NEW why \in Reasons \ {""}
    PROVE  RightFor(Differs(path, why), path, S)
  <1>1. <<>> \in Seq(Nat) /\ path \o <<>> = path
    BY EmptySeq, ConcatEmptySeq
  <1>2. First(<<>>, S)
    BY RootPrecedes DEF First
  <1>3. Differs(path, why).why # "" /\ Differs(path, why).path = path
    BY DEF Differs
  <1> QED BY <1>1, <1>2, <1>3 DEF RightFor

\* A value of another kind, length or content is missed as a whole.
LEMMA WholeIsRight ==
    ASSUME NEW want \in Docs, NEW got \in Docs, ~Meets(got, want), NEW path \in Seq(Nat),
           NEW why \in Reasons \ {""}
    PROVE  RightFor(Differs(path, why), path, Missed(want, got))
  BY MissedRoot, MissedType, RootIsRight

\* The loops over the parts.
LEMMA LoopIsRight ==
    ASSUME NEW want \in Docs, NEW got \in Docs, Meets(got, want), HasParts(want),
           NEW path \in Seq(Nat), NEW of, DOMAIN of = DOMAIN want.parts,
           \A k \in DOMAIN of : RightFor(of[k], Append(path, k), MissedIn(want, k, got))
    PROVE  RightFor(FirstMismatch(of), path, Missed(want, got))
  <1> DEFINE differing == {k \in DOMAIN of : of[k] # Same}
             missed == Missed(want, got)
  <1>1. DOMAIN of \subseteq Nat
    BY DocIs
  <1>2. ASSUME NEW q \in missed
        PROVE  \E k \in differing : \E p \in MissedIn(want, k, got) : q = <<k>> \o p
    <2>1. q # <<>>
      BY MissedRoot
    <2>2. PICK k \in DOMAIN want.parts : \E p \in Seq(Nat) : q = <<k>> \o p
      <3>1. q \in Missed(want, got)
        BY <1>2
      <3>2. Below(want, q)
        BY <2>1, <3>1, MissedBelow, Zenon
      <3> QED BY <3>2 DEF Below
    <2>3. PICK p \in MissedIn(want, k, got) : q = <<k>> \o p
      BY <2>2 DEF MissedIn
    <2>4. RightFor(of[k], Append(path, k), MissedIn(want, k, got)) /\ MissedIn(want, k, got) # {}
      BY <2>2, <2>3
    <2>5. of[k].why # ""
      BY <2>4 DEF RightFor
    <2>6. of[k] # Same
      <3>1. Same.why = ""
        BY DEF Same
      <3> QED BY <2>5, <3>1
    <2> QED BY <2>2, <2>3, <2>6
  <1>3. CASE differing = {}
    <2>1. missed = {}
      BY <1>2, <1>3
    <2>2. FirstMismatch(of) = Same
      BY <1>3 DEF FirstMismatch
    <2> QED BY <2>1, <2>2 DEF RightFor
  <1>4. CASE differing # {}
    <2> DEFINE k == Min(differing)
    <2>1. k \in differing /\ \A l \in differing : k <= l
      BY <1>1, <1>4, MinIs
    <2>2. FirstMismatch(of) = of[k]
      BY <1>4 DEF FirstMismatch
    <2> HIDE DEF k
    <2>3. PICK p \in Seq(Nat) :
            First(p, MissedIn(want, k, got)) /\ of[k].path = Append(path, k) \o p /\ of[k].why # ""
      BY <2>1 DEF RightFor
    <2>4. k \in Nat /\ <<k>> \o p \in Seq(Nat) /\ <<k>> \o p \in missed
      BY <1>1, <2>1, <2>3, ConsIs DEF First, MissedIn
    <2>5. ASSUME NEW q \in missed \ {<<k>> \o p} PROVE Precedes(<<k>> \o p, q)
      <3>1. PICK l \in differing : \E r \in MissedIn(want, l, got) : q = <<l>> \o r
        BY <1>2
      <3>2. PICK r \in MissedIn(want, l, got) : q = <<l>> \o r
        BY <3>1
      <3>3. l \in Nat /\ r \in Seq(Nat) /\ k <= l
        BY <1>1, <2>1, <3>1, <3>2 DEF MissedIn
      <3>4. CASE k = l
        <4>1. r # p
          BY <2>5, <3>2, <3>4
        <4>2. Precedes(p, r)
          BY <2>3, <3>2, <3>4, <4>1 DEF First
        <4> QED BY <2>3, <2>4, <3>2, <3>3, <3>4, <4>2, PartPrecedes
      <3>5. CASE k < l
        BY <2>3, <2>4, <3>2, <3>3, <3>5, PartPrecedes
      <3> QED BY <2>4, <3>3, <3>4, <3>5
    <2>6. First(<<k>> \o p, missed)
      BY <2>4, <2>5 DEF First
    <2>7. of[k].path = path \o (<<k>> \o p)
      <3>1. <<k>> \in Seq(Nat) /\ Append(path, k) = path \o <<k>>
        BY <2>4, AppendIsConcat
      <3>2. (path \o <<k>>) \o p = path \o (<<k>> \o p)
        BY <3>1, ConcatAssociative
      <3> QED BY <2>3, <3>1, <3>2
    <2> QED BY <2>2, <2>3, <2>4, <2>6, <2>7 DEF RightFor
  <1> QED BY <1>3, <1>4

RightMatch(want) ==
    \A path \in Seq(Nat), got \in Docs : RightFor(match[want][path][got], path, Missed(want, got))

\* The key of an object, or the item of an array.
LEMMA PartIsRight ==
    ASSUME NEW want \in Docs, NEW got \in Docs, HasParts(want), NEW k \in DOMAIN want.parts,
           ~AbsentPart(want, k), HasPart(got, k), RightMatch(want.parts[k]), NEW path \in Seq(Nat)
    PROVE  RightFor(match[want.parts[k]][path][got.parts[k]], path, MissedIn(want, k, got))
  <1>1. want.parts[k] \in Docs /\ got.parts[k] \in Docs
    BY DocIs DEF HasPart
  <1>2. MissedIn(want, k, got) = Missed(want.parts[k], got.parts[k])
    <2>1. \A p \in Seq(Nat) : p \in MissedIn(want, k, got) <=> p \in Missed(want.parts[k], got.parts[k])
      BY MissedThere, Zenon DEF MissedIn
    <2>2. Missed(want.parts[k], got.parts[k]) \subseteq Seq(Nat)
      BY <1>1, MissedType
    <2>3. MissedIn(want, k, got) \subseteq Seq(Nat)
      BY DEF MissedIn
    <2> QED BY <2>1, <2>2, <2>3
  <1> QED BY <1>1, <1>2 DEF RightMatch

\* A key of an object is compared right.
LEMMA KeyIsRight ==
    ASSUME NEW want \in Docs, NEW got \in Docs, want.kind = "object", got.kind = "object",
           NEW k \in DOMAIN want.parts, RightMatch(want.parts[k]), NEW path \in Seq(Nat)
    PROVE  RightFor(matchKey(match, path, want.parts[k], k, got), path, MissedIn(want, k, got))
  <1>1. HasParts(want) /\ MissedIn(want, k, got) \subseteq Seq(Nat)
    BY DEF HasParts, MissedIn
  <1>2. HasPart(got, k) <=> k \in DOMAIN got.parts
    BY DEF HasPart, HasParts
  <1>3. AbsentPart(want, k) <=> want.parts[k].kind = "null"
    BY DEF AbsentPart
  <1>4. <<>> \in Seq(Nat)
    BY EmptySeq
  <1>5. CASE AbsentPart(want, k)
    <2>1. \A p \in Seq(Nat) : p \in MissedIn(want, k, got) <=> p = <<>> /\ HasPart(got, k)
      BY <1>1, <1>5, MissedAbsent, Zenon DEF MissedIn
    <2>2. CASE HasPart(got, k)
      <3>1. matchKey(match, path, want.parts[k], k, got) = Differs(path, "want absent")
        BY <1>2, <1>3, <1>5, <2>2 DEF matchKey
      <3>2. <<>> \in MissedIn(want, k, got)
        BY <1>4, <2>1, <2>2
      <3> QED BY <1>1, <3>1, <3>2, RootIsRight DEF Reasons
    <2>3. CASE ~HasPart(got, k)
      <3>1. matchKey(match, path, want.parts[k], k, got) = Same
        BY <1>2, <1>3, <1>5, <2>3 DEF matchKey
      <3>2. MissedIn(want, k, got) = {}
        BY <1>1, <2>1, <2>3
      <3> QED BY <3>1, <3>2 DEF RightFor
    <2> QED BY <2>2, <2>3
  <1>6. CASE ~AbsentPart(want, k) /\ HasPart(got, k)
    <2>1. matchKey(match, path, want.parts[k], k, got) = match[want.parts[k]][path][got.parts[k]]
      BY <1>2, <1>3, <1>6 DEF matchKey
    <2> QED BY <1>1, <1>6, <2>1, PartIsRight
  <1>7. CASE ~AbsentPart(want, k) /\ ~HasPart(got, k)
    <2>1. matchKey(match, path, want.parts[k], k, got) = Differs(path, "missing")
      BY <1>2, <1>3, <1>7 DEF matchKey
    <2>2. <<>> \in MissedIn(want, k, got)
      BY <1>1, <1>4, <1>7, MissedGone, Zenon DEF MissedIn
    <2> QED BY <1>1, <2>1, <2>2, RootIsRight DEF Reasons
  <1> QED BY <1>5, <1>6, <1>7

\* An object is compared right when the values of its keys are.
LEMMA ObjectIsRight ==
    ASSUME NEW want \in Docs, want.kind = "object", \A k \in DOMAIN want.parts : RightMatch(want.parts[k])
    PROVE  RightMatch(want)
  <1> SUFFICES ASSUME NEW path \in Seq(Nat), NEW got \in Docs
               PROVE  RightFor(match[want][path][got], path, Missed(want, got))
    BY DEF RightMatch
  <1>1. match[want][path][got] = matchObject(match, path, want, got)
    BY MatchIs DEF matchValue
  <1>2. CASE got.kind # "object"
    <2>1. match[want][path][got] = Differs(path, "want an object")
      BY <1>1, <1>2 DEF matchObject
    <2>2. ~Meets(got, want)
      BY <1>2 DEF Meets
    <2> QED BY <2>1, <2>2, WholeIsRight DEF Reasons
  <1>3. CASE got.kind = "object"
    <2> DEFINE of == [k \in DOMAIN want.parts |-> matchKey(match, Append(path, k), want.parts[k], k, got)]
    <2>1. Meets(got, want) /\ HasParts(want)
      BY <1>3 DEF Meets, HasParts
    <2>2. ASSUME NEW k \in DOMAIN want.parts
          PROVE  RightFor(of[k], Append(path, k), MissedIn(want, k, got))
      <3>1. k \in Nat /\ Append(path, k) \in Seq(Nat)
        BY <2>1, DocIs, AppendProperties
      <3>2. RightFor(matchKey(match, Append(path, k), want.parts[k], k, got), Append(path, k), MissedIn(want, k, got))
        BY <1>3, <3>1, KeyIsRight
      <3> QED BY <3>2
    <2>3. match[want][path][got] = FirstMismatch(of)
      BY <1>1, <1>3 DEF matchObject
    <2>4. DOMAIN of = DOMAIN want.parts
      OBVIOUS
    <2> HIDE DEF of
    <2> QED BY <2>1, <2>2, <2>3, <2>4, LoopIsRight
  <1> QED BY <1>2, <1>3

\* An array is compared right when its items are.
LEMMA ArrayIsRight ==
    ASSUME NEW want \in Docs, want.kind = "array", \A k \in DOMAIN want.parts : RightMatch(want.parts[k])
    PROVE  RightMatch(want)
  <1> SUFFICES ASSUME NEW path \in Seq(Nat), NEW got \in Docs
               PROVE  RightFor(match[want][path][got], path, Missed(want, got))
    BY DEF RightMatch
  <1>1. match[want][path][got] = matchArray(match, path, want, got)
    BY MatchIs DEF matchValue
  <1>2. CASE got.kind # "array"
    <2>1. match[want][path][got] = Differs(path, "want an array")
      BY <1>1, <1>2 DEF matchArray
    <2>2. ~Meets(got, want)
      BY <1>2 DEF Meets
    <2> QED BY <2>1, <2>2, WholeIsRight DEF Reasons
  <1>3. CASE got.kind = "array" /\ Len(got.parts) # Len(want.parts)
    <2>1. match[want][path][got] = Differs(path, "want items")
      BY <1>1, <1>3 DEF matchArray
    <2>2. ~Meets(got, want)
      BY <1>3 DEF Meets
    <2> QED BY <2>1, <2>2, WholeIsRight DEF Reasons
  <1>4. CASE got.kind = "array" /\ Len(got.parts) = Len(want.parts)
    <2> DEFINE of == [i \in DOMAIN want.parts |-> match[want.parts[i]][Append(path, i)][got.parts[i]]]
    <2>1. Meets(got, want) /\ HasParts(want)
      BY <1>4 DEF Meets, HasParts
    <2>2. DOMAIN got.parts = DOMAIN want.parts
      BY <1>4, DocsAssumption
    <2>3. ASSUME NEW k \in DOMAIN want.parts
          PROVE  RightFor(of[k], Append(path, k), MissedIn(want, k, got))
      <3>1. k \in Nat /\ Append(path, k) \in Seq(Nat)
        BY <2>1, DocIs, AppendProperties
      <3>2. ~AbsentPart(want, k) /\ HasPart(got, k)
        BY <1>4, <2>2 DEF AbsentPart, HasPart, HasParts
      <3>3. RightFor(match[want.parts[k]][Append(path, k)][got.parts[k]], Append(path, k), MissedIn(want, k, got))
        BY <2>1, <3>1, <3>2, PartIsRight
      <3> QED BY <3>3
    <2>4. match[want][path][got] = FirstMismatch(of)
      BY <1>1, <1>4 DEF matchArray
    <2>5. DOMAIN of = DOMAIN want.parts
      OBVIOUS
    <2> HIDE DEF of
    <2> QED BY <2>1, <2>3, <2>4, <2>5, LoopIsRight
  <1> QED BY <1>2, <1>3, <1>4

\* Numbers, strings, truth values and nulls.
LEMMA LeafIsRight ==
    ASSUME NEW want \in Docs, ~HasParts(want)
    PROVE  RightMatch(want)
  <1> SUFFICES ASSUME NEW path \in Seq(Nat), NEW got \in Docs
               PROVE  RightFor(match[want][path][got], path, Missed(want, got))
    BY DEF RightMatch
  <1>1. match[want][path][got] = matchValue(match, path, want, got)
    BY MatchIs
  <1>2. want.kind \in {"number", "string", "boolean", "null"}
    BY DocsAssumption DEF HasParts
  <1>3. want.kind # "number" => (want = got <=> Meets(got, want))
    BY <1>2, DocsAssumption DEF Meets
  <1>4. match[want][path][got] = IF Meets(got, want) THEN Same ELSE Differs(path, "want")
    <2>1. CASE want.kind = "number"
      BY <1>1, <2>1 DEF matchValue, matchNumber, Meets
    <2>2. CASE want.kind # "number"
      BY <1>1, <1>2, <1>3, <2>2 DEF matchValue
    <2> QED BY <2>1, <2>2
  <1>5. CASE ~Meets(got, want)
    BY <1>4, <1>5, WholeIsRight DEF Reasons
  <1>6. CASE Meets(got, want)
    <2>1. <<>> \notin Missed(want, got)
      BY <1>6, MissedRoot
    <2>2. Missed(want, got) = {}
      BY <2>1, MissedBelow, Zenon
    <2> QED BY <1>4, <1>6, <2>2 DEF RightFor
  <1> QED BY <1>5, <1>6

\* match is right for every value, at every depth.
LEMMA MatchIsRight == \A want \in Docs : RightMatch(want)
  <1> DEFINE G == {doc \in Docs : RightMatch(doc)}
  <1>1. ASSUME NEW d \in Docs, HasParts(d) => \A k \in DOMAIN d.parts : d.parts[k] \in G
        PROVE  d \in G
    <2>1. CASE d.kind = "object"
      BY <1>1, <2>1, ObjectIsRight DEF HasParts
    <2>2. CASE d.kind = "array"
      BY <1>1, <2>2, ArrayIsRight DEF HasParts
    <2>3. CASE ~HasParts(d)
      BY <2>3, LeafIsRight
    <2> QED BY <2>1, <2>2, <2>3 DEF HasParts
  <1> HIDE DEF G
  <1>2. Docs \subseteq G
    BY <1>1, DocInduction
  <1> QED BY <1>2 DEF G

-----------------------------------------------------------------------------
(* The verdicts and the places that the report names.                      *)

\* A case passes unless each of its outcomes misses something, and then each
\* mismatch is at the first place.
Judges(verdict, expect, doc) ==
    /\ verdict.passed = TRUE <=> expect = <<>> \/ \E j \in DOMAIN expect : Missed(expect[j], doc) = {}
    /\ verdict.passed # TRUE =>
         \A j \in DOMAIN expect : First(verdict.mismatches[j].path, Missed(expect[j], doc))

\* The verdict of check says what is missed.
LEMMA CheckIs ==
    ASSUME NEW case \in TestCases, NEW result \in Results, ~result.error
    PROVE  Judges(check(case, result), case.expect, result.doc)
  <1> DEFINE expect == case.expect
             doc == result.doc
             mismatches == [j \in DOMAIN expect |-> match[expect[j]][<<>>][doc]]
             Miss(j) == Missed(expect[j], doc)
             verdict == check(case, result)
             agrees == mismatches = <<>> \/ \E j \in DOMAIN mismatches : mismatches[j] = Same
  <1>1. expect \in Seq(Docs) /\ doc \in Docs
    BY CasesAssumption, ResultsAssumption
  <1>2. Len(expect) \in Nat /\ DOMAIN expect = 1 .. Len(expect) /\ \A j \in DOMAIN expect : expect[j] \in Docs
    BY <1>1, LenProperties, ElementOfSeq
  <1>3. ASSUME NEW j \in DOMAIN expect
        PROVE  \/ mismatches[j] = Same /\ Miss(j) = {}
               \/ mismatches[j] # Same /\ First(mismatches[j].path, Miss(j))
    <2>1. RightFor(mismatches[j], <<>>, Miss(j))
      BY <1>1, <1>2, MatchIsRight, EmptySeq DEF RightMatch
    <2>2. Same.why = ""
      BY DEF Same
    <2>3. \A p \in Seq(Nat) : <<>> \o p = p
      BY ConcatEmptySeq
    <2> HIDE DEF mismatches, Miss
    <2> QED BY <2>1, <2>2, <2>3 DEF RightFor
  <1>4. \A j \in DOMAIN expect : mismatches[j] = Same <=> Miss(j) = {}
    BY <1>3 DEF First
  <1>5. mismatches = <<>> <=> expect = <<>>
    <2>1. \A s : s = <<>> => DOMAIN s = {}
      OBVIOUS
    <2>2. DOMAIN expect = {} => expect = <<>>
      BY <1>1, <1>2, EmptySeq
    <2>3. DOMAIN expect = {} => mismatches = <<>>
      OBVIOUS
    <2> QED BY <2>1, <2>2, <2>3
  <1>6. agrees <=> expect = <<>> \/ \E j \in DOMAIN expect : Miss(j) = {}
    BY <1>4, <1>5
  <1>7. verdict = IF agrees THEN [passed |-> TRUE, mismatches |-> <<>>]
                  ELSE [passed |-> FALSE, mismatches |-> mismatches]
    BY DEF check
  <1> HIDE DEF verdict, agrees, mismatches
  <1>8. CASE agrees
    <2>1. verdict.passed = TRUE
      BY <1>7, <1>8
    <2> QED BY <1>6, <1>8, <2>1 DEF Judges, verdict
  <1>9. CASE ~agrees
    <2>1. verdict.passed = FALSE /\ verdict.mismatches = mismatches
      BY <1>7, <1>9
    <2>2. \A j \in DOMAIN expect : First(mismatches[j].path, Miss(j))
      BY <1>3, <1>6, <1>9
    <2>3. Judges(verdict, expect, doc)
      BY <1>6, <1>9, <2>1, <2>2 DEF Judges
    <2> QED BY <2>3 DEF verdict
  <1> QED BY <1>8, <1>9

\* The report has the verdict of each of its results.
Checked(files, entry) ==
    LET verdict == check(files[entry.suite].cases[entry.case], entry.result)
    IN  entry.passed = verdict.passed /\ entry.mismatches = verdict.mismatches

CheckedInv == \A i \in DOMAIN report : Checked(suites, report[i])

\* The verdicts are checked at first, and each action keeps or extends them.
LEMMA CheckedStep ==
    ASSUME IInv, CheckedInv, [Next]_vars
    PROVE  CheckedInv'
  <1>1. CASE UNCHANGED <<suites, report>>
    BY <1>1 DEF CheckedInv, Checked
  <1>2. ASSUME NEW result \in Results, RunCase(result)
        PROVE  CheckedInv'
    <2> DEFINE verdict == check(Cases[at.case], result)
               entry == [suite |-> at.suite, case |-> at.case, result |-> result,
                         passed |-> verdict.passed, mismatches |-> verdict.mismatches]
    <2>1. report' = Append(report, entry) /\ suites' = suites
      BY <1>2 DEF RunCase
    <2>2. Checked(suites, entry)
      BY DEF Checked, Cases
    <2>3. /\ Len(report) \in Nat /\ DOMAIN report = 1 .. Len(report)
          /\ DOMAIN report' = 1 .. Len(report) + 1
          /\ \A i \in 1 .. Len(report) : report'[i] = report[i]
          /\ report'[Len(report) + 1] = entry
      <3> HIDE DEF entry
      <3>1. \E S : report \in Seq(S) /\ entry \in S
        <4>1. PICK S : report \in Seq(S)
          BY DEF IInv, TypeOK
        <4>2. report \in Seq(S \cup {entry}) /\ entry \in S \cup {entry}
          BY <4>1
        <4> QED BY <4>2
      <3>2. PICK S : report \in Seq(S) /\ entry \in S
        BY <3>1
      <3>3. Len(report) \in Nat /\ DOMAIN report = 1 .. Len(report)
        BY <3>2, LenProperties
      <3>4. /\ Append(report, entry) \in Seq(S) /\ Len(Append(report, entry)) = Len(report) + 1
            /\ \A i \in 1 .. Len(report) : Append(report, entry)[i] = report[i]
            /\ Append(report, entry)[Len(report) + 1] = entry
        BY <3>2, AppendProperties
      <3>5. DOMAIN Append(report, entry) = 1 .. Len(report) + 1
        BY <3>4, LenProperties
      <3> QED BY <2>1, <3>3, <3>4, <3>5
    <2> HIDE DEF entry
    <2>4. ASSUME NEW i \in DOMAIN report' PROVE Checked(suites, report'[i])
      <3>1. CASE i = Len(report) + 1
        BY <2>2, <2>3, <3>1
      <3>2. CASE i # Len(report) + 1
        <4>1. i \in DOMAIN report /\ report'[i] = report[i]
          BY <2>3, <3>2
        <4> QED BY <4>1 DEF CheckedInv
      <3> QED BY <3>1, <3>2
    <2> QED BY <2>1, <2>4 DEF CheckedInv
  <1> QED BY <1>1, <1>2 DEF Next, vars, FailToStart, Load, LeaveSuite, Abort, Summarize, Signal, Ended

\* A case passes when its result has everything that one of its outcomes asks,
\* and the report names for each outcome of a failed case the first place that
\* differs (match and check of eval.go).
THEOREM DifferenceIsFirst == Spec => []FirstDifference
  <1>1. Init => CheckedInv
    <2>1. Init => DOMAIN report = {}
      BY DEF Init
    <2> QED BY <2>1 DEF CheckedInv
  <1>2. IInv /\ CheckedInv => FirstDifference
    <2> SUFFICES ASSUME IInv, CheckedInv, NEW i \in DOMAIN report, ~report[i].result.error
                 PROVE  LET expect == suites[report[i].suite].cases[report[i].case].expect
                            Miss(j) == Missed(expect[j], report[i].result.doc)
                        IN  /\ report[i].passed <=> expect = <<>> \/ \E j \in DOMAIN expect : Miss(j) = {}
                            /\ ~report[i].passed =>
                                 \A j \in DOMAIN expect :
                                     LET path == report[i].mismatches[j].path
                                     IN  path \in Miss(j) /\ \A p \in Miss(j) \ {path} : Precedes(path, p)
      BY DEF FirstDifference
    <2> DEFINE case == suites[report[i].suite].cases[report[i].case]
               result == report[i].result
               verdict == check(case, result)
    <2>1. result \in Results /\ report[i].passed \in BOOLEAN
      <3> DEFINE Reported == [suite : Nat, case : Nat, result : Results, passed : BOOLEAN,
                              mismatches : Mismatches]
      <3>1. report \in Seq(Reported) /\ DOMAIN report = 1 .. Len(report)
        BY ReportIs DEF IInv, TypeOK
      <3>2. report[i] \in Reported
        <4> HIDE DEF Reported
        <4> QED BY <3>1, ElementOfSeq
      <3> QED BY <3>2
    <2>2. case \in TestCases
      <3>1. report[i].suite \in DOMAIN suites /\ report[i].case \in DOMAIN suites[report[i].suite].cases
        BY ReportIs DEF IInv
      <3>2. /\ suites[report[i].suite].cases \in Seq(TestCases)
            /\ DOMAIN suites[report[i].suite].cases = 1 .. Len(suites[report[i].suite].cases)
        BY <3>1, SuitesAre DEF IInv
      <3> QED BY <3>1, <3>2, ElementOfSeq
    <2>3. report[i].passed = verdict.passed /\ report[i].mismatches = verdict.mismatches
      BY DEF CheckedInv, Checked
    <2>4. Judges(verdict, case.expect, result.doc)
      BY <2>1, <2>2, CheckIs
    <2> HIDE DEF verdict
    <2> QED BY <2>1, <2>3, <2>4 DEF Judges, First
  <1>3. IInv /\ CheckedInv /\ [Next]_vars => CheckedInv'
    BY CheckedStep
  <1>4. Spec => []CheckedInv
    BY <1>1, <1>3, Inductive, PTL DEF Spec
  <1> QED BY <1>2, <1>4, Inductive, PTL
=============================================================================
