------------------------------- MODULE Evaluation -------------------------------
(***************************************************************************)
(* The evaluation runner (backend/internal/eval/eval.go, and runEval of    *)
(* backend/cmd/server/main.go): the cases of all suites are run through    *)
(* the pipeline one after the other, each result is compared with the      *)
(* outcomes that its case accepts, and the exit code says whether all      *)
(* passed.  The run may be interrupted at any time.                        *)
(*                                                                         *)
(* What the pipeline returns for a case is any of Results.  The comparison *)
(* is that of OutcomeMatch.                                                *)
(***************************************************************************)
EXTENDS OutcomeMatch, FiniteSets

CONSTANTS TestCases,   \* the cases that suites are made of
          SuiteLists,  \* command lines: sequences of suite files
          Results      \* what the pipeline may return

ASSUME SuitesAssumption == SuiteLists \subseteq Seq([loads : BOOLEAN, cases : Seq(TestCases)])
ASSUME CasesAssumption == \A case \in TestCases : case.expect \in Seq(Docs)
ASSUME ResultsAssumption ==
    \A result \in Results : result.error \in BOOLEAN /\ (~result.error => result.doc \in Docs)

VARIABLES
    suites,    \* the suite files of the command line
    at,        \* the suite and the case that are next; case 0 loads the suite
    ctxDone,   \* the context is cancelled by a signal
    casesRun,
    failures,  \* the list of that name
    report,    \* the cases that were run, with result and verdict
    summary,   \* the counts in the last line of the report
    exit       \* the exit code, -1 while the program runs

vars == <<suites, at, ctxDone, casesRun, failures, report, summary, exit>>

-----------------------------------------------------------------------------
Mismatches == {check(case, result).mismatches : case \in TestCases, result \in Results}

TypeOK ==
    /\ suites \in SuiteLists
    /\ at \in [suite : 1 .. Len(suites) + 1, case : Nat]
    /\ ctxDone \in BOOLEAN
    /\ casesRun = Len(report)
    /\ failures \in Seq([suite : Nat, case : Nat])
    /\ report \in Seq([suite : Nat, case : Nat, result : Results, passed : BOOLEAN,
                       mismatches : Mismatches])
    /\ \A i \in DOMAIN report :
         /\ report[i].suite \in DOMAIN suites
         /\ report[i].case \in DOMAIN suites[report[i].suite].cases
    /\ summary = <<>> \/ (summary.passed \in Int /\ summary.failed \in Nat)
    /\ exit \in {-1, 0, 1}

Init ==
    /\ suites \in SuiteLists
    /\ at = [suite |-> 1, case |-> 0]
    /\ ctxDone = FALSE /\ casesRun = 0
    /\ failures = <<>> /\ report = <<>> /\ summary = <<>> /\ exit = -1

Running == exit = -1

\* Mutant: the number of failures is the exit code.
ExitCount(failed) == failed

\* The exit code of runEval.
ExitCode(failed) == IF failed > 0 THEN 1 ELSE 0

\* The pipeline cannot be set up, or the results file cannot be created.
FailToStart ==
    /\ Running /\ at = [suite |-> 1, case |-> 0] /\ failures = <<>>
    /\ exit' = 1
    /\ UNCHANGED <<suites, at, ctxDone, casesRun, failures, report, summary>>

NextSuite == [suite |-> at.suite + 1, case |-> 0]

Load ==
    /\ Running /\ at.suite <= Len(suites) /\ at.case = 0
    /\ \/ /\ suites[at.suite].loads
          /\ at' = [at EXCEPT !.case = 1]
          /\ UNCHANGED failures
       \/ /\ ~suites[at.suite].loads
          /\ at' = NextSuite
          /\ failures' = Append(failures, at)
    /\ UNCHANGED <<suites, ctxDone, casesRun, report, summary, exit>>

Cases == suites[at.suite].cases

AtCase == Running /\ at.suite <= Len(suites) /\ at.case \in DOMAIN Cases

RunCase(result) ==
    /\ AtCase /\ ~ctxDone
    /\ LET verdict == check(Cases[at.case], result) IN
         /\ casesRun' = casesRun + 1
         /\ report' = Append(report, [suite |-> at.suite, case |-> at.case, result |-> result,
                                      passed |-> verdict.passed, mismatches |-> verdict.mismatches])
         /\ failures' = IF verdict.passed THEN failures ELSE Append(failures, at)
    /\ at' = [at EXCEPT !.case = @ + 1]
    /\ UNCHANGED <<suites, ctxDone, summary, exit>>

LeaveSuite ==
    /\ Running /\ at.suite <= Len(suites)
    /\ at.case = Len(Cases) + 1
    /\ at' = NextSuite
    /\ UNCHANGED <<suites, ctxDone, casesRun, failures, report, summary, exit>>

\* Mutant: an interrupted run returns the failures so far.
AbortWithFailures ==
    /\ AtCase /\ ctxDone
    /\ exit' = ExitCode(Len(failures))
    /\ UNCHANGED <<suites, at, ctxDone, casesRun, failures, report, summary>>

\* ctx.Err() before a case.
Abort ==
    /\ AtCase /\ ctxDone
    /\ exit' = ExitCode(Len(failures) + 1)
    /\ UNCHANGED <<suites, at, ctxDone, casesRun, failures, report, summary>>

\* Mutant: a suite that cannot be loaded is taken off the passed cases only.
CountLoaded(failed) == [passed |-> casesRun - failed, failed |-> Cardinality({i \in DOMAIN report : ~report[i].passed})]

Counts(failed) == [passed |-> casesRun - failed, failed |-> failed]

Summarize ==
    /\ Running /\ at.suite = Len(suites) + 1
    /\ summary' = Counts(Len(failures))
    /\ exit' = ExitCode(Len(failures))
    /\ UNCHANGED <<suites, at, ctxDone, casesRun, failures, report>>

Signal ==
    /\ Running /\ ~ctxDone
    /\ ctxDone' = TRUE
    /\ UNCHANGED <<suites, at, casesRun, failures, report, summary, exit>>

Ended == ~Running /\ UNCHANGED vars

Next ==
    \/ FailToStart \/ Load \/ LeaveSuite \/ Abort \/ Summarize \/ Signal \/ Ended
    \/ \E result \in Results : RunCase(result)

Spec == Init /\ [][Next]_vars

-----------------------------------------------------------------------------
\* A case passes when its result has everything that one of its outcomes asks,
\* and what the report names for each outcome of a failed case is the first
\* place that differs (docs/user-guide/evaluation.md:58-59 and 112-119).
FirstDifference ==
    \A i \in DOMAIN report :
        LET expect == suites[report[i].suite].cases[report[i].case].expect
            Miss(j) == Missed(expect[j], report[i].result.doc)
        IN  ~report[i].result.error =>
              /\ report[i].passed <=> expect = <<>> \/ \E j \in DOMAIN expect : Miss(j) = {}
              /\ ~report[i].passed =>
                   \A j \in DOMAIN expect :
                       LET path == report[i].mismatches[j].path
                       IN  path \in Miss(j) /\ \A p \in Miss(j) \ {path} : Precedes(path, p)

\* "The exit code is 0 when every case passes and 1 otherwise."
\* (docs/user-guide/evaluation.md:18), also when a suite cannot be loaded and
\* when a signal comes before the last case has run.  Only a command line
\* without any case may also end with 1, when the runner fails to start.
ExitTellsAll ==
    LET AllPassed ==
            \A i \in DOMAIN suites :
                /\ suites[i].loads
                /\ \A c \in DOMAIN suites[i].cases :
                     \E k \in DOMAIN report :
                         report[k].suite = i /\ report[k].case = c /\ report[k].passed
        NoCase == \A i \in DOMAIN suites : suites[i].loads /\ suites[i].cases = <<>>
    IN  ~Running => /\ exit = 0 => AllPassed
                    /\ AllPassed => exit = 0 \/ NoCase

\* The counts of the last line.  With a suite that could not be loaded the
\* number of passed cases is too small, and even negative (eval.go:147); with
\* none it is right.
SummaryIsRight ==
    summary # <<>> =>
        LET unloaded == Cardinality({i \in DOMAIN suites : ~suites[i].loads})
            Count(v) == Cardinality({i \in DOMAIN report : report[i].passed = v})
        IN  /\ summary.failed = Count(FALSE) + unloaded
            /\ summary.passed = Count(TRUE) - unloaded
=============================================================================
