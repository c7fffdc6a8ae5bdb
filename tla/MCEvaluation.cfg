\* Expectations against results, and command lines of up to two suites.
SPECIFICATION Spec
CONSTANTS
    TestCases <- MCTestCases
    SuiteLists <- MCSuiteLists
    Results <- MCResults
    Docs <- MCDocs
    depth <- MCdepth
INVARIANTS TypeOK FirstDifference ExitTellsAll SummaryIsRight
