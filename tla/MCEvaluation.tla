------------------------------ MODULE MCEvaluation ------------------------------
(* Every expectation of a small set, and pairs of them, against every      *)
(* result, in one suite with one case; and command lines of two suites     *)
(* with up to three cases, and a suite that does not load in any place.    *)
EXTENDS Evaluation

\* The keys action, parameters, status, steps and target in sorted order.
Action == 1
Parameters == 2
Status == 3
Steps == 4

Obj(parts) == [kind |-> "object", parts |-> parts]
Arr(items) == [kind |-> "array", parts |-> items]
Str(s) == [kind |-> "string", value |-> s]
Num(n, written) == [kind |-> "number", value |-> n, written |-> written]
Bool(b) == [kind |-> "boolean", value |-> b]
Null == [kind |-> "null"]

Home == Obj(Action :> Str("home"))
Turn(n) == Obj(Action :> Str("turn") @@ Parameters :> n)
Recipe(steps) == Obj(Status :> Str("success") @@ Steps :> Arr(steps))
Refusal == Obj(Status :> Str("error"))

Answers == {Recipe(<<>>), Recipe(<<Home>>), Recipe(<<Home, Home>>), Refusal,
         Recipe(<<Home, Turn(Num(2, "2.0"))>>), Recipe(<<Turn(Num(2, "2"))>>),
         Recipe(<<Turn(Num(3, "3"))>>), Recipe(<<Turn(Bool("true"))>>), Recipe(<<Turn(Arr(<<Num(2, "2")>>))>>),
         Recipe(<<Turn(Arr(<<Null>>))>>), Recipe(<<Turn(Null)>>)}

MCResults == [error : {FALSE}, doc : Answers] \cup {[error |-> TRUE, doc |-> Null]}

Wanted == (Answers \ {Recipe(<<Home, Home>>)})
    \cup {Obj(<<>>), Obj(Status :> Str("success")), Obj(Steps :> Null), Obj(Steps :> Str("none")),
          Obj(Status :> Null @@ Steps :> Arr(<<>>)),
          Obj(Steps :> Arr(<<Obj(<<>>), Obj(Parameters :> Num(2, "2"))>>)),
          Obj(Steps :> Arr(<<Obj(Action :> Str("home") @@ Parameters :> Null), Obj(<<>>)>>))}

RECURSIVE WithParts(_)
WithParts(docs) ==
    docs \cup UNION {WithParts(Range(doc.parts)) : doc \in {doc \in docs : HasParts(doc)}}
MCDocs == WithParts(Answers \cup Wanted)

RECURSIVE Depth(_)
Depth(doc) == IF HasParts(doc) THEN 1 + Max({0} \cup {Depth(d) : d \in Range(doc.parts)}) ELSE 0
MCdepth == [doc \in MCDocs |-> Depth(doc)]

Case(expect) == [expect |-> expect]
Suite(cases) == [loads |-> TRUE, cases |-> cases]
Broken == [loads |-> FALSE, cases |-> <<>>]

\* The outcomes that the cases of the longer runs accept.
Either == <<Refusal, Recipe(<<Home>>)>>
TwoCases == Suite(<<Case(Either), Case(<<>>)>>)
Three == {TwoCases, Suite(<<Case(<<Recipe(<<Home>>)>>)>>), Suite(<<>>), Broken}

Others == {Refusal, Recipe(<<Home>>), Recipe(<<Turn(Null)>>), Obj(Steps :> Null)}
Single == {Case(expect) : expect \in {<<w>> : w \in Wanted} \cup (Wanted \X Others)}
MCTestCases == Single \cup {Case(Either), Case(<<>>), Case(<<Recipe(<<Home>>)>>)}
MCSuiteLists == {<<Suite(<<case>>)>> : case \in Single} \cup ((Three \X Three) \ {<<TwoCases, TwoCases>>})
=============================================================================
