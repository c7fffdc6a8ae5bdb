------------------------------ MODULE OutcomeMatch ------------------------------
(***************************************************************************)
(* The comparison of the evaluation runner (match and check of             *)
(* backend/internal/eval/eval.go): which places of a result differ from    *)
(* the outcome that a case accepts, and which of them is reported.         *)
(*                                                                         *)
(* A decoded JSON value is a record with a kind; objects and arrays have   *)
(* parts, by key and by position.  Keys are numbered in their sorted       *)
(* order, so that a path is a sequence of numbers.                         *)
(***************************************************************************)
EXTENDS Integers, SequencesExt

CONSTANTS Docs,   \* JSON values: the expected ones, the results and all parts of them
          depth   \* how deep each of them is nested

HasParts(doc) == doc.kind \in {"object", "array"}

ASSUME DocsAssumption ==
    \A doc \in Docs :
        /\ depth[doc] \in Nat
        /\ doc.kind \in {"object", "array", "number", "string", "boolean", "null"}
        /\ doc.kind = "object" => DOMAIN doc.parts \subseteq Nat
        /\ doc.kind = "array" => DOMAIN doc.parts = 1 .. Len(doc.parts) /\ Len(doc.parts) \in Nat
        /\ doc.kind \in {"string", "boolean"} => doc = [kind |-> doc.kind, value |-> doc.value]
        /\ doc.kind = "null" => doc = [kind |-> "null"]
        /\ HasParts(doc) =>
             \A k \in DOMAIN doc.parts : doc.parts[k] \in Docs /\ depth[doc.parts[k]] < depth[doc]

-----------------------------------------------------------------------------
(* match: where got first differs from want.  The operators for objects    *)
(* and arrays are given match itself, as inner, for the parts.             *)

Same == [path |-> <<>>, why |-> ""]
Differs(path, why) == [path |-> path, why |-> why]

\* A loop over parts, in their order, that returns the first mismatch.
FirstMismatch(of) ==
    LET differing == {k \in DOMAIN of : of[k] # Same}
    IN  IF differing = {} THEN Same ELSE of[Min(differing)]

\* A null asks for the absence of a key.
matchKey(inner, path, want, key, got) ==
    LET there == key \in DOMAIN got.parts
    IN  IF want.kind = "null"
        THEN IF there THEN Differs(path, "want absent") ELSE Same
        ELSE IF there THEN inner[want][path][got.parts[key]] ELSE Differs(path, "missing")

matchObject(inner, path, want, got) ==
    IF got.kind # "object" THEN Differs(path, "want an object")
    ELSE FirstMismatch([k \in DOMAIN want.parts |->
                           matchKey(inner, Append(path, k), want.parts[k], k, got)])

\* Mutant: only the items that are there are compared.
matchArrayPrefix(inner, path, want, got) ==
    IF got.kind # "array" THEN Differs(path, "want an array")
    ELSE FirstMismatch([i \in DOMAIN want.parts \cap DOMAIN got.parts |->
                           inner[want.parts[i]][Append(path, i)][got.parts[i]]])

matchArray(inner, path, want, got) ==
    IF got.kind # "array" THEN Differs(path, "want an array")
    ELSE IF Len(got.parts) # Len(want.parts) THEN Differs(path, "want items")
    ELSE FirstMismatch([i \in DOMAIN want.parts |->
                           inner[want.parts[i]][Append(path, i)][got.parts[i]]])

\* Numbers compare by value, however they are written.
matchNumber(path, want, got) ==
    IF got.kind = "number" /\ got.value = want.value THEN Same ELSE Differs(path, "want")

matchValue(inner, path, want, got) ==
    CASE want.kind = "object" -> matchObject(inner, path, want, got)
      [] want.kind = "array"  -> matchArray(inner, path, want, got)
      [] want.kind = "number" -> matchNumber(path, want, got)
      [] OTHER                -> IF want = got THEN Same ELSE Differs(path, "want")

match[want \in Docs] ==
    [path \in Seq(Nat) |-> [got \in Docs |-> matchValue(match, path, want, got)]]

\* check: the mismatches of all accepted outcomes, unless one matches.
check(case, result) ==
    LET mismatches == [j \in DOMAIN case.expect |-> match[case.expect[j]][<<>>][result.doc]]
    IN  IF result.error THEN [passed |-> FALSE, mismatches |-> <<>>]
        ELSE IF mismatches = <<>> \/ \E j \in DOMAIN mismatches : mismatches[j] = Same
        THEN [passed |-> TRUE, mismatches |-> <<>>]
        ELSE [passed |-> FALSE, mismatches |-> mismatches]

-----------------------------------------------------------------------------
(* A match without a walk: all places of a value, what an expected value   *)
(* asks of each of its places, and which place comes first.                *)

Place(path, isKey, value) == [path |-> path, isKey |-> isKey, value |-> value]

\* A place of the part k, as a place of the whole.
Within(doc, k, place) ==
    Place(<<k>> \o place.path, IF place.path = <<>> THEN doc.kind = "object" ELSE place.isKey,
          place.value)

Places[doc \in Docs] ==
    {Place(<<>>, FALSE, doc)} \cup
        IF HasParts(doc)
        THEN UNION {{Within(doc, k, place) : place \in Places[doc.parts[k]]} : k \in DOMAIN doc.parts}
        ELSE {}

\* The values at a path: one or none.
Found(path, doc) == {place.value : place \in {place \in Places[doc] : place.path = path}}

\* What a value at the place of another one needs to be.
Meets(v, want) ==
    /\ v.kind = want.kind
    /\ v.kind = "array" => Len(v.parts) = Len(want.parts)
    /\ v.kind \in {"number", "string", "boolean"} => v.value = want.value

\* What one place of the expected value asks of the whole result.
Satisfied(asked, got) ==
    IF asked.value.kind = "null" /\ asked.isKey THEN Found(asked.path, got) = {}
    ELSE \E v \in Found(asked.path, got) : Meets(v, asked.value)

Missed(want, got) == {asked.path : asked \in {asked \in Places[want] : ~Satisfied(asked, got)}}

Precedes(p, q) ==
    \/ Len(p) < Len(q) /\ \A j \in DOMAIN p : p[j] = q[j]
    \/ \E i \in DOMAIN p \cap DOMAIN q : p[i] < q[i] /\ \A j \in 1 .. i - 1 : p[j] = q[j]
=============================================================================
