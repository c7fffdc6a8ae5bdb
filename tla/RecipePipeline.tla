----------------------------- MODULE RecipePipeline -----------------------------
(***************************************************************************)
(* Pipeline.Run and the decision that HandlePrompt takes on its result     *)
(* (backend/internal/pipeline): one or two answers of the language model   *)
(* are turned into a recipe for the robot whose names are all registered,  *)
(* or into a refusal or an error for the user.                             *)
(*                                                                         *)
(* A document is what the JSON schema lets through: a recipe, that is a    *)
(* sequence of steps whose named parameters are functions, or an error     *)
(* document of some type whose message may quote a term.  The matcher's    *)
(* similarity is a relation between a written and a registered name.       *)
(***************************************************************************)
EXTENDS Naturals, Sequences

CONSTANTS Names,     \* what the model may write, and what may be registered
          Similar,   \* pairs <<written, registered>> that the matcher accepts
          Recipes,   \* the recipes the model may answer with
          Scenes,    \* the name lists that the middleware or the cache may hold
          None       \* nothing yet, or no term in quotes

ASSUME SimilarAssumption == Similar \subseteq Names \X Names
ASSUME NoneAssumption == None \notin Names

FieldOrder == <<"target", "destination", "vector", "orientation">>
Fields == {FieldOrder[j] : j \in 1 .. 4}
KindOf == [target |-> "object", destination |-> "object",
           vector |-> "movement", orientation |-> "orientation"]
Kinds  == {"object", "movement", "orientation"}

\* A step names some of the fields; the parameters that are not names are left out.
Steps == UNION {[S -> Names] : S \in SUBSET Fields}
ASSUME RecipesAssumption == Recipes \subseteq Seq(Steps)
ASSUME ScenesAssumption == Scenes \subseteq [Kinds -> SUBSET Names]

Refusals == [status : {"error"}, type : {"missing_object", "invalid_command", "safety_violation"},
             quoted : Names \cup {None}]
Success(r) == [status |-> "success", recipe |-> r]
Failure    == [status |-> "failure"]

ASSUME NoneIsNoDocument == None \notin Refusals \cup {Failure} \cup {Success(r) : r \in Recipes}

VARIABLES
    pc,        \* where the command stands
    scene,     \* EnvironmentParams, as read for this command
    cache,     \* the lists of the rosbridge client, for when the read fails
    calls,     \* POST /generate requests made
    answer,    \* the last document of the model that passed the schema
    refusal,   \* the model's own refusal that the retry started from
    result,    \* what Run has returned
    executed   \* the recipe given to ExecuteRecipe

vars == <<pc, scene, cache, calls, answer, refusal, result, executed>>

-----------------------------------------------------------------------------
(* matcher.Resolve and resolveRecipeNames.                                 *)

\* The candidates among the registered names: an equal one is the only one.
Candidates(name, registered) ==
    IF name \in registered THEN {name}
    ELSE {n \in registered : <<name, n>> \in Similar}

Unique(S) == \E n \in S : S = {n}

Listed(env, f) == env[KindOf[f]]

\* The places, as step and field numbers, whose name has not one candidate.
Faults(r, env) ==
    {p \in (DOMAIN r) \X (1 .. 4) :
        /\ FieldOrder[p[2]] \in DOMAIN r[p[1]]
        /\ ~Unique(Candidates(r[p[1]][FieldOrder[p[2]]], Listed(env, FieldOrder[p[2]])))}

First(P) == CHOOSE p \in P : \A q \in P : p[1] < q[1] \/ (p[1] = q[1] /\ p[2] <= q[2])

\* Mutant: an ambiguous name gets an error type that the schema does not know.
NameErrorOfNewType(name, candidates) ==
    [status |-> "error", quoted |-> name,
     type |-> IF candidates = {} THEN "missing_object" ELSE "ambiguous_name"]

\* buildNameError: what to say of a name with these candidates.
NameError(name, candidates) ==
    [status |-> "error", quoted |-> name,
     type |-> IF candidates = {} THEN "missing_object" ELSE "invalid_command"]

TheOne(S) == CHOOSE n \in S : TRUE

Rewritten(r, env) ==
    [i \in DOMAIN r |-> [f \in DOMAIN r[i] |-> TheOne(Candidates(r[i][f], Listed(env, f)))]]

\* resolveRecipeNames, and finalizeSuccess around it: the first name at fault
\* rejects the whole recipe, otherwise every name is rewritten.
ResolveNames(r, env) ==
    IF Faults(r, env) = {} THEN Success(Rewritten(r, env))
    ELSE LET p == First(Faults(r, env))
             f == FieldOrder[p[2]]
         IN  NameError(r[p[1]][f], Candidates(r[p[1]][f], Listed(env, f)))

-----------------------------------------------------------------------------
TypeOK ==
    /\ pc \in {"scene", "ask", "retry", "decide", "over"}
    /\ scene \in Scenes \cup {None}
    /\ cache \in Scenes
    /\ calls \in 0 .. 2
    /\ answer \in {Success(r) : r \in Recipes} \cup Refusals \cup {None}
    /\ refusal \in Refusals \cup {None}
    /\ result = None \/ result = Failure \/ result \in Refusals
         \/ (result.status = "success" /\ result.recipe \in Seq(Steps))
    /\ executed = None \/ executed \in Seq(Steps)

Init ==
    /\ pc = "scene" /\ cache \in Scenes
    /\ scene = None /\ calls = 0 /\ answer = None /\ refusal = None
    /\ result = None /\ executed = None

\* RefreshEnvironmentParams, or the cached lists when it fails.
ReadScene ==
    /\ pc = "scene"
    /\ \E fresh \in Scenes \cup {cache} : scene' = fresh
    /\ pc' = "ask"
    /\ UNCHANGED <<cache, calls, answer, refusal, result, executed>>

Return(res) == result' = res /\ pc' = "decide"

\* The call of the LLM proxy fails, or its text is not a valid document.
AskFails ==
    /\ pc = "ask"
    /\ calls' = calls + 1
    /\ Return(Failure)
    /\ UNCHANGED <<scene, cache, answer, refusal, executed>>

AskGivesRecipe(r) ==
    /\ pc = "ask"
    /\ calls' = calls + 1 /\ answer' = Success(r)
    /\ Return(ResolveNames(r, scene))
    /\ UNCHANGED <<scene, cache, refusal, executed>>

\* The model refused: recoverMissingObject decides on the quoted term.
Quoted(d) == IF d.quoted = None THEN {} ELSE Candidates(d.quoted, scene["object"])

WorthRetry(d) == d.type = "missing_object" /\ Unique(Quoted(d))

AskGivesRefusal(d) ==
    /\ pc = "ask"
    /\ calls' = calls + 1 /\ answer' = d
    /\ IF WorthRetry(d)
       THEN /\ refusal' = d /\ pc' = "retry"
            /\ UNCHANGED result
       ELSE /\ Return(IF d.type = "missing_object" /\ Quoted(d) # {}
                      THEN NameError(d.quoted, Quoted(d)) ELSE d)
            /\ UNCHANGED refusal
    /\ UNCHANGED <<scene, cache, executed>>

\* retryWithResolvedName: a failed or invalid second answer leaves the refusal.
RetryFails ==
    /\ pc = "retry"
    /\ calls' = calls + 1
    /\ Return(refusal)
    /\ UNCHANGED <<scene, cache, answer, refusal, executed>>

\* Mutant: the recipe of the second answer skips the name resolution.
RetryGivesRecipeUnresolved(r) ==
    /\ pc = "retry"
    /\ calls' = calls + 1 /\ answer' = Success(r)
    /\ Return(Success(r))
    /\ UNCHANGED <<scene, cache, refusal, executed>>

RetryGivesRecipe(r) ==
    /\ pc = "retry"
    /\ calls' = calls + 1 /\ answer' = Success(r)
    /\ Return(ResolveNames(r, scene))
    /\ UNCHANGED <<scene, cache, refusal, executed>>

RetryGivesRefusal(d) ==
    /\ pc = "retry"
    /\ calls' = calls + 1 /\ answer' = d
    /\ Return(d)
    /\ UNCHANGED <<scene, cache, refusal, executed>>

\* HandlePrompt: only a document with the status success goes to the robot.
Decide ==
    /\ pc = "decide"
    /\ pc' = "over"
    /\ executed' = IF result.status = "success" THEN result.recipe ELSE None
    /\ UNCHANGED <<scene, cache, calls, answer, refusal, result>>

Over == pc = "over" /\ UNCHANGED vars

Next ==
    \/ ReadScene \/ AskFails \/ RetryFails \/ Decide \/ Over
    \/ \E r \in Recipes : AskGivesRecipe(r) \/ RetryGivesRecipe(r)
    \/ \E d \in Refusals : AskGivesRefusal(d) \/ RetryGivesRefusal(d)

Spec == Init /\ [][Next]_vars

-----------------------------------------------------------------------------
\* Whatever the model wrote, in the first answer or the second, every name in
\* a recipe that reaches the robot is one of the names read for this command
\* (resolveRecipeNames on both ways through Run).
OnlyRegisteredNames ==
    executed # None =>
        \A i \in DOMAIN executed : \A f \in DOMAIN executed[i] :
            executed[i][f] \in Listed(scene, f)

\* The robot gets the steps that the model wrote, with each name replaced by
\* the only registered name it can mean: nothing is guessed, added or dropped.
NoGuessing ==
    executed # None =>
        /\ answer.status = "success"
        /\ DOMAIN executed = DOMAIN answer.recipe
        /\ \A i \in DOMAIN executed :
             /\ DOMAIN executed[i] = DOMAIN answer.recipe[i]
             /\ \A f \in DOMAIN executed[i] :
                  Candidates(answer.recipe[i][f], Listed(scene, f)) = {executed[i][f]}

\* The model is asked a second time only about an object that it said was
\* missing and that is registered under exactly one similar name.
RetryIsJustified ==
    calls = 2 \/ pc = "retry" =>
        /\ refusal # None /\ refusal.type = "missing_object"
        /\ \E n \in scene["object"] : Quoted(refusal) = {n}

\* A second request that fails costs nothing: the user still gets the refusal
\* of the first, never the failure (docs/technical/command-pipeline.md:81).
RetryNeverHidesRefusal == refusal # None => result # Failure
=============================================================================
