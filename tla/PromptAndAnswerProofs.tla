------------------------- MODULE PromptAndAnswerProofs -------------------------
(***************************************************************************)
(* Proofs about RecipePipeline, for any names, similarity, recipes and     *)
(* scenes: a recipe that reaches the robot is the one the model wrote with *)
(* every name replaced by its only candidate.  Then about PromptAndAnswer, *)
(* for any template, commands and texts: its steps are those of            *)
(* RecipePipeline, so that what is proved there holds with the texts; the  *)
(* text that reaches the robot is the document that was resolved; a        *)
(* document that stands alone in an answer is found; and the prompt is the *)
(* template with each placeholder filled in once.  Last about Matcher: its *)
(* verdicts are what RecipePipeline takes them for, one more name does not *)
(* change them silently, and its distance is the edit distance.            *)
(***************************************************************************)
EXTENDS PromptAndAnswer, Matcher, SequenceTheorems, FiniteSetTheorems, WellFoundedInduction, TLAPS

\* r is written with every name replaced by its only candidate.
Resolves(r, written, env) ==
    /\ DOMAIN r = DOMAIN written
    /\ \A i \in DOMAIN r :
         /\ DOMAIN r[i] = DOMAIN written[i]
         /\ \A f \in DOMAIN r[i] : Candidates(written[i][f], Listed(env, f)) = {r[i][f]}

\* A candidate is always a registered name.
LEMMA CandidatesRegistered ==
    ASSUME NEW name, NEW names
    PROVE  Candidates(name, names) \subseteq names
BY DEF Candidates

\* Every field of a step has a number.
LEMMA FieldNumber ==
    ASSUME NEW f \in Fields
    PROVE  \E j \in 1 .. 4 : FieldOrder[j] = f
BY DEF Fields

\* resolveRecipeNames: without a fault, each name is replaced by its candidate.
LEMMA RewrittenResolves ==
    ASSUME NEW r \in Seq(Steps), NEW env, Faults(r, env) = {}
    PROVE  Resolves(Rewritten(r, env), r, env)
<1>1. \A i \in DOMAIN r : DOMAIN r[i] \subseteq Fields
  BY DEF Steps
<1>2. ASSUME NEW i \in DOMAIN r, NEW f \in DOMAIN r[i]
      PROVE  Unique(Candidates(r[i][f], Listed(env, f)))
  <2>1. PICK j \in 1 .. 4 : FieldOrder[j] = f
    BY <1>1, FieldNumber
  <2>2. <<i, j>> \in (DOMAIN r) \X (1 .. 4)
    OBVIOUS
  <2>3. <<i, j>>[1] = i /\ <<i, j>>[2] = j
    OBVIOUS
  <2>4. <<i, j>> \notin Faults(r, env)
    OBVIOUS
  <2>5. QED
    BY <2>1, <2>2, <2>3, <2>4 DEF Faults
<1>3. ASSUME NEW i \in DOMAIN r, NEW f \in DOMAIN r[i]
      PROVE  Candidates(r[i][f], Listed(env, f)) = {TheOne(Candidates(r[i][f], Listed(env, f)))}
  BY <1>2 DEF Unique, TheOne
<1>4. QED
  BY <1>3 DEF Resolves, Rewritten

\* finalizeSuccess: what it returns as a success is resolved.
LEMMA SuccessResolves ==
    ASSUME NEW r \in Seq(Steps), NEW env, ResolveNames(r, env).status = "success"
    PROVE  Resolves(ResolveNames(r, env).recipe, r, env)
<1>1. CASE Faults(r, env) = {}
  BY <1>1, RewrittenResolves DEF ResolveNames, Success
<1>2. CASE Faults(r, env) # {}
  BY <1>2 DEF ResolveNames, NameError
<1>3. QED
  BY <1>1, <1>2

\* The second request has a refusal behind it that justifies it.
Justified == refusal \in Refusals /\ refusal.type = "missing_object" /\ Unique(Quoted(refusal))

\* Where the command stands tells how often the model was asked and why, and a
\* refusal that led to a retry is never replaced by a failure.
RetryInv ==
    /\ pc \in {"scene", "ask"} => calls = 0 /\ refusal = None /\ result = None
    /\ pc = "retry" => calls = 1 /\ refusal \in Refusals /\ result = None
    /\ calls = 2 \/ refusal # None => Justified
    /\ refusal # None => result # Failure

\* The document that the command rests on is resolved wherever it is a success,
\* and only that document is executed.
ResultInv ==
    /\ pc \in {"decide", "over"} /\ result.status = "success" =>
         /\ answer.status = "success"
         /\ Resolves(result.recipe, answer.recipe, scene)
    /\ executed # None =>
         /\ pc = "over" /\ result.status = "success" /\ executed = result.recipe

\* After the first step the scene is there, and after the last a document is.
StageInv ==
    /\ pc # "scene" => scene \in Scenes
    /\ pc \in {"decide", "over"} =>
         \/ result = Failure \/ result \in Refusals
         \/ result.status = "success" /\ result.recipe \in Seq(Steps)

IInv == TypeOK /\ StageInv /\ RetryInv /\ ResultInv

-----------------------------------------------------------------------------
\* A set of numbers that is not empty has a least one.
LEMMA LeastExists ==
    ASSUME NEW S \in SUBSET Nat, S # {}
    PROVE  \E i \in S : \A j \in S : i <= j
<1> DEFINE Lt == {p \in Nat \X Nat : p[1] < p[2]}
<1>1. IsWellFoundedOn(Lt, Nat)
  BY NatLessThanWellFounded DEF OpToRel
<1>2. PICK i \in S : \A j \in S : <<j, i>> \notin Lt
  <2> HIDE DEF Lt
  <2>1. QED
    BY <1>1, WFMin
<1>3. ASSUME NEW j \in S PROVE i <= j
  <2>1. <<j, i>> \in Nat \X Nat /\ <<j, i>>[1] = j /\ <<j, i>>[2] = i
    OBVIOUS
  <2>2. QED
    BY <1>2, <2>1
<1>4. QED
  BY <1>3

\* A set of places has a first one, in the order of the steps and their fields.
LEMMA FirstExists ==
    ASSUME NEW P \in SUBSET (Nat \X Nat), P # {}
    PROVE  First(P) \in P
<1> DEFINE Rows == {p[1] : p \in P}
<1>1. PICK i \in Rows : \A j \in Rows : i <= j
  <2>1. Rows \in SUBSET Nat /\ Rows # {}
    OBVIOUS
  <2> HIDE DEF Rows
  <2>2. QED
    BY <2>1, LeastExists
<1> DEFINE Cols == {p[2] : p \in {q \in P : q[1] = i}}
<1>2. PICK k \in Cols : \A l \in Cols : k <= l
  <2>1. Cols \in SUBSET Nat /\ Cols # {}
    BY <1>1
  <2> HIDE DEF Cols
  <2>2. QED
    BY <2>1, LeastExists
<1>3. PICK p \in P : p[1] = i /\ p[2] = k
  BY <1>2
<1>4. \A q \in P : p[1] < q[1] \/ (p[1] = q[1] /\ p[2] <= q[2])
  BY <1>1, <1>2, <1>3
<1>5. QED
  BY <1>4 DEF First

\* resolveRecipeNames returns a recipe or a refusal.
LEMMA ResolveType ==
    ASSUME NEW r \in Seq(Steps), NEW env
    PROVE  LET res == ResolveNames(r, env)
           IN  \/ res \in Refusals
               \/ Faults(r, env) = {} /\ res = Success(Rewritten(r, env))
<1>1. CASE Faults(r, env) = {}
  BY <1>1 DEF ResolveNames
<1>2. CASE Faults(r, env) # {}
  <2> DEFINE p == First(Faults(r, env))
             f == FieldOrder[p[2]]
  <2>1. p \in Faults(r, env)
    <3>1. Faults(r, env) \in SUBSET (Nat \X Nat)
      BY DEF Faults
    <3>2. QED
      BY <1>2, <3>1, FirstExists
  <2>2. p[1] \in DOMAIN r /\ f \in DOMAIN r[p[1]]
    BY <2>1 DEF Faults
  <2>3. r[p[1]][f] \in Names
    BY <2>2 DEF Steps
  <2>4. QED
    BY <1>2, <2>3 DEF ResolveNames, NameError, Refusals
<1>3. QED
  BY <1>1, <1>2

\* Rewriting the names of a recipe makes a recipe.
LEMMA RewrittenType ==
    ASSUME NEW r \in Seq(Steps), NEW env \in Scenes, Faults(r, env) = {}
    PROVE  Rewritten(r, env) \in Seq(Steps)
<1>1. Resolves(Rewritten(r, env), r, env)
  BY RewrittenResolves
<1>2. ASSUME NEW i \in DOMAIN r PROVE Rewritten(r, env)[i] \in Steps
  <2>1. PICK S \in SUBSET Fields : r[i] \in [S -> Names]
    BY DEF Steps
  <2>2. ASSUME NEW f \in S PROVE Rewritten(r, env)[i][f] \in Names
    <3>1. KindOf[f] \in Kinds
      BY DEF Fields, FieldOrder, KindOf, Kinds
    <3>2. Listed(env, f) \subseteq Names
      BY <3>1, ScenesAssumption DEF Listed
    <3>3. Rewritten(r, env)[i][f] \in Candidates(r[i][f], Listed(env, f))
      BY <1>1, <2>1 DEF Resolves
    <3>4. QED
      BY <3>2, <3>3, CandidatesRegistered
  <2>3. Rewritten(r, env)[i] \in [S -> Names]
    BY <2>1, <2>2 DEF Rewritten
  <2>4. QED
    BY <2>3 DEF Steps
<1>3. Rewritten(r, env) \in [1 .. Len(r) -> Steps]
  BY <1>2 DEF Rewritten
<1>4. QED
  BY <1>3

\* Every step keeps the types, and the stage that they depend on.
LEMMA TypeStep ==
    TypeOK /\ StageInv /\ RetryInv /\ [Next]_vars => TypeOK' /\ StageInv'
<1> SUFFICES ASSUME TypeOK, StageInv, RetryInv, [Next]_vars PROVE TypeOK' /\ StageInv'
  OBVIOUS
<1>1. CASE ReadScene
  BY <1>1 DEF ReadScene, TypeOK, StageInv
<1>2. CASE AskFails
  BY <1>2 DEF AskFails, Return, RetryInv, TypeOK, StageInv
<1>3. ASSUME NEW r \in Recipes, NEW s \in Scenes
      PROVE  \/ ResolveNames(r, s) \in Refusals
             \/ ResolveNames(r, s).status = "success" /\ ResolveNames(r, s).recipe \in Seq(Steps)
  BY RecipesAssumption, ResolveType, RewrittenType DEF Success
<1>4. ASSUME NEW r \in Recipes, AskGivesRecipe(r) PROVE TypeOK' /\ StageInv'
  BY <1>3, <1>4 DEF AskGivesRecipe, Return, RetryInv, TypeOK, StageInv
<1>5. ASSUME NEW d \in Refusals, AskGivesRefusal(d) PROVE TypeOK' /\ StageInv'
  BY <1>5 DEF AskGivesRefusal, Return, NameError, Quoted, RetryInv, Refusals, TypeOK, StageInv
<1>6. CASE RetryFails
  BY <1>6 DEF RetryFails, Return, RetryInv, TypeOK, StageInv
<1>7. ASSUME NEW r \in Recipes, RetryGivesRecipe(r) PROVE TypeOK' /\ StageInv'
  BY <1>3, <1>7 DEF RetryGivesRecipe, Return, RetryInv, TypeOK, StageInv
<1>8. ASSUME NEW d \in Refusals, RetryGivesRefusal(d) PROVE TypeOK' /\ StageInv'
  BY <1>8 DEF RetryGivesRefusal, Return, RetryInv, TypeOK, StageInv
<1>9. CASE Decide
  BY <1>9 DEF Decide, Refusals, Failure, TypeOK, StageInv
<1>10. CASE UNCHANGED vars
  BY <1>10 DEF vars, TypeOK, StageInv
<1>11. QED
  BY <1>1, <1>2, <1>4, <1>5, <1>6, <1>7, <1>8, <1>9, <1>10 DEF Next, Over

\* Every step keeps the retry justified.
LEMMA RetryStep == TypeOK /\ RetryInv /\ [Next]_vars => RetryInv'
<1> SUFFICES ASSUME TypeOK, RetryInv, [Next]_vars PROVE RetryInv'
  OBVIOUS
<1>1. CASE ReadScene
  BY <1>1, NoneIsNoDocument DEF ReadScene, RetryInv
<1>2. CASE AskFails
  BY <1>2 DEF AskFails, Return, RetryInv
<1>3. ASSUME NEW r \in Recipes, AskGivesRecipe(r) PROVE RetryInv'
  BY <1>3 DEF AskGivesRecipe, Return, RetryInv
<1>4. ASSUME NEW d \in Refusals, AskGivesRefusal(d) PROVE RetryInv'
  <2>1. d # None /\ d # Failure
    BY NoneIsNoDocument DEF Refusals, Failure
  <2>2. CASE WorthRetry(d)
    <3>1. refusal' = d /\ scene' = scene /\ pc' = "retry" /\ calls' = 1 /\ result' = None
      BY <1>4, <2>2 DEF AskGivesRefusal, RetryInv
    <3>2. Justified'
      BY <2>2, <3>1 DEF WorthRetry, Justified, Quoted
    <3>3. None # Failure
      BY NoneIsNoDocument
    <3>4. QED
      BY <3>1, <3>2, <3>3 DEF RetryInv
  <2>3. CASE ~WorthRetry(d)
    BY <1>4, <2>3 DEF AskGivesRefusal, Return, RetryInv
  <2>4. QED
    BY <2>2, <2>3
<1>5. CASE RetryFails
  BY <1>5, NoneIsNoDocument DEF RetryFails, Return, RetryInv, Justified, Quoted, Refusals, Failure
<1>6. ASSUME NEW r \in Recipes, RetryGivesRecipe(r) PROVE RetryInv'
  <2>1. ResolveNames(r, scene) # Failure
    BY RecipesAssumption, ResolveType DEF Refusals, Failure, Success
  <2>2. QED
    BY <1>6, <2>1, NoneIsNoDocument DEF RetryGivesRecipe, Return, RetryInv, Justified, Quoted
<1>7. ASSUME NEW d \in Refusals, RetryGivesRefusal(d) PROVE RetryInv'
  BY <1>7, NoneIsNoDocument DEF RetryGivesRefusal, Return, RetryInv, Justified, Quoted,
     Refusals, Failure
<1>8. CASE Decide
  BY <1>8 DEF Decide, RetryInv, Justified, Quoted
<1>9. CASE UNCHANGED vars
  BY <1>9 DEF vars, RetryInv, Justified, Quoted
<1>10. QED
  BY <1>1, <1>2, <1>3, <1>4, <1>5, <1>6, <1>7, <1>8, <1>9 DEF Next, Over

\* Every step keeps the result resolved.
LEMMA ResultStep == RetryInv /\ ResultInv /\ [Next]_vars => ResultInv'
<1> SUFFICES ASSUME RetryInv, ResultInv, [Next]_vars PROVE ResultInv'
  OBVIOUS
<1>1. CASE ReadScene
  BY <1>1 DEF ReadScene, ResultInv
<1>2. CASE AskFails
  <2>1. executed' = None
    BY <1>2 DEF AskFails, ResultInv
  <2>2. result'.status = "failure"
    BY <1>2 DEF AskFails, Return, Failure
  <2>3. QED
    BY <1>2, <2>1, <2>2 DEF AskFails, Return, ResultInv
<1>3. ASSUME NEW r \in Recipes, AskGivesRecipe(r) PROVE ResultInv'
  <2>1. r \in Seq(Steps)
    BY RecipesAssumption
  <2>2. answer'.status = "success" /\ answer'.recipe = r /\ scene' = scene
    BY <1>3 DEF AskGivesRecipe, Success
  <2>3. result' = ResolveNames(r, scene) /\ pc' = "decide" /\ executed' = executed
    BY <1>3 DEF AskGivesRecipe, Return
  <2>4. result'.status = "success" => Resolves(result'.recipe, answer'.recipe, scene')
    BY <2>1, <2>2, <2>3, SuccessResolves
  <2>5. executed = None
    BY <1>3 DEF AskGivesRecipe, ResultInv
  <2>6. QED
    BY <2>2, <2>3, <2>4, <2>5 DEF ResultInv
<1>4. ASSUME NEW d \in Refusals, AskGivesRefusal(d) PROVE ResultInv'
  BY <1>4 DEF AskGivesRefusal, Return, NameError, Refusals, ResultInv
<1>5. CASE RetryFails
  BY <1>5 DEF RetryFails, Return, RetryInv, Refusals, ResultInv
<1>6. ASSUME NEW r \in Recipes, RetryGivesRecipe(r) PROVE ResultInv'
  <2>1. r \in Seq(Steps)
    BY RecipesAssumption
  <2>2. answer'.status = "success" /\ answer'.recipe = r /\ scene' = scene
    BY <1>6 DEF RetryGivesRecipe, Success
  <2>3. result' = ResolveNames(r, scene) /\ pc' = "decide" /\ executed' = executed
    BY <1>6 DEF RetryGivesRecipe, Return
  <2>4. result'.status = "success" => Resolves(result'.recipe, answer'.recipe, scene')
    BY <2>1, <2>2, <2>3, SuccessResolves
  <2>5. executed = None
    BY <1>6 DEF RetryGivesRecipe, ResultInv
  <2>6. QED
    BY <2>2, <2>3, <2>4, <2>5 DEF ResultInv
<1>7. ASSUME NEW d \in Refusals, RetryGivesRefusal(d) PROVE ResultInv'
  BY <1>7 DEF RetryGivesRefusal, Return, Refusals, ResultInv
<1>8. CASE Decide
  BY <1>8 DEF Decide, ResultInv
<1>9. CASE UNCHANGED vars
  BY <1>9 DEF vars, ResultInv
<1>10. QED
  BY <1>1, <1>2, <1>3, <1>4, <1>5, <1>6, <1>7, <1>8, <1>9 DEF Next, Over

\* The inductive invariant holds in every reachable state.
THEOREM Inductive == Spec => []IInv
<1>1. Init => IInv
  BY DEF Init, IInv, TypeOK, StageInv, RetryInv, ResultInv
<1>2. IInv /\ [Next]_vars => IInv'
  BY TypeStep, RetryStep, ResultStep DEF IInv
<1>3. QED
  BY <1>1, <1>2, PTL DEF Spec

\* Every variable keeps its type: what Run returns is a recipe made of the
\* schema's steps, a refusal or a failure, whatever the model answered.
THEOREM Typing == Spec => []TypeOK
<1>1. IInv => TypeOK
  BY DEF IInv
<1>2. QED
  BY <1>1, Inductive, PTL

\* For any similarity and any answers of the model, the robot is given only
\* names that were registered when the command began.
THEOREM NamesRegistered == Spec => []OnlyRegisteredNames
<1>1. IInv => OnlyRegisteredNames
  <2> SUFFICES ASSUME IInv, executed # None,
                      NEW i \in DOMAIN executed, NEW f \in DOMAIN executed[i]
               PROVE  executed[i][f] \in Listed(scene, f)
    BY DEF OnlyRegisteredNames
  <2>1. Candidates(answer.recipe[i][f], Listed(scene, f)) = {executed[i][f]}
    BY DEF IInv, ResultInv, Resolves
  <2>2. QED
    BY <2>1, CandidatesRegistered
<1>2. QED
  BY <1>1, Inductive, PTL

\* For any similarity, the recipe of the robot is the one the model wrote, with
\* every name replaced by the only one it can mean.
THEOREM NothingGuessed == Spec => []NoGuessing
<1>1. IInv => NoGuessing
  BY DEF IInv, ResultInv, Resolves, NoGuessing
<1>2. QED
  BY <1>1, Inductive, PTL

\* The model is never asked twice without a missing object that the scene has.
THEOREM RetryJustified == Spec => []RetryIsJustified
<1>1. IInv => RetryIsJustified
  <2> SUFFICES ASSUME IInv, calls = 2 \/ pc = "retry" PROVE RetryIsJustified
    BY DEF RetryIsJustified
  <2>1. Justified
    BY NoneIsNoDocument DEF IInv, RetryInv
  <2>2. PICK n : Quoted(refusal) = {n}
    BY <2>1 DEF Justified, Unique
  <2>3. n \in scene["object"]
    BY <2>2, CandidatesRegistered DEF Quoted
  <2>4. refusal # None
    BY <2>1, NoneIsNoDocument DEF Justified
  <2>5. QED
    BY <2>1, <2>2, <2>3, <2>4 DEF Justified, RetryIsJustified
<1>2. QED
  BY <1>1, Inductive, PTL

\* A failed second request never takes the place of the refusal.
THEOREM RefusalKept == Spec => []RetryNeverHidesRefusal
<1>1. IInv => RetryNeverHidesRefusal
  BY DEF IInv, RetryInv, RetryNeverHidesRefusal
<1>2. QED
  BY <1>1, Inductive, PTL

-----------------------------------------------------------------------------
(* The pipeline with its texts.                                            *)

\* What the validator lets through is a document of the schema.
LEMMA ValidatedDocument ==
    ASSUME NEW text, Validate(text) # None
    PROVE  \/ \E r \in Recipes : Validate(text) = Success(r)
           \/ Validate(text) \in Refusals
BY DEF Validate, Documents

\* A recipe and a refusal are told apart by their status.
LEMMA StatusOfDocument ==
    ASSUME NEW text, Validate(text) # None
    PROVE  /\ Validate(text).status = "success" =>
                Validate(text).recipe \in Recipes /\ Validate(text) = Success(Validate(text).recipe)
           /\ Validate(text).status = "error" => Validate(text) \in Refusals
BY ValidatedDocument DEF Success, Refusals

\* Each step with texts is a step of the pipeline without them.
LEMMA TextStep == [TextNext]_allVars => [Next]_vars
<1> SUFFICES ASSUME TextNext PROVE [Next]_vars
  BY DEF allVars, vars
<1>1. CASE ReadFresh \/ ReadCached \/ CallFails \/ RetryCallFails \/ Report
  BY <1>1 DEF ReadFresh, ReadCached, CallFails, RetryCallFails, Report, Next
<1>2. ASSUME NEW text \in Texts, AskReturns(text) PROVE Next
  <2> DEFINE d == Validate(extractJSON(text))
  <2>1. CASE AskFails
    BY <2>1 DEF Next
  <2>2. CASE d # None /\ d.status = "success" /\ AskGivesRecipe(d.recipe)
    BY <2>2, StatusOfDocument DEF Next
  <2>3. CASE d # None /\ d.status = "error" /\ AskGivesRefusal(d)
    BY <2>3, StatusOfDocument DEF Next
  <2>4. QED
    BY <1>2, <2>1, <2>2, <2>3 DEF AskReturns
<1>3. ASSUME NEW text \in Texts, RetryReturns(text) PROVE Next
  <2> DEFINE d == Validate(extractJSON(text))
  <2>1. CASE RetryFails
    BY <2>1 DEF Next
  <2>2. CASE d # None /\ d.status = "success" /\ RetryGivesRecipe(d.recipe)
    BY <2>2, StatusOfDocument DEF Next
  <2>3. CASE d # None /\ d.status = "error" /\ RetryGivesRefusal(d)
    BY <2>3, StatusOfDocument DEF Next
  <2>4. QED
    BY <1>3, <2>1, <2>2, <2>3 DEF RetryReturns
<1>4. CASE Over /\ UNCHANGED textVars
  BY <1>4 DEF Over
<1>5. QED
  BY <1>1, <1>2, <1>3, <1>4 DEF TextNext

\* The pipeline with texts implements the pipeline without them.
THEOREM TextsImplement == TextSpec => Spec
<1>1. TextInit => Init
  BY DEF TextInit
<1>2. QED
  BY <1>1, TextStep, PTL DEF TextSpec, Spec

\* Every variable of the pipeline keeps its type, whatever the texts.
THEOREM TextTyping == TextSpec => []TypeOK
BY TextsImplement, Typing, PTL

\* Whatever is typed, cut out of an answer or filled in, the robot is given
\* only names that were registered when the command began.
THEOREM TextNamesRegistered == TextSpec => []OnlyRegisteredNames
BY TextsImplement, NamesRegistered, PTL

\* Whatever the texts, the recipe of the robot is the one the model wrote with
\* every name replaced by the only one it can mean.
THEOREM TextNothingGuessed == TextSpec => []NoGuessing
BY TextsImplement, NothingGuessed, PTL

\* Whatever the texts, a second request is justified by the first answer.
THEOREM TextRetryJustified == TextSpec => []RetryIsJustified
BY TextsImplement, RetryJustified, PTL

-----------------------------------------------------------------------------
\* A success and the text that carries it agree from the moment there is one,
\* and a recipe that was sent is that text.
TextInv ==
    /\ pc \in {"decide", "over"} /\ result.status = "success" =>
         result = Success(result.recipe) /\ parsed = <<Doc(result)>>
    /\ pc # "over" => sent = <<>>
    /\ \A i \in DOMAIN sent : sent[i].type = "action_recipe" => sent[i].payload = parsed

\* An envelope is empty or one message with its payload.
LEMMA EnvelopeItem ==
    ASSUME NEW type, NEW payload
    PROVE  \/ Envelope(type, payload) = <<>>
           \/ Envelope(type, payload) = <<[type |-> type, payload |-> payload]>>
BY DEF Envelope

\* What resolveRecipeNames returns as a success is nothing else.
LEMMA SuccessShape ==
    ASSUME NEW r \in Recipes, NEW env, ResolveNames(r, env).status = "success"
    PROVE  ResolveNames(r, env) = Success(ResolveNames(r, env).recipe)
BY RecipesAssumption, ResolveType DEF Success, Refusals

\* Every step keeps the two forms of a result together.
LEMMA TextInvStep == IInv /\ TextInv /\ [TextNext]_allVars => TextInv'
<1> SUFFICES ASSUME IInv, TextInv, [TextNext]_allVars PROVE TextInv'
  OBVIOUS
<1>1. CASE ReadFresh \/ ReadCached
  BY <1>1 DEF ReadFresh, ReadCached, ReadScene, TextInv
<1>2. CASE CallFails
  BY <1>2 DEF CallFails, AskFails, Return, Failure, TextInv
<1>3. ASSUME NEW text \in Texts, AskReturns(text) PROVE TextInv'
  <2> DEFINE d == Validate(extractJSON(text))
  <2>1. CASE AskFails
    BY <1>3, <2>1 DEF AskReturns, AskFails, Return, Failure, TextInv
  <2>2. CASE d # None /\ d.status = "success" /\ AskGivesRecipe(d.recipe)
    BY <1>3, <2>2, StatusOfDocument, SuccessShape
       DEF AskReturns, AskGivesRecipe, AskGivesRefusal, Return, Marshal, TextInv
  <2>3. CASE d # None /\ d.status = "error" /\ AskGivesRefusal(d)
    BY <1>3, <2>3, StatusOfDocument
       DEF AskReturns, AskGivesRefusal, Return, NameError, Refusals, TextInv
  <2>4. QED
    BY <1>3, <2>1, <2>2, <2>3 DEF AskReturns
<1>4. CASE RetryCallFails
  BY <1>4 DEF RetryCallFails, RetryFails, Return, IInv, RetryInv, Refusals, TextInv
<1>5. ASSUME NEW text \in Texts, RetryReturns(text) PROVE TextInv'
  <2> DEFINE d == Validate(extractJSON(text))
  <2>1. CASE RetryFails
    BY <1>5, <2>1 DEF RetryReturns, RetryFails, Return, IInv, RetryInv, Refusals, TextInv
  <2>2. CASE d # None /\ d.status = "success" /\ RetryGivesRecipe(d.recipe)
    BY <1>5, <2>2, StatusOfDocument, SuccessShape
       DEF RetryReturns, RetryGivesRecipe, RetryGivesRefusal, Return, Marshal, TextInv
  <2>3. CASE d # None /\ d.status = "error" /\ RetryGivesRefusal(d)
    BY <1>5, <2>3, StatusOfDocument
       DEF RetryReturns, RetryGivesRefusal, Return, Refusals, TextInv
  <2>4. QED
    BY <1>5, <2>1, <2>2, <2>3 DEF RetryReturns
<1>6. CASE Report
  <2>1. pc = "decide" /\ pc' = "over" /\ result' = result /\ parsed' = parsed
    BY <1>6 DEF Report, Decide
  <2>2. CASE \E payload, level : sent' = Envelope("log_event", payload) \/ sent' = Message(level)
    BY <2>1, <2>2, EnvelopeItem DEF Message, TextInv
  <2>3. CASE sent' = Envelope("action_recipe", parsed) \o Message("info")
    <3>1. PICK a : a = Envelope("action_recipe", parsed) /\ (a = <<>> \/ a = <<[type |-> "action_recipe", payload |-> parsed]>>)
      BY EnvelopeItem
    <3>2. PICK b, p : b = Message("info") /\ (b = <<>> \/ b = <<[type |-> "log_event", payload |-> p]>>)
      BY EnvelopeItem DEF Message
    <3>3. sent' = a \o b
      BY <2>3, <3>1, <3>2
    <3>4. \A i \in DOMAIN sent' : sent'[i].type = "action_recipe" => sent'[i].payload = parsed
      BY <3>1, <3>2, <3>3
    <3>5. QED
      BY <2>1, <3>4 DEF TextInv
  <2>4. QED
    BY <1>6, <2>2, <2>3 DEF Report
<1>7. CASE UNCHANGED allVars
  BY <1>7 DEF allVars, vars, textVars, TextInv
<1>8. QED
  BY <1>1, <1>2, <1>3, <1>4, <1>5, <1>6, <1>7 DEF TextNext, Over, allVars

\* The text that is given to the robot and sent to the terminal UI is always
\* the recipe whose names were resolved.
THEOREM TextIsRecipe == TextSpec => []RecipeTextIsRecipe
<1>1. TextInit => TextInv
  BY DEF TextInit, Init, TextInv
<1>2. IInv /\ TextInv /\ [TextNext]_allVars => TextInv'
  BY TextInvStep
<1>3. IInv /\ TextInv => RecipeTextIsRecipe
  BY DEF IInv, ResultInv, TextInv, RecipeTextIsRecipe, ToSet
<1>4. TextSpec => []IInv
  BY TextsImplement, Inductive, PTL
<1>5. QED
  BY <1>1, <1>2, <1>3, <1>4, PTL DEF TextSpec

-----------------------------------------------------------------------------
(* What is cut out of a text.                                              *)

\* A set of numbers has its least element as its minimum.
LEMMA MinIs ==
    ASSUME NEW S \in SUBSET Nat, S # {}
    PROVE  Min(S) \in S /\ \A j \in S : Min(S) <= j
<1>1. \E i \in S : \A j \in S : i <= j
  BY LeastExists
<1>2. QED
  BY <1>1 DEF Min

\* A set of numbers with a bound has a maximum.
LEMMA MaxIs ==
    ASSUME NEW n \in Nat, NEW S \in SUBSET (1 .. n), S # {}
    PROVE  Max(S) \in S /\ \A j \in S : Max(S) >= j
<1> DEFINE D == {n - j : j \in S}
<1>1. D \in SUBSET Nat /\ D # {}
  <2>1. \A j \in S : n - j \in Nat
    OBVIOUS
  <2>2. QED
    BY <2>1
<1>2. PICK d \in D : \A e \in D : d <= e
  <2> HIDE DEF D
  <2>1. QED
    BY <1>1, LeastExists
<1>3. PICK i \in S : d = n - i
  OBVIOUS
<1>4. ASSUME NEW j \in S PROVE i >= j
  <2>1. n - i <= n - j
    BY <1>2, <1>3
  <2>2. i \in 1 .. n /\ j \in 1 .. n
    OBVIOUS
  <2>3. QED
    BY <2>1, <2>2
<1>5. \E k \in S : \A j \in S : k >= j
  BY <1>4
<1>6. QED
  BY <1>5 DEF Max

Braces == {"doc", "{}", "{", "}"}

\* t stands in s, after its first a tokens.
Part(t, s, a) ==
    /\ a \in Nat /\ a + Len(t) <= Len(s)
    /\ \A i \in 1 .. Len(t) : t[i] = s[i + a]

\* t is cut out of s, with all the braces of s.
Cut(t, s) ==
    /\ t \in Seq(Token)
    /\ \E a \in Nat : /\ Part(t, s, a)
                      /\ \A i \in 1 .. Len(s) : s[i].kind \in Braces => i - a \in 1 .. Len(t)

\* Every token is a document of the schema or a mark.
LEMMA TokenIs ==
    ASSUME NEW t \in Token
    PROVE  /\ t.kind = "doc" => t.doc \in Documents /\ t = Doc(t.doc)
           /\ t.kind \in {"doc"} \cup Marks
           /\ \A m \in Marks : t = Mark(m) => t.kind = m
<1>1. ASSUME NEW m, t = Mark(m) PROVE t.kind = m
  BY <1>1 DEF Mark
<1>2. CASE \E d \in Documents : t = Doc(d)
  <2>1. PICK d \in Documents : t = Doc(d)
    BY <1>2
  <2>2. t.kind = "doc" /\ t.doc = d
    BY <2>1 DEF Doc
  <2>3. QED
    BY <1>1, <2>1, <2>2
<1>3. CASE \E m \in Marks : t = Mark(m)
  <2>1. PICK m \in Marks : t = Mark(m)
    BY <1>3
  <2>2. t.kind = m /\ t.kind # "doc"
    BY <1>1, <2>1 DEF Marks
  <2>3. QED
    BY <1>1, <2>1, <2>2
<1>4. QED
  BY <1>2, <1>3 DEF Token

\* A window of a text is a part of it.
LEMMA WindowIs ==
    ASSUME NEW s \in Seq(Token), NEW a \in 1 .. Len(s) + 1, NEW b \in a - 1 .. Len(s)
    PROVE  LET t == SubSeq(s, a, b) IN
           /\ t \in Seq(Token) /\ Len(t) = b - a + 1 /\ Part(t, s, a - 1)
           /\ (\A i \in 1 .. Len(s) : s[i].kind \in Braces => i \in a .. b) => Cut(t, s)
<1> DEFINE t == SubSeq(s, a, b)
<1>1. Len(s) \in Nat
  BY LenProperties
<1>2. a \in Int /\ b \in Int /\ a >= 1 /\ a <= b + 1 /\ b <= Len(s)
  BY <1>1
<1>3. \A i \in a .. b : s[i] \in Token
  <2>1. \A i \in a .. b : i \in 1 .. Len(s)
    BY <1>1, <1>2
  <2>2. QED
    BY <2>1, ElementOfSeq
<1>4. /\ t \in Seq(Token) /\ Len(t) = IF a <= b THEN b - a + 1 ELSE 0
      /\ \A i \in 1 .. b - a + 1 : t[i] = s[a + i - 1]
  BY <1>2, <1>3, SubSeqProperties
<1> HIDE DEF t
<1>5. Len(t) = b - a + 1
  BY <1>2, <1>4
<1>6. Part(t, s, a - 1)
  <2>1. a - 1 \in Nat /\ (a - 1) + Len(t) <= Len(s)
    BY <1>1, <1>2, <1>5
  <2>2. ASSUME NEW i \in 1 .. Len(t) PROVE t[i] = s[i + (a - 1)]
    <3>1. i \in 1 .. b - a + 1 /\ a + i - 1 = i + (a - 1)
      BY <1>2, <1>5
    <3>2. QED
      BY <1>4, <3>1
  <2>3. QED
    BY <2>1, <2>2 DEF Part
<1>7. ASSUME \A i \in 1 .. Len(s) : s[i].kind \in Braces => i \in a .. b PROVE Cut(t, s)
  <2>1. ASSUME NEW i \in 1 .. Len(s), s[i].kind \in Braces PROVE i - (a - 1) \in 1 .. Len(t)
    <3>1. i \in a .. b
      BY <1>7, <2>1
    <3>2. QED
      BY <1>2, <1>5, <3>1
  <2>2. a - 1 \in Nat
    BY <1>2
  <2>3. QED
    BY <1>4, <1>6, <2>1, <2>2 DEF Cut
<1>8. QED
  BY <1>4, <1>5, <1>6, <1>7 DEF t

\* A text is cut out of itself, and what is cut out of a cut is cut out of the text.
LEMMA CutOfCut ==
    ASSUME NEW s \in Seq(Token)
    PROVE  /\ Cut(s, s)
           /\ \A t, u : Cut(t, s) /\ Cut(u, t) => Cut(u, s)
<1>1. Len(s) \in Nat
  BY LenProperties
<1>2. Cut(s, s)
  <2>1. Part(s, s, 0)
    BY <1>1 DEF Part
  <2>2. \A i \in 1 .. Len(s) : i - 0 \in 1 .. Len(s)
    BY <1>1
  <2>3. QED
    BY <2>1, <2>2 DEF Cut
<1>3. ASSUME NEW t, NEW u, Cut(t, s), Cut(u, t) PROVE Cut(u, s)
  <2>1. t \in Seq(Token) /\ u \in Seq(Token) /\ Len(t) \in Nat /\ Len(u) \in Nat
    BY <1>3, LenProperties DEF Cut
  <2>2. PICK a \in Nat : /\ Part(t, s, a)
                         /\ \A i \in 1 .. Len(s) : s[i].kind \in Braces => i - a \in 1 .. Len(t)
    BY <1>3 DEF Cut
  <2>3. PICK b \in Nat : /\ Part(u, t, b)
                         /\ \A i \in 1 .. Len(t) : t[i].kind \in Braces => i - b \in 1 .. Len(u)
    BY <1>3 DEF Cut
  <2>4. a + b \in Nat /\ (a + b) + Len(u) <= Len(s)
    <3>1. a + Len(t) <= Len(s) /\ b + Len(u) <= Len(t)
      BY <2>2, <2>3 DEF Part
    <3>2. QED
      BY <1>1, <2>1, <3>1
  <2>5. ASSUME NEW i \in 1 .. Len(u) PROVE u[i] = s[i + (a + b)]
    <3>1. i + b \in 1 .. Len(t) /\ (i + b) + a = i + (a + b)
      BY <2>1, <2>3 DEF Part
    <3>2. u[i] = t[i + b]
      BY <2>3 DEF Part
    <3>3. t[i + b] = s[(i + b) + a]
      BY <2>2, <3>1 DEF Part
    <3>4. QED
      BY <3>1, <3>2, <3>3
  <2>6. ASSUME NEW i \in 1 .. Len(s), s[i].kind \in Braces PROVE i - (a + b) \in 1 .. Len(u)
    <3>1. i - a \in 1 .. Len(t)
      BY <2>2, <2>6
    <3>2. t[i - a] = s[i]
      <4>1. (i - a) + a = i
        BY <1>1
      <4>2. t[i - a] = s[(i - a) + a]
        BY <2>2, <3>1 DEF Part
      <4>3. QED
        BY <4>1, <4>2
    <3>3. (i - a) - b \in 1 .. Len(u)
      BY <2>3, <2>6, <3>1, <3>2
    <3>4. (i - a) - b = i - (a + b)
      BY <1>1
    <3>5. QED
      BY <3>3, <3>4
  <2>7. QED
    BY <2>1, <2>4, <2>5, <2>6 DEF Cut, Part
<1>4. QED
  BY <1>2, <1>3

\* The trimming keeps everything but space, and a fence is no brace.
LEMMA TrimSpaceCuts ==
    ASSUME NEW s \in Seq(Token)
    PROVE  Cut(TrimSpace(s), s)
<1> DEFINE kept == {i \in DOMAIN s : ~IsSpace(s[i])}
<1>1. Len(s) \in Nat /\ DOMAIN s = 1 .. Len(s)
  BY LenProperties
<1>2. ASSUME NEW i \in 1 .. Len(s), s[i].kind \in Braces PROVE i \in kept
  BY <1>1, <1>2 DEF Braces, IsSpace
<1>3. kept \in SUBSET (1 .. Len(s))
  BY <1>1
<1>4. TrimSpace(s) = IF kept = {} THEN <<>> ELSE SubSeq(s, Min(kept), Max(kept))
  BY DEF TrimSpace
<1> HIDE DEF kept
<1>5. CASE kept = {}
  <2>1. TrimSpace(s) = <<>> /\ <<>> \in Seq(Token) /\ Len(<<>>) = 0
    BY <1>4, <1>5, EmptySeq
  <2>2. Part(<<>>, s, 0)
    BY <1>1, <2>1 DEF Part
  <2>3. QED
    BY <1>2, <1>5, <2>1, <2>2 DEF Cut
<1>6. CASE kept # {}
  <2>1. Min(kept) \in kept /\ \A j \in kept : Min(kept) <= j
    <3>1. kept \in SUBSET Nat
      BY <1>3
    <3>2. QED
      BY <1>6, <3>1, MinIs
  <2>2. Max(kept) \in kept /\ \A j \in kept : Max(kept) >= j
    BY <1>1, <1>3, <1>6, MaxIs
  <2>3. Min(kept) \in 1 .. Len(s) + 1 /\ Max(kept) \in Min(kept) - 1 .. Len(s)
    <3>1. Min(kept) \in 1 .. Len(s) /\ Max(kept) \in 1 .. Len(s) /\ Min(kept) <= Max(kept)
      BY <1>3, <2>1, <2>2
    <3>2. QED
      BY <1>1, <3>1
  <2>4. \A i \in 1 .. Len(s) : s[i].kind \in Braces => i \in Min(kept) .. Max(kept)
    <3>1. \A i \in kept : i \in Min(kept) .. Max(kept)
      BY <1>3, <2>1, <2>2
    <3>2. QED
      BY <1>2, <3>1
  <2>5. Cut(SubSeq(s, Min(kept), Max(kept)), s)
    BY <2>3, <2>4, WindowIs
  <2>6. QED
    BY <1>4, <1>6, <2>5
<1>7. QED
  BY <1>5, <1>6

\* So do the two steps that remove a fence.
LEMMA TrimFenceCuts ==
    ASSUME NEW s \in Seq(Token), NEW mark \in {"fence", "fence_json"}
    PROVE  Cut(TrimPrefix(s, mark), s) /\ Cut(TrimSuffix(s, mark), s)
<1>1. Len(s) \in Nat
  BY LenProperties
<1>2. Cut(s, s)
  BY CutOfCut
<1>3. ASSUME NEW i \in 1 .. Len(s), s[i] = Mark(mark) PROVE s[i].kind \notin Braces
  <2>1. Mark(mark).kind = mark
    BY DEF Mark
  <2>2. QED
    BY <1>3, <2>1 DEF Braces
<1>4. Cut(TrimPrefix(s, mark), s)
  <2>1. CASE s # <<>> /\ Head(s) = Mark(mark)
    <3>1. TrimPrefix(s, mark) = SubSeq(s, 2, Len(s)) /\ Len(s) >= 1 /\ s[1] = Mark(mark)
      BY <1>1, <2>1, EmptySeq, TailIsSubSeq, HeadTailProperties DEF TrimPrefix
    <3>2. 2 \in 1 .. Len(s) + 1 /\ Len(s) \in 2 - 1 .. Len(s) /\ 1 \in 1 .. Len(s)
      BY <1>1, <3>1
    <3>3. \A i \in 1 .. Len(s) : s[i].kind \in Braces => i \in 2 .. Len(s)
      <4>1. s[1].kind \notin Braces
        BY <1>3, <3>1, <3>2
      <4>2. \A i \in 1 .. Len(s) : i = 1 \/ i \in 2 .. Len(s)
        BY <1>1
      <4>3. QED
        BY <4>1, <4>2
    <3>4. QED
      BY <3>1, <3>2, <3>3, WindowIs
  <2>2. CASE ~(s # <<>> /\ Head(s) = Mark(mark))
    BY <1>2, <2>2 DEF TrimPrefix
  <2>3. QED
    BY <2>1, <2>2
<1>5. Cut(TrimSuffix(s, mark), s)
  <2>1. CASE s # <<>> /\ Last(s) = Mark(mark)
    <3>1. TrimSuffix(s, mark) = SubSeq(s, 1, Len(s) - 1) /\ Len(s) >= 1 /\ s[Len(s)] = Mark(mark)
      BY <1>1, <2>1, EmptySeq DEF TrimSuffix, Last, Front
    <3>2. 1 \in 1 .. Len(s) + 1 /\ Len(s) - 1 \in 1 - 1 .. Len(s) /\ Len(s) \in 1 .. Len(s)
      BY <1>1, <3>1
    <3>3. \A i \in 1 .. Len(s) : s[i].kind \in Braces => i \in 1 .. Len(s) - 1
      <4>1. s[Len(s)].kind \notin Braces
        BY <1>3, <3>1, <3>2
      <4>2. \A i \in 1 .. Len(s) : i = Len(s) \/ i \in 1 .. Len(s) - 1
        BY <1>1
      <4>3. QED
        BY <4>1, <4>2
    <3>4. QED
      BY <3>1, <3>2, <3>3, WindowIs
  <2>2. CASE ~(s # <<>> /\ Last(s) = Mark(mark))
    BY <1>2, <2>2 DEF TrimSuffix
  <2>3. QED
    BY <2>1, <2>2
<1>6. QED
  BY <1>4, <1>5

\* The pattern takes a window that begins with the first brace and ends with the last.
LEMMA BracedIs ==
    ASSUME NEW s \in Seq(Token), Braced(s) # <<>>
    PROVE  /\ Braced(s) \in Seq(Token) /\ \E a \in Nat : Part(Braced(s), s, a)
           /\ \A i \in 1 .. Len(s) :
                s[i].kind = "doc" /\ (\A j \in 1 .. Len(s) : s[j].kind \in Braces => j = i) =>
                    Braced(s) = <<s[i]>>
<1> DEFINE opening == {i \in DOMAIN s : IsObject(s[i]) \/ s[i].kind = "{"}
           closing == {i \in DOMAIN s : IsObject(s[i]) \/ s[i].kind = "}"}
<1>1. Len(s) \in Nat /\ DOMAIN s = 1 .. Len(s)
  BY LenProperties
<1>2. opening # {} /\ closing # {} /\ Braced(s) = SubSeq(s, Min(opening), Max(closing))
  BY DEF Braced
<1>3. opening \in SUBSET (1 .. Len(s)) /\ closing \in SUBSET (1 .. Len(s))
  BY <1>1
<1>4. \A j \in opening \cup closing : s[j].kind \in Braces
  BY DEF IsObject, Braces
<1>5. \A i \in 1 .. Len(s) : s[i].kind = "doc" => i \in opening /\ i \in closing
  BY <1>1 DEF IsObject
<1> HIDE DEF opening, closing
<1>6. Min(opening) \in opening /\ \A j \in opening : Min(opening) <= j
  <2>1. opening \in SUBSET Nat
    BY <1>3
  <2>2. QED
    BY <1>2, <2>1, MinIs
<1>7. Max(closing) \in closing /\ \A j \in closing : Max(closing) >= j
  BY <1>1, <1>2, <1>3, MaxIs
<1>8. Min(opening) \in 1 .. Len(s) /\ Max(closing) \in 1 .. Len(s)
  BY <1>3, <1>6, <1>7
<1>9. Min(opening) <= Max(closing)
  <2>1. CASE Max(closing) < Min(opening)
    <3>1. SubSeq(s, Min(opening), Max(closing)) = <<>>
      BY <1>8, <2>1, SubSeqEmpty
    <3>2. QED
      BY <1>2, <3>1
  <2>2. QED
    BY <1>8, <2>1
<1>10. Min(opening) \in 1 .. Len(s) + 1 /\ Max(closing) \in Min(opening) - 1 .. Len(s)
  BY <1>1, <1>8, <1>9
<1>11. /\ Braced(s) \in Seq(Token) /\ Len(Braced(s)) = Max(closing) - Min(opening) + 1
       /\ Part(Braced(s), s, Min(opening) - 1)
  BY <1>2, <1>10, WindowIs
<1>12. ASSUME NEW i \in 1 .. Len(s), s[i].kind = "doc",
              \A j \in 1 .. Len(s) : s[j].kind \in Braces => j = i
       PROVE  Braced(s) = <<s[i]>>
  <2>1. Min(opening) = i /\ Max(closing) = i
    BY <1>3, <1>4, <1>6, <1>7, <1>12
  <2>2. Len(Braced(s)) = 1
    BY <1>11, <2>1
  <2>3. Braced(s)[1] = s[i]
    <3>1. 1 + (i - 1) = i
      OBVIOUS
    <3>2. Braced(s)[1] = s[1 + (i - 1)]
      BY <1>11, <2>1, <2>2 DEF Part
    <3>3. QED
      BY <3>1, <3>2
  <2>4. <<s[i]>> \in Seq(Token) /\ Len(<<s[i]>>) = 1 /\ <<s[i]>>[1] = s[i]
    BY ElementOfSeq
  <2>5. \A j \in 1 .. Len(Braced(s)) : Braced(s)[j] = <<s[i]>>[j]
    BY <2>2, <2>3, <2>4
  <2>6. QED
    BY <1>11, <2>2, <2>4, <2>5, SeqEqual
<1>13. Min(opening) - 1 \in Nat
  BY <1>8
<1>14. QED
  BY <1>11, <1>12, <1>13

\* What extractJSON returns stands in the text, and it begins with the document
\* of a text that has no other braces.
LEMMA ExtractIs ==
    ASSUME NEW s \in Seq(Token)
    PROVE  /\ extractJSON(s) \in Seq(Token) /\ \E a \in Nat : Part(extractJSON(s), s, a)
           /\ \A i \in 1 .. Len(s) :
                s[i].kind = "doc" /\ (\A j \in 1 .. Len(s) : s[j].kind \in Braces => j = i) =>
                    extractJSON(s) # <<>> /\ Head(extractJSON(s)) = s[i]
<1> DEFINE s1 == TrimSpace(s)
           s2 == TrimPrefix(s1, "fence_json")
           s3 == TrimPrefix(s2, "fence")
           s4 == TrimSuffix(s3, "fence")
           u  == TrimSpace(s4)
<1>1. extractJSON(s) = IF ~IsValid(u) /\ Braced(u) # <<>> THEN Braced(u) ELSE u
  BY DEF extractJSON
<1>2. Cut(u, s)
  <2>1. Cut(s1, s)
    BY TrimSpaceCuts
  <2>2. s1 \in Seq(Token)
    BY <2>1 DEF Cut
  <2> HIDE DEF s1
  <2>3. Cut(s2, s1)
    BY <2>2, TrimFenceCuts
  <2>4. s2 \in Seq(Token)
    BY <2>3 DEF Cut
  <2> HIDE DEF s2
  <2>5. Cut(s3, s2)
    BY <2>4, TrimFenceCuts
  <2>6. s3 \in Seq(Token)
    BY <2>5 DEF Cut
  <2> HIDE DEF s3
  <2>7. Cut(s4, s3)
    BY <2>6, TrimFenceCuts
  <2>8. s4 \in Seq(Token)
    BY <2>7 DEF Cut
  <2> HIDE DEF s4
  <2>9. Cut(u, s4)
    BY <2>8, TrimSpaceCuts
  <2> HIDE DEF u
  <2>10. Cut(s2, s)
    BY <2>1, <2>3, CutOfCut
  <2>11. Cut(s3, s)
    BY <2>5, <2>10, CutOfCut
  <2>12. Cut(s4, s)
    BY <2>7, <2>11, CutOfCut
  <2>13. QED
    BY <2>9, <2>12, CutOfCut
<1> HIDE DEF u
<1>3. Len(s) \in Nat /\ u \in Seq(Token) /\ Len(u) \in Nat
  BY <1>2, LenProperties DEF Cut
<1>4. PICK a \in Nat : /\ Part(u, s, a)
                       /\ \A i \in 1 .. Len(s) : s[i].kind \in Braces => i - a \in 1 .. Len(u)
  BY <1>2 DEF Cut
<1>5. extractJSON(s) \in Seq(Token) /\ \E b \in Nat : Part(extractJSON(s), s, b)
  <2>1. CASE extractJSON(s) = u
    BY <1>3, <1>4, <2>1
  <2>2. CASE extractJSON(s) = Braced(u) /\ Braced(u) # <<>>
    <3> DEFINE v == Braced(u)
    <3>1. v \in Seq(Token) /\ \E b \in Nat : Part(v, u, b)
      BY <1>3, <2>2, BracedIs
    <3> HIDE DEF v
    <3>2. PICK b \in Nat : Part(v, u, b)
      BY <3>1
    <3>3. Len(v) \in Nat
      BY <3>1, LenProperties
    <3>4. a + b \in Nat /\ (a + b) + Len(v) <= Len(s)
      BY <1>3, <1>4, <3>2, <3>3 DEF Part
    <3>5. ASSUME NEW i \in 1 .. Len(v) PROVE v[i] = s[i + (a + b)]
      <4>1. i + b \in 1 .. Len(u) /\ (i + b) + a = i + (a + b)
        BY <1>3, <3>2, <3>3 DEF Part
      <4>2. v[i] = u[i + b]
        BY <3>2 DEF Part
      <4>3. u[i + b] = s[(i + b) + a]
        BY <1>4, <4>1 DEF Part
      <4>4. QED
        BY <4>1, <4>2, <4>3
    <3>6. Part(v, s, a + b)
      BY <3>4, <3>5 DEF Part
    <3>7. QED
      BY <2>2, <3>1, <3>4, <3>6 DEF v
  <2>3. QED
    BY <1>1, <2>1, <2>2
<1>6. ASSUME NEW i \in 1 .. Len(s), s[i].kind = "doc",
             \A j \in 1 .. Len(s) : s[j].kind \in Braces => j = i
      PROVE  extractJSON(s) # <<>> /\ Head(extractJSON(s)) = s[i]
  <2>1. i - a \in 1 .. Len(u) /\ (i - a) + a = i
    <3>1. s[i].kind \in Braces
      BY <1>6 DEF Braces
    <3>2. i - a \in 1 .. Len(u)
      BY <1>4, <3>1
    <3>3. QED
      BY <1>3, <3>2
  <2>2. \A j \in 1 .. Len(u) : u[j] = s[j + a] /\ j + a \in 1 .. Len(s)
    BY <1>3, <1>4 DEF Part
  <2>3. u[i - a] = s[i]
    BY <2>1, <2>2
  <2>4. ASSUME NEW j \in 1 .. Len(u), u[j].kind \in Braces PROVE j = i - a
    <3>1. j + a = i
      BY <1>6, <2>2, <2>4
    <3>2. QED
      BY <1>3, <3>1
  <2>5. CASE IsValid(u)
    <3>1. Len(u) = 1 /\ extractJSON(s) = u
      BY <1>1, <2>5 DEF IsValid
    <3>2. i - a = 1
      BY <2>1, <3>1
    <3>3. u # <<>> /\ Head(u) = u[1]
      <4>1. Len(<<>>) = 0
        BY EmptySeq
      <4>2. u # <<>>
        BY <3>1, <4>1
      <4>3. QED
        BY <1>3, <4>2, HeadTailProperties
    <3>4. QED
      BY <2>3, <3>1, <3>2, <3>3
  <2>6. CASE ~IsValid(u)
    <3>1. i - a \in DOMAIN u /\ IsObject(u[i - a])
      BY <1>3, <1>6, <2>1, <2>3, LenProperties DEF IsObject
    <3>2. Braced(u) # <<>>
      <4> DEFINE opening == {k \in DOMAIN u : IsObject(u[k]) \/ u[k].kind = "{"}
                 closing == {k \in DOMAIN u : IsObject(u[k]) \/ u[k].kind = "}"}
      <4>1. i - a \in opening /\ i - a \in closing
        BY <3>1
      <4>2. Braced(u) = SubSeq(u, Min(opening), Max(closing))
        BY <4>1 DEF Braced
      <4>3. opening \in SUBSET (1 .. Len(u)) /\ closing \in SUBSET (1 .. Len(u))
        BY <1>3, LenProperties
      <4>4. \A k \in opening \cup closing : u[k].kind \in Braces
        BY DEF IsObject, Braces
      <4> HIDE DEF opening, closing
      <4>5. Min(opening) \in opening
        <5>1. opening \in SUBSET Nat /\ opening # {}
          BY <4>1, <4>3
        <5>2. QED
          BY <5>1, MinIs
      <4>6. Max(closing) \in closing
        <5>1. closing # {}
          BY <4>1
        <5>2. QED
          BY <1>3, <4>3, <5>1, MaxIs
      <4>7. Min(opening) = i - a /\ Max(closing) = i - a
        BY <2>4, <4>3, <4>4, <4>5, <4>6
      <4>8. i - a \in 1 .. Len(u) + 1 /\ i - a \in (i - a) - 1 .. Len(u) /\ (i - a) - (i - a) + 1 = 1
        BY <1>3, <2>1
      <4>9. Len(SubSeq(u, i - a, i - a)) = 1
        BY <1>3, <4>8, WindowIs
      <4>10. Len(Braced(u)) = 1
        BY <4>2, <4>7, <4>9
      <4>11. ASSUME Braced(u) = <<>> PROVE FALSE
        <5>1. Len(Braced(u)) = 0
          BY <4>11, EmptySeq
        <5>2. QED
          BY <4>10, <5>1
      <4>12. QED
        BY <4>11
    <3>3. Braced(u) = <<u[i - a]>>
      BY <1>3, <1>6, <2>1, <2>3, <2>4, <3>2, BracedIs
    <3>4. QED
      BY <1>1, <2>3, <2>6, <3>2, <3>3
  <2>7. QED
    BY <2>5, <2>6
<1>7. QED
  BY <1>5, <1>6

\* The last text of the model and what has become of it.
AnswerInv ==
    /\ pc \in {"scene", "ask"} => raw = <<>>
    /\ raw # <<>> =>
         /\ raw \in Seq(Token)
         /\ Validate(extractJSON(raw)) # None => answer = Validate(extractJSON(raw))
         /\ Validate(extractJSON(raw)) = None => result = Failure \/ refusal # None

\* Every step keeps it.
LEMMA AnswerInvStep == IInv /\ AnswerInv /\ [TextNext]_allVars => AnswerInv'
<1> SUFFICES ASSUME IInv, AnswerInv, [TextNext]_allVars PROVE AnswerInv'
  OBVIOUS
<1>1. CASE ReadFresh \/ ReadCached
  BY <1>1 DEF ReadFresh, ReadCached, ReadScene, AnswerInv
<1>2. CASE CallFails
  BY <1>2 DEF CallFails, AskFails, Return, AnswerInv
<1>3. ASSUME NEW text \in Texts, AskReturns(text) PROVE AnswerInv'
  <2> DEFINE d == Validate(extractJSON(text))
  <2>1. raw' = text /\ text \in Seq(Token)
    BY <1>3, TextsAssumption DEF AskReturns
  <2>2. CASE d = None /\ AskFails
    BY <2>1, <2>2 DEF AskFails, Return, AnswerInv
  <2>3. CASE d # None /\ d.status = "success" /\ AskGivesRecipe(d.recipe)
    <3>1. answer' = d /\ pc' = "decide"
      BY <2>3, StatusOfDocument DEF AskGivesRecipe, Return
    <3>2. QED
      BY <2>1, <2>3, <3>1 DEF AnswerInv
  <2>4. CASE d # None /\ d.status = "error" /\ AskGivesRefusal(d)
    <3>1. answer' = d /\ pc' \in {"retry", "decide"}
      BY <2>4 DEF AskGivesRefusal, Return
    <3>2. QED
      BY <2>1, <2>4, <3>1 DEF AnswerInv
  <2>5. QED
    BY <1>3, <2>2, <2>3, <2>4 DEF AskReturns
<1>4. CASE RetryCallFails
  <2>1. refusal' = refusal /\ refusal # None /\ UNCHANGED <<raw, answer>> /\ pc' = "decide"
    BY <1>4, NoneIsNoDocument DEF RetryCallFails, RetryFails, Return, IInv, RetryInv
  <2>2. QED
    BY <2>1 DEF AnswerInv
<1>5. ASSUME NEW text \in Texts, RetryReturns(text) PROVE AnswerInv'
  <2> DEFINE d == Validate(extractJSON(text))
  <2>1. raw' = text /\ text \in Seq(Token) /\ refusal # None
    BY <1>5, TextsAssumption, NoneIsNoDocument DEF RetryReturns, IInv, RetryInv
  <2>2. CASE d = None /\ RetryFails
    BY <2>1, <2>2 DEF RetryFails, Return, AnswerInv
  <2>3. CASE d # None /\ d.status = "success" /\ RetryGivesRecipe(d.recipe)
    <3>1. answer' = d /\ pc' = "decide"
      BY <2>3, StatusOfDocument DEF RetryGivesRecipe, Return
    <3>2. QED
      BY <2>1, <2>3, <3>1 DEF AnswerInv
  <2>4. CASE d # None /\ d.status = "error" /\ RetryGivesRefusal(d)
    <3>1. answer' = d /\ pc' = "decide"
      BY <2>4 DEF RetryGivesRefusal, Return
    <3>2. QED
      BY <2>1, <2>4, <3>1 DEF AnswerInv
  <2>5. QED
    BY <1>5, <2>2, <2>3, <2>4 DEF RetryReturns
<1>6. CASE Report
  BY <1>6 DEF Report, Decide, AnswerInv
<1>7. CASE UNCHANGED allVars
  BY <1>7 DEF allVars, vars, textVars, AnswerInv
<1>8. QED
  BY <1>1, <1>2, <1>3, <1>4, <1>5, <1>6, <1>7 DEF TextNext, Over, allVars

\* Prose, fences and line breaks around the only document of a text cost nothing,
\* and the pipeline goes on with no document that the model did not write
\* (extractJSON and Validate).
THEOREM DocumentFound == TextSpec => []DocumentIsFound
<1>1. TextInit => AnswerInv
  BY DEF TextInit, AnswerInv
<1>2. IInv /\ AnswerInv /\ [TextNext]_allVars => AnswerInv'
  BY AnswerInvStep
<1>3. AnswerInv => DocumentIsFound
  <2> SUFFICES ASSUME AnswerInv, raw # <<>> PROVE DocumentIsFound
    BY DEF DocumentIsFound
  <2> DEFINE braces == {i \in DOMAIN raw : raw[i].kind \in {"doc", "{}", "{", "}"}}
             cut == extractJSON(raw)
  <2>1. raw \in Seq(Token) /\ DOMAIN raw = 1 .. Len(raw)
    BY LenProperties DEF AnswerInv
  <2>2. ASSUME NEW i \in braces, braces = {i}, raw[i].kind = "doc" PROVE answer = raw[i].doc
    <3>1. i \in 1 .. Len(raw) /\ \A j \in 1 .. Len(raw) : raw[j].kind \in Braces => j = i
      BY <2>1, <2>2 DEF Braces
    <3>2. cut # <<>> /\ Head(cut) = raw[i]
      BY <2>1, <2>2, <3>1, ExtractIs
    <3>3. raw[i].doc \in Documents
      BY <2>1, <2>2, <3>1, ElementOfSeq, TokenIs
    <3>4. Validate(cut) = raw[i].doc
      BY <2>2, <3>2, <3>3 DEF Validate
    <3>5. raw[i].doc # None
      <4>1. \A r \in Recipes : Success(r) # None
        BY NoneIsNoDocument
      <4>2. QED
        BY <3>3, <4>1, NoneIsNoDocument DEF Documents
    <3>6. QED
      BY <3>4, <3>5 DEF AnswerInv
  <2>3. ASSUME result # Failure, refusal = None PROVE Contains(raw, Doc(answer))
    <3>1. Validate(cut) # None /\ answer = Validate(cut)
      BY <2>3 DEF AnswerInv
    <3>2. cut # <<>> /\ Head(cut).kind = "doc" /\ answer = Head(cut).doc
      BY <3>1 DEF Validate
    <3>3. cut \in Seq(Token)
      BY <2>1, ExtractIs
    <3>4. PICK a \in Nat : Part(cut, raw, a)
      BY <2>1, ExtractIs
    <3> HIDE DEF cut
    <3>5. Head(cut) = cut[1] /\ 1 \in 1 .. Len(cut) /\ cut[1] \in Token
      BY <3>2, <3>3, EmptySeq, HeadTailProperties, ElementOfSeq
    <3>6. cut[1] = Doc(answer)
      BY <3>2, <3>5, TokenIs
    <3>7. 1 + a \in 1 .. Len(raw)
      <4>1. Len(raw) \in Nat /\ Len(cut) \in Nat /\ Len(cut) >= 1 /\ a + Len(cut) <= Len(raw)
        BY <2>1, <3>3, <3>4, <3>5, LenProperties DEF Part
      <4>2. QED
        BY <4>1
    <3>8. raw[1 + a] = Doc(answer)
      BY <3>4, <3>5, <3>6 DEF Part
    <3>9. QED
      BY <3>7, <3>8 DEF Contains
  <2>4. QED
    BY <2>2, <2>3 DEF DocumentIsFound
<1>4. TextSpec => []IInv
  BY TextsImplement, Inductive, PTL
<1>5. QED
  BY <1>1, <1>2, <1>3, <1>4, PTL DEF TextSpec

-----------------------------------------------------------------------------
(* Texts and lists that are made up piece by piece.                       *)

\* Induction over the naturals, for a set in place of a predicate.
LEMMA NaturalsBySteps ==
    ASSUME NEW G, 0 \in G, \A n \in Nat : n \in G => n + 1 \in G
    PROVE  \A n \in Nat : n \in G
<1> DEFINE Missing == {n \in Nat : n \notin G}
<1> SUFFICES ASSUME Missing # {} PROVE FALSE
  OBVIOUS
<1>1. PICK m \in Missing : \A j \in Missing : m <= j
  <2>1. Missing \in SUBSET Nat
    OBVIOUS
  <2> HIDE DEF Missing
  <2>2. QED
    BY <2>1, LeastExists
<1>2. m \in Nat /\ m # 0
  OBVIOUS
<1>3. m - 1 \in Nat /\ ~(m <= m - 1) /\ (m - 1) + 1 = m
  BY <1>2
<1>4. m - 1 \in G
  BY <1>1, <1>3
<1>5. QED
  BY <1>3, <1>4

\* Induction over sequences, for a set in place of a predicate.
LEMMA SequencesBySteps ==
    ASSUME NEW S, NEW G, <<>> \in G,
           \A s \in Seq(S), e \in S : s \in G => Append(s, e) \in G
    PROVE  \A s \in Seq(S) : s \in G
<1> DEFINE Upto == {n \in Nat : \A s \in Seq(S) : Len(s) = n => s \in G}
<1>1. 0 \in Upto
  BY EmptySeq
<1>2. ASSUME NEW n \in Nat, n \in Upto PROVE n + 1 \in Upto
  <2>1. ASSUME NEW s \in Seq(S), Len(s) = n + 1 PROVE s \in G
    <3>1. s # <<>>
      BY <2>1, EmptySeq
    <3>2. PICK t \in Seq(S), e \in S : s = Append(t, e)
      BY <3>1, SequenceEmptyOrAppend
    <3>3. Len(t) = n
      <4>1. Len(t) \in Nat
        BY LenProperties
      <4>2. Len(s) = Len(t) + 1
        BY <3>2, AppendProperties
      <4>3. QED
        BY <2>1, <4>1, <4>2
    <3>4. QED
      BY <1>2, <3>2, <3>3
  <2>2. QED
    BY <2>1
<1>3. \A n \in Nat : n \in Upto
  <2> HIDE DEF Upto
  <2>1. QED
    BY <1>1, <1>2, NaturalsBySteps
<1>4. QED
  BY <1>3, LenProperties

\* The table of FlattenSeq exists: each of its entries is made of the one before.
LEMMA FlattenTable ==
    ASSUME NEW S, NEW seqs \in Seq(Seq(S)), Len(seqs) # 0
    PROVE  \E f : /\ f = [i \in 1 .. Len(seqs) |-> IF i = 1 THEN seqs[i] ELSE f[i - 1] \o seqs[i]]
                  /\ FlattenSeq(seqs) = f[Len(seqs)]
<1> DEFINE Table(f, n) == f = [i \in 1 .. n |-> IF i = 1 THEN seqs[i] ELSE f[i - 1] \o seqs[i]]
           Tables == {n \in Nat : \E f : Table(f, n)}
<1>1. Len(seqs) \in Nat
  BY LenProperties
<1>2. \E f : Table(f, 0)
  <2> DEFINE f == [i \in 1 .. 0 |-> <<>>]
  <2>1. Table(f, 0)
    <3>1. 1 .. 0 = {}
      OBVIOUS
    <3>2. QED
      BY <3>1
  <2>2. QED
    BY <2>1
<1>3. ASSUME NEW n \in Nat, \E f : Table(f, n) PROVE \E f : Table(f, n + 1)
  <2>1. PICK g : Table(g, n)
    BY <1>3
  <2> DEFINE f == [i \in 1 .. n + 1 |->
                     IF i = n + 1 THEN IF i = 1 THEN seqs[i] ELSE g[n] \o seqs[i]
                     ELSE g[i]]
  <2>2. \A i \in 1 .. n : f[i] = g[i]
    OBVIOUS
  <2>3. \A i \in 1 .. n : g[i] = IF i = 1 THEN seqs[i] ELSE g[i - 1] \o seqs[i]
    BY <2>1
  <2>4. ASSUME NEW i \in 1 .. n + 1
        PROVE  f[i] = IF i = 1 THEN seqs[i] ELSE f[i - 1] \o seqs[i]
    <3>1. CASE i = n + 1 /\ i # 1
      <4>1. n \in 1 .. n /\ i - 1 = n
        BY <3>1
      <4>2. f[i - 1] = g[n]
        BY <2>2, <4>1
      <4>3. QED
        BY <3>1, <4>2
    <3>2. CASE i = 1 /\ i = n + 1
      BY <3>2
    <3>3. CASE i = 1 /\ i \in 1 .. n
      BY <2>2, <2>3, <3>3
    <3>4. CASE i # 1 /\ i \in 1 .. n
      <4>1. i - 1 \in 1 .. n
        BY <3>4
      <4>2. f[i] = g[i] /\ f[i - 1] = g[i - 1]
        BY <2>2, <3>4, <4>1
      <4>3. QED
        BY <2>3, <3>4, <4>2
    <3>5. QED
      BY <3>1, <3>2, <3>3, <3>4
  <2>5. Table(f, n + 1)
    <3> DEFINE h == [i \in 1 .. n + 1 |-> IF i = 1 THEN seqs[i] ELSE f[i - 1] \o seqs[i]]
    <3>1. \A i \in 1 .. n + 1 : f[i] = h[i]
      BY <2>4
    <3>2. f = h
      BY <3>1
    <3>3. QED
      BY <3>2
  <2>6. QED
    BY <2>5
<1>4. \A n \in Nat : n \in Tables
  <2>1. 0 \in Tables
    BY <1>2
  <2>2. \A n \in Nat : n \in Tables => n + 1 \in Tables
    <3> HIDE DEF Table
    <3>1. QED
      BY <1>3
  <2> HIDE DEF Tables
  <2>3. QED
    BY <2>1, <2>2, NaturalsBySteps
<1>5. \E f : Table(f, Len(seqs))
  BY <1>1, <1>4
<1>6. QED
  BY <1>5 DEF FlattenSeq

\* FlattenSeq of a list that is longer by one.
LEMMA FlattenAppend ==
    ASSUME NEW S, NEW seqs \in Seq(Seq(S)), NEW e \in Seq(S)
    PROVE  FlattenSeq(Append(seqs, e)) = FlattenSeq(seqs) \o e
<1> DEFINE more == Append(seqs, e)
<1>1. /\ Len(seqs) \in Nat /\ more \in Seq(Seq(S)) /\ Len(more) = Len(seqs) + 1
      /\ more[Len(seqs) + 1] = e
      /\ \A i \in 1 .. Len(seqs) : more[i] = seqs[i]
  <2>1. Len(seqs) \in Nat
    BY LenProperties
  <2>2. more \in Seq(Seq(S)) /\ Len(more) = Len(seqs) + 1 /\ more[Len(seqs) + 1] = e
    BY AppendProperties
  <2>3. \A i \in 1 .. Len(seqs) : more[i] = seqs[i]
    BY AppendProperties
  <2>4. QED
    BY <2>1, <2>2, <2>3
<1> HIDE DEF more
<1>2. Len(more) # 0
  BY <1>1
<1>3. PICK g : /\ g = [i \in 1 .. Len(more) |-> IF i = 1 THEN more[i] ELSE g[i - 1] \o more[i]]
               /\ FlattenSeq(more) = g[Len(more)]
  BY <1>1, <1>2, FlattenTable
<1>4. \A i \in 1 .. Len(seqs) + 1 : g[i] = IF i = 1 THEN more[i] ELSE g[i - 1] \o more[i]
  BY <1>1, <1>3
<1>5. CASE Len(seqs) = 0
  <2>1. seqs = <<>> /\ <<>> \o e = e
    BY <1>5, EmptySeq, ConcatEmptySeq
  <2>2. FlattenSeq(seqs) = <<>>
    BY <1>5, <2>1 DEF FlattenSeq
  <2>3. 1 \in 1 .. Len(seqs) + 1 /\ Len(more) = 1 /\ more[1] = e
    BY <1>1, <1>5
  <2>4. g[1] = e
    BY <1>4, <2>3
  <2>5. QED
    BY <1>3, <2>1, <2>2, <2>3, <2>4 DEF more
<1>6. CASE Len(seqs) # 0
  <2>1. PICK f : /\ f = [i \in 1 .. Len(seqs) |-> IF i = 1 THEN seqs[i] ELSE f[i - 1] \o seqs[i]]
                 /\ FlattenSeq(seqs) = f[Len(seqs)]
    BY <1>6, FlattenTable
  <2>2. \A i \in 1 .. Len(seqs) : f[i] = IF i = 1 THEN seqs[i] ELSE f[i - 1] \o seqs[i]
    BY <2>1
  <2> DEFINE Equal == {n \in Nat : n + 1 <= Len(seqs) => f[n + 1] = g[n + 1]}
  <2>3. \A n \in Nat : n \in Equal
    <3>1. 0 \in Equal
      <4>1. /\ 0 + 1 = 1 /\ 1 \in 1 .. Len(seqs) /\ 1 \in 1 .. Len(seqs) + 1
        BY <1>1, <1>6
      <4>2. f[1] = seqs[1] /\ g[1] = more[1] /\ more[1] = seqs[1]
        BY <1>1, <1>4, <2>2, <4>1
      <4>3. QED
        BY <4>1, <4>2
    <3>2. ASSUME NEW n \in Nat, n \in Equal PROVE n + 1 \in Equal
      <4> SUFFICES ASSUME (n + 1) + 1 <= Len(seqs) PROVE f[(n + 1) + 1] = g[(n + 1) + 1]
        OBVIOUS
      <4>1. /\ (n + 1) + 1 \in 1 .. Len(seqs) /\ n + 1 <= Len(seqs) /\ ((n + 1) + 1) - 1 = n + 1
            /\ (n + 1) + 1 # 1 /\ (n + 1) + 1 \in 1 .. Len(seqs) + 1
        BY <1>1
      <4>2. f[n + 1] = g[n + 1] /\ more[(n + 1) + 1] = seqs[(n + 1) + 1]
        BY <1>1, <3>2, <4>1
      <4>3. QED
        BY <1>4, <2>2, <4>1, <4>2
    <3> HIDE DEF Equal
    <3>3. QED
      BY <3>1, <3>2, NaturalsBySteps
  <2>4. g[Len(seqs)] = f[Len(seqs)]
    <3>1. Len(seqs) - 1 \in Nat /\ (Len(seqs) - 1) + 1 = Len(seqs) /\ Len(seqs) <= Len(seqs)
      BY <1>1, <1>6
    <3>2. Len(seqs) - 1 \in Equal
      BY <2>3, <3>1
    <3>3. QED
      BY <3>1, <3>2
  <2>5. g[Len(seqs) + 1] = g[Len(seqs)] \o e
    <3>1. Len(seqs) + 1 \in 1 .. Len(seqs) + 1 /\ Len(seqs) + 1 # 1 /\ (Len(seqs) + 1) - 1 = Len(seqs)
      BY <1>1, <1>6
    <3>2. QED
      BY <1>1, <1>4, <3>1
  <2>6. QED
    BY <1>1, <1>3, <2>1, <2>4, <2>5 DEF more
<1>7. QED
  BY <1>5, <1>6

\* Each element of t replaced, by a sequence of its own that is put in its place.
MapOf(f, t) == [i \in DOMAIN t |-> f[t[i]]]
FlatMap(f, t) == FlattenSeq(MapOf(f, t))

\* A list that is longer by one, with f applied to its elements.
Extends(f, t, e, T) ==
    MapOf(f, t) \in Seq(T) /\ MapOf(f, Append(t, e)) = Append(MapOf(f, t), f[e])

LEMMA MapAppend ==
    ASSUME NEW S, NEW T, NEW f \in [S -> T], NEW t \in Seq(S), NEW e \in S
    PROVE  Extends(f, t, e, T)
<1> DEFINE Map(s) == MapOf(f, s)
<1>1. ASSUME NEW s \in Seq(S) PROVE Map(s) \in Seq(T) /\ Len(Map(s)) = Len(s)
  <2>1. Len(s) \in Nat /\ DOMAIN s = 1 .. Len(s) /\ \A i \in 1 .. Len(s) : s[i] \in S
    BY LenProperties, ElementOfSeq
  <2>2. Map(s) \in [1 .. Len(s) -> T]
    BY <2>1 DEF MapOf
  <2>3. QED
    BY <2>1, <2>2, SeqDef, LenProperties
<1>2. /\ Append(t, e) \in Seq(S) /\ Len(Append(t, e)) = Len(t) + 1
      /\ Append(t, e)[Len(t) + 1] = e
      /\ \A i \in 1 .. Len(t) : Append(t, e)[i] = t[i]
  BY AppendProperties
<1>3. /\ Len(t) \in Nat /\ DOMAIN t = 1 .. Len(t) /\ DOMAIN Append(t, e) = 1 .. Len(t) + 1
  BY <1>2, LenProperties
<1> DEFINE left == Map(Append(t, e))
           right == Append(Map(t), f[e])
<1>4. left \in Seq(T) /\ Len(left) = Len(t) + 1
  BY <1>1, <1>2
<1>5. /\ right \in Seq(T) /\ Len(right) = Len(t) + 1 /\ right[Len(t) + 1] = f[e]
      /\ \A i \in 1 .. Len(t) : right[i] = Map(t)[i]
  <2>1. Map(t) \in Seq(T) /\ Len(Map(t)) = Len(t) /\ f[e] \in T
    BY <1>1
  <2> HIDE DEF Map
  <2>2. QED
    BY <2>1, AppendProperties
<1>6. ASSUME NEW i \in 1 .. Len(t) + 1 PROVE left[i] = right[i]
  <2>1. CASE i = Len(t) + 1
    BY <1>2, <1>3, <1>5, <2>1 DEF MapOf
  <2>2. CASE i \in 1 .. Len(t)
    <3>1. right[i] = f[t[i]]
      BY <1>3, <1>5, <2>2 DEF MapOf
    <3>2. left[i] = f[t[i]]
      BY <1>2, <1>3, <2>2 DEF MapOf
    <3>3. QED
      BY <3>1, <3>2
  <2>3. i = Len(t) + 1 \/ i \in 1 .. Len(t)
    BY <1>3
  <2>4. QED
    BY <2>1, <2>2, <2>3
<1>7. left = right
  <2> HIDE DEF left, right
  <2>1. QED
    BY <1>4, <1>5, <1>6, SeqEqual
<1>8. QED
  BY <1>1, <1>7 DEF Extends

\* The pieces of two lists stand one after the other.
PieceByPiece(f, S, T) ==
    /\ FlatMap(f, <<>>) = <<>>
    /\ \A e \in S : FlatMap(f, <<e>>) = f[e]
    /\ \A t \in Seq(S), e \in S : FlatMap(f, Append(t, e)) = FlatMap(f, t) \o f[e]
    /\ \A s, t \in Seq(S) : /\ FlatMap(f, t) \in Seq(T)
                            /\ FlatMap(f, s \o t) = FlatMap(f, s) \o FlatMap(f, t)

LEMMA FlatMapIs ==
    ASSUME NEW S, NEW T, NEW f \in [S -> Seq(T)]
    PROVE  PieceByPiece(f, S, T)
<1> DEFINE Of(t) == FlatMap(f, t)
<1>1. Of(<<>>) = <<>>
  <2>1. DOMAIN <<>> = {} /\ Len(<<>>) = 0
    BY EmptySeq
  <2>2. MapOf(f, <<>>) = <<>>
    BY <2>1 DEF MapOf
  <2>3. QED
    BY <2>1, <2>2 DEF FlatMap, FlattenSeq
<1>2. \A t \in Seq(S), e \in S : Of(Append(t, e)) = Of(t) \o f[e]
  <2> SUFFICES ASSUME NEW t \in Seq(S), NEW e \in S PROVE Of(Append(t, e)) = Of(t) \o f[e]
    OBVIOUS
  <2> DEFINE Pieces == Seq(T)
  <2>1. f \in [S -> Pieces] /\ f[e] \in Pieces
    OBVIOUS
  <2>2. Extends(f, t, e, Pieces)
    <3> HIDE DEF Pieces
    <3>1. QED
      BY <2>1, MapAppend
  <2>3. FlattenSeq(Append(MapOf(f, t), f[e])) = FlattenSeq(MapOf(f, t)) \o f[e]
    BY <2>1, <2>2, FlattenAppend DEF Extends
  <2>4. QED
    BY <2>2, <2>3 DEF FlatMap, Extends
<1> HIDE DEF Of
<1> DEFINE Typed == {t \in Seq(S) : Of(t) \in Seq(T)}
<1>3. \A t \in Seq(S) : t \in Typed
  <2>1. <<>> \in Typed
    BY <1>1, EmptySeq
  <2>2. ASSUME NEW t \in Seq(S), NEW e \in S, t \in Typed PROVE Append(t, e) \in Typed
    <3>1. Append(t, e) \in Seq(S)
      BY AppendProperties
    <3>2. Of(t) \o f[e] \in Seq(T)
      BY <2>2, ConcatProperties
    <3>3. QED
      BY <1>2, <3>1, <3>2
  <2> HIDE DEF Typed
  <2>3. QED
    BY <2>1, <2>2, SequencesBySteps
<1>4. ASSUME NEW s \in Seq(S)
      PROVE  \A t \in Seq(S) : Of(s \o t) = Of(s) \o Of(t)
  <2> DEFINE Joins == {t \in Seq(S) : Of(s \o t) = Of(s) \o Of(t)}
  <2>1. <<>> \in Joins
    <3>1. s \o <<>> = s /\ Of(s) \o <<>> = Of(s)
      BY <1>3, ConcatEmptySeq
    <3>2. QED
      BY <1>1, <3>1, EmptySeq
  <2>2. ASSUME NEW t \in Seq(S), NEW e \in S, t \in Joins PROVE Append(t, e) \in Joins
    <3>1. Append(t, e) \in Seq(S) /\ s \o t \in Seq(S)
      BY AppendProperties, ConcatProperties
    <3>2. s \o Append(t, e) = Append(s \o t, e)
      <4>1. <<e>> \in Seq(S)
        OBVIOUS
      <4>2. Append(t, e) = t \o <<e>> /\ Append(s \o t, e) = (s \o t) \o <<e>>
        BY <3>1, AppendIsConcat
      <4>3. QED
        BY <4>1, <4>2, ConcatAssociative
    <3>3. Of(Append(s \o t, e)) = Of(s \o t) \o f[e] /\ Of(Append(t, e)) = Of(t) \o f[e]
      BY <1>2, <3>1
    <3>4. (Of(s) \o Of(t)) \o f[e] = Of(s) \o (Of(t) \o f[e])
      <4>1. Of(s) \in Seq(T) /\ Of(t) \in Seq(T) /\ f[e] \in Seq(T)
        BY <1>3
      <4>2. QED
        BY <4>1, ConcatAssociative
    <3>5. Of(s \o t) = Of(s) \o Of(t)
      BY <2>2
    <3>6. Of(s \o Append(t, e)) = Of(s) \o Of(Append(t, e))
      BY <3>2, <3>3, <3>4, <3>5
    <3>7. QED
      BY <3>1, <3>6
  <2>3. \A t \in Seq(S) : t \in Joins
    <3> HIDE DEF Joins
    <3>1. QED
      BY <2>1, <2>2, SequencesBySteps
  <2>4. QED
    BY <2>3
<1>5. ASSUME NEW e \in S PROVE Of(<<e>>) = f[e]
  <2>1. <<>> \in Seq(S) /\ Append(<<>>, e) = <<e>>
    <3>1. <<>> \in Seq(S) /\ <<e>> \in Seq(S)
      BY EmptySeq
    <3>2. QED
      BY <3>1, AppendIsConcat, ConcatEmptySeq
  <2>2. <<>> \o f[e] = f[e]
    BY ConcatEmptySeq
  <2>3. QED
    BY <1>1, <1>2, <2>1, <2>2
<1>6. QED
  BY <1>1, <1>2, <1>3, <1>4, <1>5 DEF Of, PieceByPiece

-----------------------------------------------------------------------------
(* The template with its placeholders filled in.                           *)

\* What prompts are made of.
Strings ==
    Placeholders \cup Names
        \cup {"schema", "bounds", "no objects", "no movements", "no orientations", "nothing held", "unknown"}
        \cup UNION {ToSet(text) : text \in UserTexts \cup {Template}}

Piece(e, hole) == IF e = hole THEN Value(hole) ELSE <<e>>

\* Fill puts a piece in the place of each string.
LEMMA FillIs ==
    ASSUME NEW hole, NEW text \in Seq(Strings)
    PROVE  Fill(text, hole) = FlatMap([e \in Strings |-> Piece(e, hole)], text)
<1> DEFINE f == [e \in Strings |-> Piece(e, hole)]
<1>1. DOMAIN text = 1 .. Len(text) /\ \A i \in 1 .. Len(text) : text[i] \in Strings
  BY LenProperties, ElementOfSeq
<1>2. [i \in DOMAIN text |-> IF text[i] = hole THEN Value(hole) ELSE <<text[i]>>]
        = [i \in DOMAIN text |-> f[text[i]]]
  BY <1>1 DEF Piece
<1>3. QED
  BY <1>2 DEF Fill, FlatMap, MapOf

\* Fill works on the two parts of a text separately.
LEMMA FillConcat ==
    ASSUME NEW hole, Value(hole) \in Seq(Strings)
    PROVE  /\ \A e \in Strings : Fill(<<e>>, hole) = Piece(e, hole)
           /\ \A s, t \in Seq(Strings) :
                /\ Fill(t, hole) \in Seq(Strings)
                /\ Fill(s \o t, hole) = Fill(s, hole) \o Fill(t, hole)
<1> DEFINE f == [e \in Strings |-> Piece(e, hole)]
<1>1. f \in [Strings -> Seq(Strings)]
  BY DEF Piece
<1>2. \A t \in Seq(Strings) : Fill(t, hole) = FlatMap(f, t)
  BY FillIs
<1>3. /\ \A e \in Strings : <<e>> \in Seq(Strings) /\ f[e] = Piece(e, hole)
      /\ \A s, t \in Seq(Strings) : s \o t \in Seq(Strings)
  BY ConcatProperties
<1> HIDE DEF f
<1>4. /\ \A e \in Strings : FlatMap(f, <<e>>) = f[e]
      /\ \A s, t \in Seq(Strings) : /\ FlatMap(f, t) \in Seq(Strings)
                                    /\ FlatMap(f, s \o t) = FlatMap(f, s) \o FlatMap(f, t)
  <2>1. PieceByPiece(f, Strings, Strings)
    BY <1>1, FlatMapIs
  <2>2. QED
    BY <2>1 DEF PieceByPiece
<1>5. ASSUME NEW e \in Strings PROVE Fill(<<e>>, hole) = Piece(e, hole)
  BY <1>2, <1>3, <1>4
<1>6. ASSUME NEW s \in Seq(Strings), NEW t \in Seq(Strings)
      PROVE  /\ Fill(t, hole) \in Seq(Strings)
             /\ Fill(s \o t, hole) = Fill(s, hole) \o Fill(t, hole)
  BY <1>2, <1>3, <1>4
<1>7. QED
  BY <1>5, <1>6

\* A text without the placeholder stays as it is.
LEMMA FillNothing ==
    ASSUME NEW hole, NEW t \in Seq(Strings), hole \notin ToSet(t)
    PROVE  Fill(t, hole) = t
<1> DEFINE f == [e \in Strings |-> <<e>>]
           Kept == {s \in Seq(Strings) : FlatMap(f, s) = s}
<1>1. f \in [Strings -> Seq(Strings)]
  OBVIOUS
<1>2. \A s \in Seq(Strings) : s \in Kept
  <2>1. \A e \in Strings : f[e] = <<e>>
    OBVIOUS
  <2> HIDE DEF f
  <2>2. /\ FlatMap(f, <<>>) = <<>>
        /\ \A s \in Seq(Strings), e \in Strings : FlatMap(f, Append(s, e)) = FlatMap(f, s) \o f[e]
    <3>1. PieceByPiece(f, Strings, Strings)
      BY <1>1, FlatMapIs
    <3>2. QED
      BY <3>1 DEF PieceByPiece
  <2>3. <<>> \in Kept
    BY <2>2, EmptySeq
  <2>4. ASSUME NEW s \in Seq(Strings), NEW e \in Strings, s \in Kept PROVE Append(s, e) \in Kept
    <3>1. Append(s, e) \in Seq(Strings) /\ Append(s, e) = s \o <<e>>
      BY AppendProperties, AppendIsConcat
    <3>2. QED
      BY <2>1, <2>2, <2>4, <3>1
  <2> HIDE DEF Kept
  <2>5. QED
    BY <2>3, <2>4, SequencesBySteps
<1>3. Fill(t, hole) = FlatMap(f, t)
  <2>1. DOMAIN t = 1 .. Len(t) /\ \A i \in 1 .. Len(t) : t[i] \in Strings /\ t[i] # hole
    BY LenProperties, ElementOfSeq DEF ToSet
  <2>2. [i \in DOMAIN t |-> IF t[i] = hole THEN Value(hole) ELSE <<t[i]>>]
          = [i \in DOMAIN t |-> f[t[i]]]
    BY <2>1
  <2>3. QED
    BY <2>2 DEF Fill, FlatMap, MapOf
<1>4. QED
  BY <1>2, <1>3

SceneHoles == {"{schema_template}", "{available_objects}", "{available_movements}",
               "{available_orientations}", "{table_bounds}", "{held_objects}"}

\* What is put in for the placeholders: strings, and for those of the scene
\* nothing that is a placeholder again.
ValuesInv ==
    /\ \A hole \in Placeholders : Value(hole) \in Seq(Strings)
    /\ \A hole \in SceneHoles : ToSet(Value(hole)) \cap Placeholders = {}

\* buildPrompt, on any text.
Built(text) == Fill(FillScene(text), "{user_command}")

\* Each placeholder is replaced in the two parts of a text separately.
LEMMA FillParts ==
    ASSUME ValuesInv, NEW hole \in Placeholders,
           NEW u \in Seq(Strings), NEW v \in Seq(Strings), NEW w, w = u \o v
    PROVE  /\ Fill(u, hole) \in Seq(Strings) /\ Fill(v, hole) \in Seq(Strings)
           /\ Fill(w, hole) = Fill(u, hole) \o Fill(v, hole)
BY FillConcat DEF ValuesInv

\* A text and two parts of it.
Splits(u, v, w) == u \in Seq(Strings) /\ v \in Seq(Strings) /\ w = u \o v

\* buildPrompt works on the two parts of a text separately.
LEMMA BuiltConcat ==
    ASSUME ValuesInv, NEW s \in Seq(Strings), NEW t \in Seq(Strings)
    PROVE  Splits(Built(s), Built(t), Built(s \o t))
<1>1. \A hole \in Placeholders : \A u, v, w :
        Splits(u, v, w) => Splits(Fill(u, hole), Fill(v, hole), Fill(w, hole))
  <2> SUFFICES ASSUME NEW hole \in Placeholders, NEW u, NEW v, NEW w, Splits(u, v, w)
               PROVE  Splits(Fill(u, hole), Fill(v, hole), Fill(w, hole))
    OBVIOUS
  <2>1. u \in Seq(Strings) /\ v \in Seq(Strings) /\ w = u \o v
    BY DEF Splits
  <2>2. /\ Fill(u, hole) \in Seq(Strings) /\ Fill(v, hole) \in Seq(Strings)
        /\ Fill(w, hole) = Fill(u, hole) \o Fill(v, hole)
    BY <2>1, FillParts
  <2>3. QED
    BY <2>2 DEF Splits
<1>2. Splits(s, t, s \o t)
  BY DEF Splits
<1>3. /\ "{schema_template}" \in Placeholders /\ "{available_objects}" \in Placeholders
      /\ "{available_movements}" \in Placeholders /\ "{available_orientations}" \in Placeholders
      /\ "{table_bounds}" \in Placeholders /\ "{held_objects}" \in Placeholders
      /\ "{user_command}" \in Placeholders
  BY DEF Placeholders
<1>4. QED
  BY <1>1, <1>2, <1>3, ZenonT(30) DEF Built, FillScene

\* A text without placeholders stays as it is.
LEMMA BuiltNothing ==
    ASSUME NEW t \in Seq(Strings), ToSet(t) \cap Placeholders = {}
    PROVE  Built(t) = t
<1>1. \A hole \in Placeholders : Fill(t, hole) = t
  BY FillNothing
<1>2. QED
  BY <1>1 DEF Built, FillScene, Placeholders

\* A placeholder alone becomes its value, though that of the command may
\* contain any text.
LEMMA BuiltHole ==
    ASSUME ValuesInv, NEW hole \in Placeholders
    PROVE  Built(<<hole>>) = Value(hole)
<1>1. <<hole>> \in Seq(Strings) /\ ToSet(<<hole>>) = {hole} /\ hole \in Strings
  <2>1. hole \in Strings
    BY DEF Strings
  <2>2. <<hole>> \in Seq(Strings)
    BY <2>1
  <2>3. DOMAIN <<hole>> = {1} /\ <<hole>>[1] = hole
    OBVIOUS
  <2>4. QED
    BY <2>1, <2>2, <2>3 DEF ToSet
<1>2. Fill(<<hole>>, hole) = Value(hole)
  BY <1>1, FillConcat DEF Piece, ValuesInv
<1>3. \A h \in Placeholders : h # hole => Fill(<<hole>>, h) = <<hole>>
  BY <1>1, FillNothing
<1>4. ASSUME hole \in SceneHoles
      PROVE  \A h \in Placeholders : Fill(Value(hole), h) = Value(hole)
  BY <1>4, FillNothing DEF ValuesInv
<1>5. FillScene(<<hole>>) = IF hole \in SceneHoles THEN Value(hole) ELSE <<hole>>
  BY <1>2, <1>3, <1>4 DEF FillScene, SceneHoles, Placeholders
<1>6. QED
  BY <1>2, <1>4, <1>5 DEF Built, SceneHoles, Placeholders

\* A text with each placeholder replaced once, on its own.
Insert(e) == IF e \in Placeholders THEN Value(e) ELSE <<e>>
Filled(text) == FlattenSeq([i \in DOMAIN text |-> Insert(text[i])])

\* Filled puts a piece in the place of each string.
LEMMA FilledIs ==
    ASSUME NEW text \in Seq(Strings)
    PROVE  Filled(text) = FlatMap([e \in Strings |-> Insert(e)], text)
<1> DEFINE f == [e \in Strings |-> Insert(e)]
<1>1. DOMAIN text = 1 .. Len(text) /\ \A i \in 1 .. Len(text) : text[i] \in Strings
  BY LenProperties, ElementOfSeq
<1>2. [i \in DOMAIN text |-> Insert(text[i])] = [i \in DOMAIN text |-> f[text[i]]]
  BY <1>1
<1>3. QED
  BY <1>2 DEF Filled, FlatMap, MapOf

\* buildPrompt replaces each placeholder of the text once.
LEMMA BuiltIsFilled ==
    ASSUME ValuesInv
    PROVE  \A t \in Seq(Strings) : Built(t) = Filled(t) /\ Built(t) \in Seq(Strings)
<1> DEFINE Same == {t \in Seq(Strings) : Built(t) = Filled(t) /\ Built(t) \in Seq(Strings)}
<1>0. /\ Filled(<<>>) = <<>>
      /\ \A t \in Seq(Strings), e \in Strings : Filled(Append(t, e)) = Filled(t) \o Insert(e)
  <2> DEFINE f == [e \in Strings |-> Insert(e)]
  <2>1. f \in [Strings -> Seq(Strings)]
    BY DEF Insert, ValuesInv
  <2>2. \A t \in Seq(Strings) : Filled(t) = FlatMap(f, t)
    BY FilledIs
  <2>3. /\ \A e \in Strings : f[e] = Insert(e)
        /\ \A t \in Seq(Strings), e \in Strings : Append(t, e) \in Seq(Strings)
        /\ <<>> \in Seq(Strings)
    BY AppendProperties, EmptySeq
  <2> HIDE DEF f
  <2>4. /\ FlatMap(f, <<>>) = <<>>
        /\ \A t \in Seq(Strings), e \in Strings : FlatMap(f, Append(t, e)) = FlatMap(f, t) \o f[e]
    <3>1. PieceByPiece(f, Strings, Strings)
      BY <2>1, FlatMapIs
    <3>2. QED
      BY <3>1 DEF PieceByPiece
  <2>5. QED
    BY <2>2, <2>3, <2>4
<1>1. <<>> \in Same
  <2>1. <<>> \in Seq(Strings) /\ ToSet(<<>>) = {} /\ DOMAIN <<>> = {}
    BY EmptySeq DEF ToSet
  <2>2. Built(<<>>) = <<>>
    BY <2>1, BuiltNothing
  <2>3. Filled(<<>>) = <<>>
    BY <1>0, <2>1
  <2>4. QED
    BY <2>1, <2>2, <2>3
<1>2. ASSUME NEW t \in Seq(Strings), NEW e \in Strings, t \in Same PROVE Append(t, e) \in Same
  <2>1. /\ Append(t, e) \in Seq(Strings) /\ <<e>> \in Seq(Strings)
        /\ Append(t, e) = t \o <<e>>
    BY AppendProperties, AppendIsConcat
  <2>2. Splits(Built(t), Built(<<e>>), Built(t \o <<e>>))
    BY <2>1, BuiltConcat
  <2>3. Built(<<e>>) = Insert(e)
    <3>1. CASE e \in Placeholders
      BY <3>1, BuiltHole DEF Insert
    <3>2. CASE e \notin Placeholders
      <4>1. DOMAIN <<e>> = {1} /\ <<e>>[1] = e
        OBVIOUS
      <4>2. ToSet(<<e>>) = {e}
        BY <4>1 DEF ToSet
      <4>3. QED
        BY <2>1, <3>2, <4>2, BuiltNothing DEF Insert
    <3>3. QED
      BY <3>1, <3>2
  <2>4. Filled(Append(t, e)) = Filled(t) \o Insert(e)
    BY <1>0
  <2>5. Built(t) \o Built(<<e>>) \in Seq(Strings)
    BY <2>2, ConcatProperties DEF Splits
  <2>6. QED
    BY <1>2, <2>1, <2>2, <2>3, <2>4, <2>5 DEF Splits
<1>3. \A t \in Seq(Strings) : t \in Same
  <2> HIDE DEF Same
  <2>1. QED
    BY <1>1, <1>2, SequencesBySteps
<1>4. QED
  BY <1>3

-----------------------------------------------------------------------------
\* The list of a finite set has strings of it.
LEMMA ListOfNames ==
    ASSUME NEW names \in SUBSET Names, IsFiniteSet(names), NEW fallback \in Strings \ Placeholders
    PROVE  /\ namedListOrFallback(names, fallback) \in Seq(Strings)
           /\ ToSet(namedListOrFallback(names, fallback)) \cap Placeholders = {}
<1> DEFINE list == namedListOrFallback(names, fallback)
<1>1. CASE names = {}
  <2>1. list = <<fallback>>
    BY <1>1 DEF namedListOrFallback
  <2>2. <<fallback>> \in Seq(Strings) /\ DOMAIN <<fallback>> = {1} /\ <<fallback>>[1] = fallback
    OBVIOUS
  <2>3. QED
    BY <2>1, <2>2 DEF ToSet
<1>2. CASE names # {}
  <2> DEFINE n == Cardinality(names)
  <2>1. list = CHOOSE f \in [1 .. n -> names] : IsInjective(f)
    BY <1>2 DEF namedListOrFallback, SetToSeq
  <2>2. n \in Nat /\ \E f \in [1 .. n -> names] : IsInjective(f)
    <3>1. n \in Nat /\ ExistsBijection(1 .. n, names)
      BY FS_CardinalityType
    <3>2. QED
      BY <3>1 DEF ExistsBijection, Bijection, Injection
  <2> HIDE DEF n
  <2>3. list \in [1 .. n -> names]
    BY <2>1, <2>2
  <2> HIDE DEF list
  <2>4. list \in Seq(names)
    BY <2>2, <2>3, SeqDef
  <2>5. names \subseteq Strings
    BY DEF Strings
  <2>6. list \in Seq(Strings)
    BY <2>4, <2>5, SeqMonotonic
  <2>7. ToSet(list) \subseteq names
    BY <2>3 DEF ToSet
  <2>8. QED
    BY <2>6, <2>7, NoPlaceholderIsAName DEF list
<1>3. QED
  BY <1>1, <1>2

\* What the prompt is made of, and what has been sent of it: nothing before the
\* first request, then the filled template, and with a correction after it when
\* a second request was made.
PromptInv ==
    /\ userText \in UserTexts /\ held \in HeldLists \cup {None}
    /\ pc \in {"scene", "ask"} => prompt = <<>>
    /\ pc \in {"retry", "decide", "over"} =>
         \/ prompt = Filled(Template)
         \/ /\ refusal # None /\ pc # "retry"
            /\ \E flagged, resolved : prompt = Filled(Template) \o Correction(flagged, resolved)

\* With a scene and a command, every placeholder has a value.
LEMMA ValuesHold ==
    ASSUME scene \in Scenes, userText \in UserTexts, held \in HeldLists \cup {None}
    PROVE  ValuesInv
<1>1. \A kind \in Kinds : scene[kind] \in SUBSET Names /\ IsFiniteSet(scene[kind])
  BY ListsAreFinite
<1>2. /\ "no objects" \in Strings \ Placeholders /\ "no movements" \in Strings \ Placeholders
      /\ "no orientations" \in Strings \ Placeholders /\ "nothing held" \in Strings \ Placeholders
      /\ "unknown" \in Strings \ Placeholders /\ "schema" \in Strings \ Placeholders
      /\ "bounds" \in Strings \ Placeholders
  BY DEF Strings, Placeholders
<1>3. ASSUME NEW x \in Strings \ Placeholders
      PROVE  <<x>> \in Seq(Strings) /\ ToSet(<<x>>) \cap Placeholders = {}
  <2>1. <<x>> \in Seq(Strings) /\ DOMAIN <<x>> = {1} /\ <<x>>[1] = x
    OBVIOUS
  <2>2. QED
    BY <2>1 DEF ToSet
<1> DEFINE Good(hole) == Value(hole) \in Seq(Strings) /\ ToSet(Value(hole)) \cap Placeholders = {}
<1>4. Good("{schema_template}") /\ Good("{table_bounds}")
  BY <1>2, <1>3 DEF Value
<1>5. Good("{available_objects}")
  <2>1. Value("{available_objects}") = namedListOrFallback(scene["object"], "no objects")
    BY DEF Value
  <2>2. QED
    BY <1>1, <1>2, <2>1, ListOfNames DEF Kinds
<1>6. Good("{available_movements}")
  <2>1. Value("{available_movements}") = namedListOrFallback(scene["movement"], "no movements")
    BY DEF Value
  <2>2. QED
    BY <1>1, <1>2, <2>1, ListOfNames DEF Kinds
<1>7. Good("{available_orientations}")
  <2>1. Value("{available_orientations}") = namedListOrFallback(scene["orientation"], "no orientations")
    BY DEF Value
  <2>2. QED
    BY <1>1, <1>2, <2>1, ListOfNames DEF Kinds
<1>8. Good("{held_objects}")
  <2>1. Value("{held_objects}") = formatHeldObjects
    BY DEF Value
  <2>2. CASE held = None
    BY <1>2, <1>3, <2>1, <2>2 DEF formatHeldObjects
  <2>3. CASE held # None
    <3>1. held \in SUBSET Names /\ IsFiniteSet(held)
      BY <2>3, ListsAreFinite
    <3>2. formatHeldObjects = namedListOrFallback(held, "nothing held")
      BY <2>3 DEF formatHeldObjects
    <3>3. QED
      BY <1>2, <2>1, <3>1, <3>2, ListOfNames
  <2>4. QED
    BY <2>2, <2>3
<1>9. Value("{user_command}") \in Seq(Strings)
  <2>1. userText \in Seq(ToSet(userText)) /\ ToSet(userText) \subseteq Strings
    BY TextsAreSequences DEF Strings
  <2>2. userText \in Seq(Strings)
    BY <2>1, SeqMonotonic
  <2>3. Value("{user_command}") = userText
    BY DEF Value
  <2>4. QED
    BY <2>2, <2>3
<1>10. QED
  <2> HIDE DEF Good
  <2>1. \A hole \in SceneHoles : Good(hole)
    BY <1>4, <1>5, <1>6, <1>7, <1>8 DEF SceneHoles
  <2>2. \A hole \in Placeholders : hole \in SceneHoles \/ hole = "{user_command}"
    BY DEF Placeholders, SceneHoles
  <2>3. QED
    BY <1>9, <2>1, <2>2 DEF Good, ValuesInv

\* The template is a text.
LEMMA TemplateType == Template \in Seq(Strings)
<1>1. Template \in Seq(ToSet(Template)) /\ ToSet(Template) \subseteq Strings
  BY TextsAreSequences DEF Strings
<1>2. QED
  BY <1>1, SeqMonotonic

\* What has been filled in does not change while the command runs.
LEMMA FilledKept ==
    ASSUME UNCHANGED <<scene, held, userText>>
    PROVE  Filled(Template)' = Filled(Template)
BY DEF Filled, Insert, Value, namedListOrFallback, formatHeldObjects, FlattenSeq

\* buildPrompt, when there is a scene.
LEMMA BuildPromptIs ==
    ASSUME IInv, PromptInv, pc # "scene"
    PROVE  buildPrompt = Filled(Template)
<1>1. ValuesInv
  BY ValuesHold DEF IInv, StageInv, PromptInv
<1>2. QED
  BY <1>1, TemplateType, BuiltIsFilled DEF Built, buildPrompt

\* Every step keeps it.
LEMMA PromptInvStep == IInv /\ PromptInv /\ [TextNext]_allVars => PromptInv'
<1> SUFFICES ASSUME IInv, PromptInv, [TextNext]_allVars PROVE PromptInv'
  OBVIOUS
<1>1. CASE ReadFresh \/ ReadCached
  BY <1>1 DEF ReadFresh, ReadCached, ReadScene, PromptInv
<1>2. CASE CallFails \/ \E text \in Texts : AskReturns(text)
  <2>1. /\ pc = "ask" /\ pc' \in {"retry", "decide"} /\ prompt' = buildPrompt
        /\ UNCHANGED <<scene, held, userText>>
    BY <1>2 DEF CallFails, AskReturns, AskFails, AskGivesRecipe, AskGivesRefusal, Return
  <2>2. prompt' = Filled(Template)'
    BY <2>1, BuildPromptIs, FilledKept
  <2>3. QED
    BY <2>1, <2>2 DEF PromptInv
<1>3. CASE RetryCallFails \/ \E text \in Texts : RetryReturns(text)
  <2>1. /\ pc = "retry" /\ pc' = "decide" /\ prompt' = RetryPrompt
        /\ UNCHANGED <<scene, held, userText, refusal>>
    BY <1>3 DEF RetryCallFails, RetryReturns, RetryFails, RetryGivesRecipe, RetryGivesRefusal, Return
  <2>2. refusal # None
    BY <2>1, NoneIsNoDocument DEF IInv, RetryInv
  <2>3. prompt = Filled(Template) /\ Filled(Template)' = Filled(Template)
    BY <2>1, FilledKept DEF PromptInv
  <2>4. \E flagged, resolved : prompt' = Filled(Template)' \o Correction(flagged, resolved)
    BY <2>1, <2>3 DEF RetryPrompt
  <2>5. \E flagged, resolved : prompt' = Filled(Template)' \o Correction(flagged, resolved)'
    BY <2>4 DEF Correction
  <2>6. QED
    BY <2>1, <2>2, <2>5 DEF PromptInv
<1>4. CASE Report
  <2>1. /\ pc = "decide" /\ pc' = "over"
        /\ UNCHANGED <<scene, held, userText, refusal, prompt>>
    BY <1>4 DEF Report, Decide
  <2>2. Filled(Template)' = Filled(Template)
    BY <2>1, FilledKept
  <2>3. QED
    BY <2>1, <2>2 DEF PromptInv, Correction
<1>5. CASE UNCHANGED allVars
  <2>1. UNCHANGED <<pc, scene, held, userText, refusal, prompt>>
    BY <1>5 DEF allVars, vars, textVars
  <2>2. Filled(Template)' = Filled(Template)
    BY <2>1, FilledKept
  <2>3. QED
    BY <2>1, <2>2 DEF PromptInv, Correction
<1>6. QED
  BY <1>1, <1>2, <1>3, <1>4, <1>5 DEF TextNext, Over, allVars

\* A text begins what is made by adding to it.
LEMMA PrefixOfMore ==
    ASSUME NEW S, NEW s \in Seq(S), NEW t \in Seq(S)
    PROVE  IsPrefix(s, s \o t)
<1>1. /\ Len(s) \in Nat /\ Len(t) \in Nat /\ Len(s \o t) = Len(s) + Len(t) /\ s \o t \in Seq(S)
      /\ \A i \in 1 .. Len(s) : (s \o t)[i] = s[i]
  BY LenProperties, ConcatProperties
<1>2. SubSeq(s, 1, Len(s)) = s
  OBVIOUS
<1>3. SubSeq(s \o t, 1, Len(s)) = s
  BY <1>1
<1>4. QED
  BY <1>1, <1>2, <1>3 DEF IsPrefix

\* The model is asked with the template whose placeholders are each filled in
\* once, whatever the command and the lists are, and asked again with more.
THEOREM PromptFilled == TextSpec => []PromptIsFilled
<1>1. TextInit => PromptInv
  BY DEF TextInit, Init, PromptInv
<1>2. IInv /\ PromptInv /\ [TextNext]_allVars => PromptInv'
  BY PromptInvStep
<1>3. IInv /\ PromptInv => PromptIsFilled
  <2> SUFFICES ASSUME IInv, PromptInv, prompt # <<>>
               PROVE  /\ IsPrefix(Filled(Template), prompt)
                      /\ refusal = None \/ pc = "retry" => prompt = Filled(Template)
    BY DEF PromptIsFilled, Filled, Insert
  <2>1. pc \in {"retry", "decide", "over"}
    BY DEF IInv, TypeOK, PromptInv
  <2>2. Filled(Template) \in Seq(Strings)
    <3>1. ValuesInv
      BY <2>1, ValuesHold DEF IInv, StageInv, PromptInv
    <3>2. QED
      BY <3>1, TemplateType, BuiltIsFilled
  <2>3. CASE prompt = Filled(Template)
    <3>1. <<>> \in Seq(Strings) /\ Filled(Template) \o <<>> = Filled(Template)
      BY <2>2, EmptySeq, ConcatEmptySeq
    <3>2. QED
      BY <2>2, <2>3, <3>1, PrefixOfMore
  <2>4. CASE /\ refusal # None /\ pc # "retry"
             /\ \E flagged, resolved : prompt = Filled(Template) \o Correction(flagged, resolved)
    <3>1. PICK flagged, resolved : prompt = Filled(Template) \o Correction(flagged, resolved)
      BY <2>4
    <3> DEFINE S == Strings \cup {"not", flagged, "but", resolved}
    <3>2. Correction(flagged, resolved) \in Seq(S)
      BY DEF Correction
    <3>3. Filled(Template) \in Seq(S)
      <4>1. Strings \subseteq S
        OBVIOUS
      <4> HIDE DEF S
      <4>2. QED
        BY <2>2, <4>1, SeqMonotonic
    <3> HIDE DEF S
    <3>4. IsPrefix(Filled(Template), prompt)
      BY <3>1, <3>2, <3>3, PrefixOfMore
    <3>5. QED
      BY <2>4, <3>4
  <2>5. QED
    BY <2>1, <2>3, <2>4 DEF PromptInv
<1>4. TextSpec => []IInv
  BY TextsImplement, Inductive, PTL
<1>5. QED
  BY <1>1, <1>2, <1>3, <1>4, PTL DEF TextSpec

-----------------------------------------------------------------------------
(* The matcher (Matcher), whose verdicts RecipePipeline takes as a         *)
(* relation between names.                                                 *)

Picked(v, name) == IF IsCandidate(v, name) THEN <<name>> ELSE <<>>

\* The matcher looks at each name of a list on its own.
NameByName(S, v) ==
    /\ CandidatesOf(v, <<>>) = <<>>
    /\ \A e \in S : CandidatesOf(v, <<e>>) = Picked(v, e)
    /\ \A t \in Seq(S), e \in S :
         CandidatesOf(v, Append(t, e)) = CandidatesOf(v, t) \o Picked(v, e)
    /\ \A t \in Seq(S) : CandidatesOf(v, t) \in Seq(S)
    /\ \A s, t \in Seq(S) :
         CandidatesOf(v, s \o t) = CandidatesOf(v, s) \o CandidatesOf(v, t)

LEMMA CandidatesAre ==
    ASSUME NEW S, NEW v
    PROVE  NameByName(S, v)
<1> DEFINE f == [n \in S |-> Picked(v, n)]
           Of(t) == CandidatesOf(v, t)
<1>1. f \in [S -> Seq(S)]
  <2>1. <<>> \in Seq(S)
    BY EmptySeq
  <2>2. QED
    BY <2>1 DEF Picked
<1>2. ASSUME NEW t \in Seq(S) PROVE Of(t) = FlatMap(f, t)
  <2>1. DOMAIN t = 1 .. Len(t) /\ \A i \in 1 .. Len(t) : t[i] \in S
    BY LenProperties, ElementOfSeq
  <2>2. [i \in DOMAIN t |-> IF IsCandidate(v, t[i]) THEN <<t[i]>> ELSE <<>>] = MapOf(f, t)
    BY <2>1 DEF MapOf, Picked
  <2>3. Of(t) = FlattenSeq([i \in DOMAIN t |-> IF IsCandidate(v, t[i]) THEN <<t[i]>> ELSE <<>>])
    BY DEF CandidatesOf
  <2>4. QED
    BY <2>2, <2>3 DEF FlatMap
<1>3. PieceByPiece(f, S, S)
  <2> HIDE DEF f
  <2>1. QED
    BY <1>1, FlatMapIs
<1>4. /\ \A e \in S : f[e] = Picked(v, e) /\ <<e>> \in Seq(S)
      /\ \A t \in Seq(S), e \in S : Append(t, e) \in Seq(S)
      /\ \A s, t \in Seq(S) : s \o t \in Seq(S)
      /\ <<>> \in Seq(S)
  BY EmptySeq, AppendProperties, ConcatProperties
<1> HIDE DEF f, Of
<1>5. Of(<<>>) = <<>>
  BY <1>2, <1>3, <1>4 DEF PieceByPiece
<1>6. ASSUME NEW e \in S PROVE Of(<<e>>) = Picked(v, e)
  BY <1>2, <1>3, <1>4 DEF PieceByPiece
<1>7. ASSUME NEW t \in Seq(S), NEW e \in S PROVE Of(Append(t, e)) = Of(t) \o Picked(v, e)
  <2>1. FlatMap(f, Append(t, e)) = FlatMap(f, t) \o f[e]
    BY <1>3 DEF PieceByPiece
  <2>2. Append(t, e) \in Seq(S) /\ f[e] = Picked(v, e)
    BY <1>4
  <2>3. QED
    BY <1>2, <2>1, <2>2
<1>8. ASSUME NEW s \in Seq(S), NEW t \in Seq(S) PROVE Of(t) \in Seq(S) /\ Of(s \o t) = Of(s) \o Of(t)
  BY <1>2, <1>3, <1>4 DEF PieceByPiece
<1>9. QED
  BY <1>5, <1>6, <1>7, <1>8 DEF Of, NameByName

\* A list is what stands before a place and what stands from there on.
LEMMA SplitAt ==
    ASSUME NEW S, NEW s \in Seq(S), NEW i \in 1 .. Len(s) + 1
    PROVE  LET s1 == SubSeq(s, 1, i - 1)
               s2 == SubSeq(s, i, Len(s))
           IN  s1 \in Seq(S) /\ s2 \in Seq(S) /\ s = s1 \o s2
<1> DEFINE s1 == SubSeq(s, 1, i - 1)
           s2 == SubSeq(s, i, Len(s))
<1>1. Len(s) \in Nat /\ i \in Nat /\ i - 1 \in Nat /\ i - 1 <= Len(s) /\ 1 <= i /\ i <= Len(s) + 1
  <2>1. Len(s) \in Nat
    BY LenProperties
  <2>2. QED
    BY <2>1
<1>2. s1 \in Seq(S) /\ s2 \in Seq(S)
  BY <1>1
<1>3. s = s1 \o s2
  <2>1. /\ Len(s1) = i - 1 /\ Len(s2) = Len(s) - i + 1
        /\ \A j \in 1 .. i - 1 : s1[j] = s[j]
        /\ \A j \in 1 .. Len(s) - i + 1 : s2[j] = s[i + j - 1]
    BY <1>1
  <2> HIDE DEF s1, s2
  <2>2. /\ s1 \o s2 \in Seq(S) /\ Len(s1 \o s2) = Len(s1) + Len(s2)
        /\ \A j \in 1 .. Len(s1) + Len(s2) :
             (s1 \o s2)[j] = IF j <= Len(s1) THEN s1[j] ELSE s2[j - Len(s1)]
    BY <1>2, ConcatProperties
  <2>3. ASSUME NEW j \in 1 .. Len(s) PROVE s[j] = (s1 \o s2)[j]
    <3>1. CASE j <= i - 1
      <4>1. j \in 1 .. i - 1 /\ j \in 1 .. Len(s1) + Len(s2)
        BY <1>1, <2>1, <3>1
      <4>2. QED
        BY <2>1, <2>2, <3>1, <4>1
    <3>2. CASE ~(j <= i - 1)
      <4>1. /\ j - (i - 1) \in 1 .. Len(s) - i + 1 /\ i + (j - (i - 1)) - 1 = j
            /\ j \in 1 .. Len(s1) + Len(s2)
        BY <1>1, <2>1, <3>2
      <4>2. QED
        BY <2>1, <2>2, <3>2, <4>1
    <3>3. QED
      BY <3>1, <3>2
  <2>4. Len(s1 \o s2) = Len(s)
    <3>1. (i - 1) + (Len(s) - i + 1) = Len(s)
      BY <1>1
    <3>2. QED
      BY <2>1, <2>2, <3>1
  <2>5. QED
    BY <2>2, <2>3, <2>4, SeqEqual
<1>4. QED
  BY <1>2, <1>3

\* A list with one more name has the names of the list and that one.
LEMMA InsertedNames ==
    ASSUME NEW S, NEW s \in Seq(S), NEW i \in 1 .. Len(s) + 1, NEW e \in S
    PROVE  /\ InsertAt(s, i, e) \in Seq(S)
           /\ ToSet(InsertAt(s, i, e)) = ToSet(s) \cup {e}
<1> DEFINE s1 == SubSeq(s, 1, i - 1)
           s2 == SubSeq(s, i, Len(s))
           one == <<e>>
<1>1. s1 \in Seq(S) /\ s2 \in Seq(S) /\ s = s1 \o s2 /\ one \in Seq(S)
  <2>1. one \in Seq(S)
    OBVIOUS
  <2>2. QED
    BY <2>1, SplitAt
<1>2. InsertAt(s, i, e) = s1 \o one \o s2
  BY DEF InsertAt
<1>3. \A x, y \in Seq(S) : x \o y \in Seq(S) /\ ToSet(x \o y) = ToSet(x) \cup ToSet(y)
  <2> SUFFICES ASSUME NEW x \in Seq(S), NEW y \in Seq(S)
               PROVE  x \o y \in Seq(S) /\ ToSet(x \o y) = ToSet(x) \cup ToSet(y)
    OBVIOUS
  <2>1. /\ Len(x) \in Nat /\ Len(y) \in Nat /\ x \o y \in Seq(S) /\ Len(x \o y) = Len(x) + Len(y)
        /\ \A j \in 1 .. Len(x) + Len(y) : (x \o y)[j] = IF j <= Len(x) THEN x[j] ELSE y[j - Len(x)]
    BY LenProperties, ConcatProperties
  <2>2. DOMAIN x = 1 .. Len(x) /\ DOMAIN y = 1 .. Len(y) /\ DOMAIN (x \o y) = 1 .. Len(x) + Len(y)
    BY <2>1, LenProperties
  <2>3. ASSUME NEW j \in 1 .. Len(x) PROVE j \in 1 .. Len(x) + Len(y) /\ (x \o y)[j] = x[j]
    BY <2>1
  <2>4. ASSUME NEW j \in 1 .. Len(y)
        PROVE  Len(x) + j \in 1 .. Len(x) + Len(y) /\ (x \o y)[Len(x) + j] = y[j]
    <3>1. Len(x) + j \in 1 .. Len(x) + Len(y) /\ ~(Len(x) + j <= Len(x)) /\ (Len(x) + j) - Len(x) = j
      BY <2>1
    <3>2. QED
      BY <2>1, <3>1
  <2>5. ASSUME NEW j \in 1 .. Len(x) + Len(y)
        PROVE  \/ j \in 1 .. Len(x) /\ (x \o y)[j] = x[j]
               \/ j - Len(x) \in 1 .. Len(y) /\ (x \o y)[j] = y[j - Len(x)]
    BY <2>1
  <2>6. ToSet(x \o y) \subseteq ToSet(x) \cup ToSet(y)
    BY <2>2, <2>5 DEF ToSet
  <2>7. ToSet(x) \subseteq ToSet(x \o y)
    BY <2>2, <2>3 DEF ToSet
  <2>8. ToSet(y) \subseteq ToSet(x \o y)
    BY <2>2, <2>4 DEF ToSet
  <2>9. QED
    BY <2>1, <2>6, <2>7, <2>8
<1>4. ToSet(one) = {e}
  <2>1. DOMAIN <<e>> = {1} /\ <<e>>[1] = e
    OBVIOUS
  <2>2. QED
    BY <2>1 DEF ToSet
<1> HIDE DEF s1, s2, one
<1>5. s1 \o one \in Seq(S) /\ ToSet(s1 \o one) = ToSet(s1) \cup {e}
  BY <1>1, <1>3, <1>4
<1>6. ToSet(s) = ToSet(s1) \cup ToSet(s2)
  BY <1>1, <1>3
<1>7. /\ s1 \o one \o s2 \in Seq(S)
      /\ ToSet(s1 \o one \o s2) = ToSet(s1 \o one) \cup ToSet(s2)
  BY <1>1, <1>3, <1>5
<1>8. QED
  BY <1>2, <1>5, <1>6, <1>7, Zenon

\* The candidates in t are those in s, with name among them if it is one.
Gains(S, v, s, t, name) ==
    \E a, b \in Seq(S) : /\ CandidatesOf(v, s) = a \o b
                         /\ CandidatesOf(v, t) = a \o Picked(v, name) \o b

\* One more name adds at most itself to the candidates, wherever it is put.
LEMMA CandidatesInsert ==
    ASSUME NEW S, NEW s \in Seq(S), NEW i \in 1 .. Len(s) + 1, NEW e \in S, NEW v
    PROVE  Gains(S, v, s, InsertAt(s, i, e), e)
<1> DEFINE s1 == SubSeq(s, 1, i - 1)
           s2 == SubSeq(s, i, Len(s))
           Of(t) == CandidatesOf(v, t)
<1>2. s1 \in Seq(S) /\ s2 \in Seq(S) /\ <<e>> \in Seq(S)
  BY SplitAt
<1>3. s = s1 \o s2
  BY SplitAt
<1>0. NameByName(S, v)
  BY CandidatesAre
<1>4. Of(<<e>>) = Picked(v, e)
  BY <1>0 DEF NameByName
<1>5. InsertAt(s, i, e) = s1 \o <<e>> \o s2
  BY DEF InsertAt
<1> HIDE DEF s1, s2
<1>6. Of(s1) \in Seq(S) /\ Of(s2) \in Seq(S)
  BY <1>0, <1>2 DEF NameByName
<1>7. Of(s) = Of(s1) \o Of(s2)
  BY <1>0, <1>2, <1>3 DEF NameByName
<1>8. Of(s1 \o <<e>> \o s2) = Of(s1) \o Picked(v, e) \o Of(s2)
  <2>1. s1 \o <<e>> \in Seq(S)
    BY <1>2, ConcatProperties
  <2>2. \A x, y \in Seq(S) : Of(x \o y) = Of(x) \o Of(y)
    BY <1>0 DEF NameByName
  <2> HIDE DEF Of
  <2>3. Of(s1 \o <<e>> \o s2) = Of(s1 \o <<e>>) \o Of(s2)
    BY <1>2, <2>1, <2>2
  <2>4. Of(s1 \o <<e>>) = Of(s1) \o Of(<<e>>)
    BY <1>2, <2>2
  <2>5. QED
    BY <1>4, <2>3, <2>4
<1>9. QED
  BY <1>5, <1>6, <1>7, <1>8 DEF Gains

\* What the matcher has made of the list that it was given.
MatcherInv ==
    /\ value \in Values
    /\ registered \in Seq(Registrable)
    /\ outcome = Resolve(value, registered)

\* Every step of the list keeps it, and keeps the meaning of the written name.
LEMMA MatcherStep ==
    ASSUME MatcherInv, Register
    PROVE  /\ MatcherInv'
           /\ outcome.matched =>
                \/ outcome' = outcome
                \/ outcome'.ambiguous /\ outcome.candidates[1] \in ToSet(outcome'.candidates)
                \/ /\ value \in ToSet(registered') \ ToSet(registered)
                   /\ outcome' = Match(value)
<1> DEFINE Of(t) == CandidatesOf(value, t)
<1>1. PICK name \in Registrable \ ToSet(registered), i \in 1 .. Len(registered) + 1 :
        registered' = InsertAt(registered, i, name)
  BY DEF Register
<1>2. /\ value' = value /\ outcome' = Resolve(value, registered')
      /\ registered \in Seq(Registrable) /\ outcome = Resolve(value, registered)
  BY DEF Register, MatcherInv
<1>3. PICK a \in Seq(Registrable), b \in Seq(Registrable) :
        Of(registered) = a \o b /\ Of(registered') = a \o Picked(value, name) \o b
  <2>1. name \in Registrable /\ registered \in Seq(Registrable)
    BY <1>2
  <2>2. Gains(Registrable, value, registered, registered', name)
    BY <1>1, <2>1, CandidatesInsert
  <2>3. QED
    BY <2>2 DEF Gains
<1>4. /\ registered' \in Seq(Registrable)
      /\ ToSet(registered') = ToSet(registered) \cup {name}
  BY <1>1, <1>2, InsertedNames
<1>5. MatcherInv'
  BY <1>2, <1>4 DEF MatcherInv, Resolve
<1>6. ASSUME outcome.matched
      PROVE  \/ outcome' = outcome
             \/ outcome'.ambiguous /\ outcome.candidates[1] \in ToSet(outcome'.candidates)
             \/ /\ value \in ToSet(registered') \ ToSet(registered)
                /\ outcome' = Match(value)
  <2>1. CASE value \in ToSet(registered')
    <3>1. outcome' = Match(value)
      BY <1>2, <2>1 DEF Resolve
    <3>2. CASE value \in ToSet(registered)
      BY <1>2, <3>1, <3>2 DEF Resolve
    <3>3. QED
      BY <2>1, <3>1, <3>2
  <2>2. CASE value \notin ToSet(registered')
    <3>1. value \notin ToSet(registered)
      BY <1>4, <2>2
    <3>2. outcome = CASE Len(Of(registered)) = 0 -> NoMatch
                      [] Len(Of(registered)) = 1 -> Match(Of(registered)[1])
                      [] OTHER -> Ambiguity(Of(registered))
      BY <1>2, <3>1 DEF Resolve
    <3>3. outcome' = CASE Len(Of(registered')) = 0 -> NoMatch
                       [] Len(Of(registered')) = 1 -> Match(Of(registered')[1])
                       [] OTHER -> Ambiguity(Of(registered'))
      BY <1>2, <2>2 DEF Resolve
    <3> HIDE DEF Of
    <3>4. Of(registered) \in Seq(Registrable)
      BY <1>3, ConcatProperties
    <3>5. Len(Of(registered)) = 1
      BY <1>6, <3>2 DEF NoMatch, Ambiguity
    <3>6. outcome = Match(Of(registered)[1])
      BY <3>2, <3>5
    <3>7. CASE Picked(value, name) = <<>>
      <4>1. Of(registered') = Of(registered)
        <5>1. a \o <<>> = a
          BY ConcatEmptySeq
        <5>2. QED
          BY <1>3, <3>7, <5>1
      <4>2. QED
        BY <3>2, <3>3, <4>1
    <3>8. CASE Picked(value, name) = <<name>>
      <4>1. Len(a) \in Nat /\ Len(b) \in Nat /\ Len(a) + Len(b) = 1
        BY <1>3, <3>5, LenProperties, ConcatProperties
      <4> DEFINE c == a \o <<name>>
                 d == c \o b
      <4>2. /\ <<name>> \in Seq(Registrable) /\ Len(<<name>>) = 1
        OBVIOUS
      <4>3. /\ c \in Seq(Registrable) /\ Len(c) = Len(a) + 1
            /\ \A j \in 1 .. Len(a) + 1 : c[j] = IF j <= Len(a) THEN a[j] ELSE <<name>>[j - Len(a)]
        BY <4>2, ConcatProperties
      <4>4. Of(registered') = d
        BY <1>3, <3>8
      <4> HIDE DEF c
      <4>5. /\ d \in Seq(Registrable) /\ Len(d) = Len(c) + Len(b)
            /\ \A j \in 1 .. Len(c) + Len(b) : d[j] = IF j <= Len(c) THEN c[j] ELSE b[j - Len(c)]
        BY <4>3, ConcatProperties
      <4> HIDE DEF d
      <4>6. /\ Len(a \o b) = Len(a) + Len(b)
            /\ \A j \in 1 .. Len(a) + Len(b) : (a \o b)[j] = IF j <= Len(a) THEN a[j] ELSE b[j - Len(a)]
        BY ConcatProperties
      <4>7. Len(d) = 2
        BY <4>1, <4>3, <4>5
      <4>8. \E j \in 1 .. 2 : d[j] = Of(registered)[1]
        <5>1. CASE Len(a) = 1
          <6>1. 1 \in 1 .. Len(a) + Len(b) /\ 1 \in 1 .. Len(a) + 1 /\ 1 \in 1 .. Len(c) + Len(b)
                /\ 1 <= Len(a) /\ 1 <= Len(c)
            BY <4>1, <4>3, <5>1
          <6>2. (a \o b)[1] = a[1] /\ c[1] = a[1] /\ d[1] = c[1]
            BY <4>3, <4>5, <4>6, <6>1
          <6>3. QED
            BY <1>3, <6>2
        <5>2. CASE Len(a) = 0
          <6>1. Len(b) = 1 /\ Len(c) = 1
            BY <4>1, <4>3, <5>2
          <6>2. 1 \in 1 .. Len(a) + Len(b) /\ 2 \in 1 .. Len(c) + Len(b)
                /\ ~(1 <= Len(a)) /\ ~(2 <= Len(c)) /\ 1 - Len(a) = 1 /\ 2 - Len(c) = 1
            BY <5>2, <6>1
          <6>3. (a \o b)[1] = b[1] /\ d[2] = b[1]
            BY <4>5, <4>6, <6>2
          <6>4. QED
            BY <1>3, <6>3
        <5>3. Len(a) = 0 \/ Len(a) = 1
          <6>1. \A x, y \in Nat : x + y = 1 => x = 0 \/ x = 1
            OBVIOUS
          <6>2. QED
            BY <4>1, <6>1
        <5>4. QED
          BY <5>1, <5>2, <5>3
      <4>9. Of(registered)[1] \in ToSet(d)
        <5>1. DOMAIN d = 1 .. 2
          BY <4>5, <4>7, LenProperties
        <5>2. QED
          BY <4>8, <5>1 DEF ToSet
      <4>10. outcome' = Ambiguity(d)
        BY <3>3, <4>4, <4>7
      <4>11. QED
        BY <3>6, <4>9, <4>10 DEF Ambiguity, Match
    <3>9. QED
      BY <3>7, <3>8 DEF Picked
  <2>3. QED
    BY <2>1, <2>2
<1>7. QED
  BY <1>5, <1>6

\* The invariant holds, whatever is registered.
LEMMA MatcherInductive == MatcherSpec => []MatcherInv
<1>1. MatcherInit => MatcherInv
  <2> SUFFICES ASSUME MatcherInit PROVE MatcherInv
    OBVIOUS
  <2>1. value \in Values /\ registered = <<>> /\ outcome = NoMatch
    BY DEF MatcherInit
  <2>2. <<>> \in Seq(Registrable) /\ DOMAIN <<>> = {} /\ Len(<<>>) = 0
    BY EmptySeq
  <2>3. CandidatesOf(value, <<>>) = <<>>
    <3>1. NameByName(Registrable, value)
      BY CandidatesAre
    <3>2. QED
      BY <3>1 DEF NameByName
  <2>4. Resolve(value, <<>>) = NoMatch
    <3>1. value \notin ToSet(<<>>)
      BY <2>2 DEF ToSet
    <3>2. QED
      BY <2>2, <2>3, <3>1 DEF Resolve
  <2>5. QED
    BY <2>1, <2>2, <2>4 DEF MatcherInv
<1>2. MatcherInv /\ [Register]_matcherVars => MatcherInv'
  <2>1. CASE Register
    BY <2>1, MatcherStep
  <2>2. CASE UNCHANGED matcherVars
    BY <2>2 DEF matcherVars, MatcherInv
  <2>3. QED
    BY <2>1, <2>2
<1>3. QED
  BY <1>1, <1>2, PTL DEF MatcherSpec

\* One more registered name never silently changes what a written name means,
\* for any list, any names and any alphabet (Resolve).
THEOREM MeaningKept == MatcherSpec => MeaningIsStable
<1>1. MatcherInv /\ [Register]_matcherVars
        => [outcome.matched =>
              \/ outcome' = outcome
              \/ outcome'.ambiguous /\ outcome.candidates[1] \in ToSet(outcome'.candidates)
              \/ value \in ToSet(registered') \ ToSet(registered) /\ outcome' = Match(value)]_matcherVars
  BY MatcherStep
<1>2. QED
  BY <1>1, MatcherInductive, PTL DEF MatcherSpec, MeaningIsStable

\* A list that is longer by one has that one as well, and twice if it was there.
LEMMA AppendedSet ==
    ASSUME NEW S, NEW t \in Seq(S), NEW e \in S
    PROVE  /\ ToSet(Append(t, e)) = ToSet(t) \cup {e}
           /\ IsInjective(Append(t, e)) <=> IsInjective(t) /\ e \notin ToSet(t)
<1> DEFINE more == Append(t, e)
<1>1. /\ Len(t) \in Nat /\ more \in Seq(S) /\ Len(more) = Len(t) + 1 /\ more[Len(t) + 1] = e
      /\ \A j \in 1 .. Len(t) : more[j] = t[j]
  <2>1. Len(t) \in Nat
    BY LenProperties
  <2>2. more \in Seq(S) /\ Len(more) = Len(t) + 1 /\ more[Len(t) + 1] = e
    BY AppendProperties
  <2>3. \A j \in 1 .. Len(t) : more[j] = t[j]
    BY AppendProperties
  <2>4. QED
    BY <2>1, <2>2, <2>3
<1>2. DOMAIN t = 1 .. Len(t) /\ DOMAIN more = 1 .. Len(t) + 1
  <2> HIDE DEF more
  <2>1. QED
    BY <1>1, LenProperties
<1> HIDE DEF more
<1>3. ToSet(t) = {t[j] : j \in 1 .. Len(t)} /\ ToSet(more) = {more[j] : j \in 1 .. Len(t) + 1}
  BY <1>2 DEF ToSet
<1>4. \A j \in 1 .. Len(t) + 1 : j = Len(t) + 1 \/ j \in 1 .. Len(t)
  BY <1>1
<1>5. /\ Len(t) + 1 \in 1 .. Len(t) + 1 /\ Len(t) + 1 \notin 1 .. Len(t)
      /\ \A j \in 1 .. Len(t) : j \in 1 .. Len(t) + 1
  BY <1>1
<1>6. ToSet(more) = ToSet(t) \cup {e}
  BY <1>1, <1>3, <1>4, <1>5
<1>7. ASSUME IsInjective(more) PROVE IsInjective(t) /\ e \notin ToSet(t)
  BY <1>1, <1>2, <1>3, <1>5, <1>7 DEF IsInjective
<1>8. ASSUME IsInjective(t), e \notin ToSet(t) PROVE IsInjective(more)
  BY <1>1, <1>2, <1>3, <1>4, <1>8 DEF IsInjective
<1>9. QED
  BY <1>6, <1>7, <1>8 DEF more

\* The candidates are the names of the list that the value is similar to, each
\* as often as the list has it.
LEMMA CandidatesSet ==
    ASSUME NEW S, NEW v
    PROVE  \A t \in Seq(S) :
             /\ ToSet(CandidatesOf(v, t)) = {n \in ToSet(t) : IsCandidate(v, n)}
             /\ IsInjective(t) => IsInjective(CandidatesOf(v, t))
<1> DEFINE Of(t) == CandidatesOf(v, t)
           Right(t) == /\ ToSet(Of(t)) = {n \in ToSet(t) : IsCandidate(v, n)}
                       /\ IsInjective(t) => IsInjective(Of(t))
           Rights == {t \in Seq(S) : Right(t)}
<1>0. NameByName(S, v)
  BY CandidatesAre
<1>1. <<>> \in Rights
  <2>1. <<>> \in Seq(S) /\ DOMAIN <<>> = {}
    BY EmptySeq
  <2>2. ToSet(<<>>) = {} /\ IsInjective(<<>>)
    BY <2>1 DEF ToSet, IsInjective
  <2>3. Of(<<>>) = <<>>
    BY <1>0 DEF NameByName
  <2>4. QED
    BY <2>1, <2>2, <2>3
<1>2. ASSUME NEW t \in Seq(S), NEW e \in S, t \in Rights PROVE Append(t, e) \in Rights
  <2>1. Of(Append(t, e)) = Of(t) \o Picked(v, e) /\ Of(t) \in Seq(S)
    BY <1>0 DEF NameByName
  <2>2. Append(t, e) \in Seq(S)
    BY AppendProperties
  <2>3. /\ ToSet(Append(t, e)) = ToSet(t) \cup {e}
        /\ IsInjective(Append(t, e)) => IsInjective(t) /\ e \notin ToSet(t)
    BY AppendedSet
  <2>4. Right(t)
    BY <1>2
  <2> HIDE DEF Of
  <2>5. CASE IsCandidate(v, e)
    <3>1. Of(Append(t, e)) = Append(Of(t), e)
      BY <2>1, <2>5, AppendIsConcat DEF Picked
    <3>2. /\ ToSet(Append(Of(t), e)) = ToSet(Of(t)) \cup {e}
          /\ IsInjective(Of(t)) /\ e \notin ToSet(Of(t)) => IsInjective(Append(Of(t), e))
      BY <2>1, AppendedSet
    <3>3. ToSet(Of(t)) \subseteq ToSet(t)
      BY <2>4
    <3>4. ToSet(Of(Append(t, e))) = {n \in ToSet(Append(t, e)) : IsCandidate(v, n)}
      BY <2>3, <2>4, <2>5, <3>1, <3>2
    <3>5. IsInjective(Append(t, e)) => IsInjective(Of(Append(t, e)))
      BY <2>3, <2>4, <3>1, <3>2, <3>3
    <3>6. QED
      BY <2>2, <3>4, <3>5
  <2>6. CASE ~IsCandidate(v, e)
    <3>1. Of(Append(t, e)) = Of(t)
      BY <2>1, <2>6, ConcatEmptySeq DEF Picked
    <3>2. QED
      BY <2>2, <2>3, <2>4, <2>6, <3>1
  <2>7. QED
    BY <2>5, <2>6
<1>3. \A t \in Seq(S) : t \in Rights
  <2> HIDE DEF Rights
  <2>1. QED
    BY <1>1, <1>2, SequencesBySteps
<1>4. QED
  BY <1>3

\* With a list that has no name twice, what Resolve returns is what the pipeline
\* needs to know of it: the candidates, and whether there is one, none or several
\* (Resolve, as buildNameError and resolveRecipeNames use it).
THEOREM VerdictsAgree ==
    ASSUME NEW v, NEW names \in Seq(Names), IsInjective(names),
           \A n \in ToSet(names) : <<v, n>> \in Similar <=> IsCandidate(v, n)
    PROVE  LET found   == Candidates(v, ToSet(names))
               verdict == Resolve(v, names)
           IN  /\ ToSet(verdict.candidates) = found
               /\ verdict.matched <=> Unique(found)
               /\ verdict.ambiguous <=> found # {} /\ ~Unique(found)
               /\ verdict.matched => verdict.candidates = <<TheOne(found)>>
<1> DEFINE found == Candidates(v, ToSet(names))
           verdict == Resolve(v, names)
           c == CandidatesOf(v, names)
<1>2. \A x : ToSet(<<x>>) = {x}
  <2> TAKE x
  <2>1. DOMAIN <<x>> = {1} /\ <<x>>[1] = x
    OBVIOUS
  <2>2. QED
    BY <2>1 DEF ToSet
<1>3. \A x : Unique({x}) /\ TheOne({x}) = x /\ {x} # {}
  BY DEF Unique, TheOne
<1>4. ASSUME NEW x, verdict = Match(x), found = {x}
      PROVE  /\ ToSet(verdict.candidates) = found
             /\ verdict.matched <=> Unique(found)
             /\ verdict.ambiguous <=> found # {} /\ ~Unique(found)
             /\ verdict.matched => verdict.candidates = <<TheOne(found)>>
  <2>1. verdict.matched = TRUE /\ verdict.ambiguous = FALSE /\ verdict.candidates = <<x>>
    BY <1>4 DEF Match
  <2>2. QED
    BY <1>2, <1>3, <1>4, <2>1
<1>5. CASE v \in ToSet(names)
  <2>1. found = {v}
    BY <1>5 DEF Candidates
  <2>2. verdict = Match(v)
    BY <1>5 DEF Resolve
  <2>3. QED
    BY <1>4, <2>1, <2>2
<1>6. CASE v \notin ToSet(names)
  <2>1. found = ToSet(c) /\ IsInjective(c) /\ c \in Seq(Names)
    <3>1. ToSet(c) = {n \in ToSet(names) : IsCandidate(v, n)} /\ IsInjective(c)
      BY CandidatesSet
    <3>2. found = {n \in ToSet(names) : <<v, n>> \in Similar}
      BY <1>6 DEF Candidates
    <3>3. c \in Seq(Names)
      <4>1. NameByName(Names, v)
        BY CandidatesAre
      <4>2. QED
        BY <4>1 DEF NameByName
    <3>4. QED
      BY <3>1, <3>2, <3>3
  <2>2. verdict = CASE Len(c) = 0 -> NoMatch
                    [] Len(c) = 1 -> Match(c[1])
                    [] OTHER -> Ambiguity(c)
    BY <1>6 DEF Resolve
  <2> HIDE DEF c, verdict, found
  <2>3. Len(c) \in Nat /\ DOMAIN c = 1 .. Len(c)
    BY <2>1, LenProperties
  <2>4. found = {c[j] : j \in 1 .. Len(c)}
    BY <2>1, <2>3 DEF ToSet
  <2>5. CASE Len(c) = 0
    <3>1. found = {} /\ c = <<>>
      <4>1. 1 .. Len(c) = {}
        BY <2>5
      <4>2. QED
        BY <2>1, <2>4, <2>5, <4>1, EmptySeq
    <3>2. verdict.matched = FALSE /\ verdict.ambiguous = FALSE /\ verdict.candidates = <<>>
      BY <2>2, <2>5 DEF NoMatch
    <3>3. ~Unique({})
      BY DEF Unique
    <3>4. ToSet(<<>>) = {}
      BY <2>1, <3>1
    <3>5. QED
      BY <3>1, <3>2, <3>3, <3>4 DEF found, verdict
  <2>6. CASE Len(c) = 1
    <3>1. 1 .. Len(c) = {1}
      BY <2>6
    <3>2. found = {c[1]}
      BY <2>4, <3>1
    <3>3. verdict = Match(c[1])
      BY <2>2, <2>6
    <3>4. QED
      BY <1>4, <3>2, <3>3 DEF found, verdict
  <2>7. CASE Len(c) # 0 /\ Len(c) # 1
    <3>1. 1 \in 1 .. Len(c) /\ 2 \in 1 .. Len(c) /\ 1 # 2
      BY <2>3, <2>7
    <3>2. c[1] # c[2] /\ c[1] \in found /\ c[2] \in found
      BY <2>1, <2>3, <2>4, <3>1 DEF IsInjective
    <3>3. found # {} /\ ~Unique(found)
      BY <3>2 DEF Unique
    <3>4. verdict = Ambiguity(c)
      BY <2>2, <2>7
    <3>5. verdict.matched = FALSE /\ verdict.ambiguous = TRUE /\ verdict.candidates = c
      BY <3>4 DEF Ambiguity
    <3>6. QED
      BY <2>1, <3>3, <3>5 DEF found, verdict
  <2>8. QED
    BY <2>5, <2>6, <2>7
<1>7. QED
  BY <1>5, <1>6

-----------------------------------------------------------------------------
(* The distance of the matcher.                                            *)

LEMMA Min3Is ==
    ASSUME NEW a \in Nat, NEW b \in Nat, NEW c \in Nat
    PROVE  /\ min3(a, b, c) \in {a, b, c}
           /\ min3(a, b, c) <= a /\ min3(a, b, c) <= b /\ min3(a, b, c) <= c
<1>1. {a, b, c} \in SUBSET Nat /\ {a, b, c} # {}
  OBVIOUS
<1>2. QED
  BY <1>1, MinIs DEF min3

\* The entry that a row of the distance table has at j, from the entry before it
\* and the row before it.
Entry(a, b, i, j, prev, left) ==
    min3(prev[j] + 1, left + 1, prev[j - 1] + IF a[i] = b[j] THEN 0 ELSE 1)

IsRow(a, b, i, prev, f, n) ==
    f = [j \in 0 .. n |-> IF j = 0 THEN i ELSE Entry(a, b, i, j, prev, f[j - 1])]

\* A row of the distance table is made from left to right.
LEMMA RowIs ==
    ASSUME NEW a, NEW b, Len(b) \in Nat, NEW i \in Nat, NEW prev \in [0 .. Len(b) -> Nat]
    PROVE  /\ NextRow(a, b, i, prev) \in [0 .. Len(b) -> Nat]
           /\ NextRow(a, b, i, prev)[0] = i
           /\ \A j \in 1 .. Len(b) :
                NextRow(a, b, i, prev)[j] =
                    Entry(a, b, i, j, prev, NextRow(a, b, i, prev)[j - 1])
<1> DEFINE Rows == {n \in Nat : \E f : IsRow(a, b, i, prev, f, n)}
<1>1. 0 \in Rows
  <2> DEFINE f == [j \in 0 .. 0 |-> i]
  <2>1. IsRow(a, b, i, prev, f, 0)
    BY DEF IsRow
  <2>2. QED
    BY <2>1
<1>2. ASSUME NEW n \in Nat, n \in Rows PROVE n + 1 \in Rows
  <2>1. PICK g : IsRow(a, b, i, prev, g, n)
    BY <1>2
  <2> DEFINE f == [j \in 0 .. n + 1 |->
                     IF j = n + 1 THEN Entry(a, b, i, j, prev, g[n]) ELSE g[j]]
             h == [j \in 0 .. n + 1 |->
                     IF j = 0 THEN i ELSE Entry(a, b, i, j, prev, f[j - 1])]
  <2>2. ASSUME NEW j \in 0 .. n + 1 PROVE f[j] = h[j]
    <3>1. CASE j = n + 1
      <4>1. j - 1 = n /\ n \in 0 .. n + 1 /\ n # n + 1 /\ j # 0
        BY <3>1
      <4>2. f[j - 1] = g[n]
        BY <4>1
      <4>3. QED
        BY <3>1, <4>1, <4>2
    <3>2. CASE j # n + 1
      <4>1. j \in 0 .. n /\ f[j] = g[j]
        BY <3>2
      <4>2. g[j] = IF j = 0 THEN i ELSE Entry(a, b, i, j, prev, g[j - 1])
        BY <2>1, <4>1 DEF IsRow
      <4>3. j # 0 => j - 1 \in 0 .. n /\ f[j - 1] = g[j - 1]
        BY <4>1
      <4>4. QED
        BY <4>1, <4>2, <4>3
    <3>3. QED
      BY <3>1, <3>2
  <2>3. f = h
    BY <2>2
  <2>4. IsRow(a, b, i, prev, f, n + 1)
    BY <2>3 DEF IsRow
  <2>5. QED
    BY <2>4
<1>3. \A n \in Nat : n \in Rows
  <2> HIDE DEF Rows
  <2>1. QED
    BY <1>1, <1>2, NaturalsBySteps
<1>4. IsRow(a, b, i, prev, NextRow(a, b, i, prev), Len(b))
  BY <1>3 DEF NextRow, IsRow, Entry
<1> DEFINE f == NextRow(a, b, i, prev)
<1> HIDE DEF f
<1>5. \A j \in 0 .. Len(b) : f[j] = IF j = 0 THEN i ELSE Entry(a, b, i, j, prev, f[j - 1])
  BY <1>4 DEF IsRow, f
<1>6. f[0] = i /\ \A j \in 1 .. Len(b) : f[j] = Entry(a, b, i, j, prev, f[j - 1])
  BY <1>5
<1>7. \A j \in Nat : j \in {k \in Nat : k <= Len(b) => f[k] \in Nat}
  <2> DEFINE G == {k \in Nat : k <= Len(b) => f[k] \in Nat}
  <2>1. 0 \in G
    BY <1>6
  <2>2. ASSUME NEW k \in Nat, k \in G PROVE k + 1 \in G
    <3> SUFFICES ASSUME k + 1 <= Len(b) PROVE f[k + 1] \in Nat
      OBVIOUS
    <3>1. k + 1 \in 1 .. Len(b) /\ (k + 1) - 1 = k /\ k <= Len(b) /\ k \in 0 .. Len(b)
            /\ k + 1 \in 0 .. Len(b)
      OBVIOUS
    <3>2. f[k] \in Nat /\ prev[k] \in Nat /\ prev[k + 1] \in Nat
      BY <2>2, <3>1
    <3>3. f[k + 1] = Entry(a, b, i, k + 1, prev, f[k])
      BY <1>6, <3>1
    <3>4. Entry(a, b, i, k + 1, prev, f[k]) \in Nat
      <4> DEFINE d == prev[k] + IF a[i] = b[k + 1] THEN 0 ELSE 1
      <4>1. d \in Nat /\ prev[k + 1] + 1 \in Nat /\ f[k] + 1 \in Nat
        BY <3>2
      <4>2. Entry(a, b, i, k + 1, prev, f[k]) = min3(prev[k + 1] + 1, f[k] + 1, d)
        BY <3>1 DEF Entry
      <4> HIDE DEF d
      <4>3. QED
        BY <4>1, <4>2, Min3Is
    <3>5. QED
      BY <3>3, <3>4
  <2> HIDE DEF G
  <2>3. \A k \in Nat : k \in G
    BY <2>1, <2>2, NaturalsBySteps
  <2>4. QED
    BY <2>3 DEF G
<1>8. f \in [0 .. Len(b) -> Nat]
  <2>1. \A j \in 0 .. Len(b) : f[j] \in Nat
    BY <1>7
  <2>2. f = [j \in 0 .. Len(b) |-> IF j = 0 THEN i ELSE Entry(a, b, i, j, prev, f[j - 1])]
    BY <1>4 DEF IsRow, f
  <2>3. DOMAIN f = 0 .. Len(b) /\ f = [j \in DOMAIN f |-> f[j]]
    BY <2>2
  <2>4. QED
    BY <2>1, <2>3
<1>9. QED
  BY <1>6, <1>8 DEF f

IsTable(a, b, f, n) ==
    f = [i \in 0 .. n |-> IF i = 0 THEN [j \in 0 .. Len(b) |-> j] ELSE NextRow(a, b, i, f[i - 1])]

\* What the entries of the distance table are.
Entries(a, b, f) ==
    /\ \A i \in 0 .. Len(a), j \in 0 .. Len(b) : f[i][j] \in Nat
    /\ \A i \in 0 .. Len(a) : f[i][0] = i
    /\ \A j \in 0 .. Len(b) : f[0][j] = j
    /\ \A i \in 1 .. Len(a), j \in 1 .. Len(b) :
         f[i][j] = Entry(a, b, i, j, f[i - 1], f[i][j - 1])

\* levenshtein returns the last entry of the table.
LEMMA TableIs ==
    ASSUME NEW a, NEW b, Len(a) \in Nat, Len(b) \in Nat
    PROVE  \E f : Entries(a, b, f) /\ levenshtein(a, b) = f[Len(a)][Len(b)]
<1> DEFINE Tables == {n \in Nat : \E f : IsTable(a, b, f, n)}
<1>1. 0 \in Tables
  <2> DEFINE f == [i \in 0 .. 0 |-> [j \in 0 .. Len(b) |-> j]]
  <2>1. IsTable(a, b, f, 0)
    BY DEF IsTable
  <2>2. QED
    BY <2>1
<1>2. ASSUME NEW n \in Nat, n \in Tables PROVE n + 1 \in Tables
  <2>1. PICK g : IsTable(a, b, g, n)
    BY <1>2
  <2> DEFINE f == [i \in 0 .. n + 1 |-> IF i = n + 1 THEN NextRow(a, b, i, g[n]) ELSE g[i]]
             h == [i \in 0 .. n + 1 |->
                     IF i = 0 THEN [j \in 0 .. Len(b) |-> j] ELSE NextRow(a, b, i, f[i - 1])]
  <2>2. ASSUME NEW i \in 0 .. n + 1 PROVE f[i] = h[i]
    <3>1. CASE i = n + 1
      <4>1. i - 1 = n /\ n \in 0 .. n + 1 /\ n # n + 1 /\ i # 0
        BY <3>1
      <4>2. f[i - 1] = g[n]
        BY <4>1
      <4>3. QED
        BY <3>1, <4>1, <4>2
    <3>2. CASE i # n + 1
      <4>1. i \in 0 .. n /\ f[i] = g[i]
        BY <3>2
      <4>2. g[i] = IF i = 0 THEN [j \in 0 .. Len(b) |-> j] ELSE NextRow(a, b, i, g[i - 1])
        BY <2>1, <4>1 DEF IsTable
      <4>3. i # 0 => i - 1 \in 0 .. n /\ f[i - 1] = g[i - 1]
        BY <4>1
      <4>4. QED
        BY <4>1, <4>2, <4>3
    <3>3. QED
      BY <3>1, <3>2
  <2>3. f = h
    BY <2>2
  <2>4. IsTable(a, b, f, n + 1)
    BY <2>3 DEF IsTable
  <2>5. QED
    BY <2>4
<1>3. \A n \in Nat : n \in Tables
  <2> HIDE DEF Tables
  <2>1. QED
    BY <1>1, <1>2, NaturalsBySteps
<1>4. \E f : IsTable(a, b, f, Len(a)) /\ levenshtein(a, b) = f[Len(a)][Len(b)]
  <2> DEFINE f == CHOOSE f : IsTable(a, b, f, Len(a))
  <2>1. \E g : IsTable(a, b, g, Len(a))
    BY <1>3
  <2>2. IsTable(a, b, f, Len(a))
    <3> HIDE DEF IsTable
    <3>1. QED
      BY <2>1
  <2>3. levenshtein(a, b) = f[Len(a)][Len(b)]
    BY DEF levenshtein, IsTable
  <2>4. QED
    BY <2>2, <2>3
<1>5. PICK f : IsTable(a, b, f, Len(a)) /\ levenshtein(a, b) = f[Len(a)][Len(b)]
  BY <1>4
<1>6. \A i \in 0 .. Len(a) :
        f[i] = IF i = 0 THEN [j \in 0 .. Len(b) |-> j] ELSE NextRow(a, b, i, f[i - 1])
  BY <1>5 DEF IsTable
<1> DEFINE G == {n \in Nat : n <= Len(a) => f[n] \in [0 .. Len(b) -> Nat]}
<1>7. 0 \in G
  <2>1. f[0] = [j \in 0 .. Len(b) |-> j]
    BY <1>6
  <2>2. [j \in 0 .. Len(b) |-> j] \in [0 .. Len(b) -> Nat]
    OBVIOUS
  <2>3. QED
    BY <2>1, <2>2
<1>8. ASSUME NEW n \in Nat, n \in G PROVE n + 1 \in G
  <2> SUFFICES ASSUME n + 1 <= Len(a) PROVE f[n + 1] \in [0 .. Len(b) -> Nat]
    OBVIOUS
  <2>1. n + 1 \in 0 .. Len(a) /\ n + 1 \in Nat /\ (n + 1) - 1 = n /\ n + 1 # 0 /\ n <= Len(a)
    OBVIOUS
  <2>2. f[n + 1] = NextRow(a, b, n + 1, f[n])
    BY <1>6, <2>1
  <2> DEFINE prev == f[n]
  <2>3. prev \in [0 .. Len(b) -> Nat]
    BY <1>8, <2>1
  <2> HIDE DEF prev
  <2>4. NextRow(a, b, n + 1, prev) \in [0 .. Len(b) -> Nat]
    BY <2>1, <2>3, RowIs
  <2>5. QED
    BY <2>2, <2>4 DEF prev
<1>9. \A n \in Nat : n \in G
  <2> HIDE DEF G
  <2>1. QED
    BY <1>7, <1>8, NaturalsBySteps
<1>10. \A i \in 0 .. Len(a) : f[i] \in [0 .. Len(b) -> Nat]
  BY <1>9
<1>11. ASSUME NEW i \in 1 .. Len(a)
       PROVE  /\ f[i][0] = i
              /\ \A j \in 1 .. Len(b) : f[i][j] = Entry(a, b, i, j, f[i - 1], f[i][j - 1])
  <2>1. i \in 0 .. Len(a) /\ i - 1 \in 0 .. Len(a) /\ i # 0 /\ i \in Nat
    OBVIOUS
  <2>2. f[i] = NextRow(a, b, i, f[i - 1]) /\ f[i - 1] \in [0 .. Len(b) -> Nat]
    BY <1>6, <1>10, <2>1
  <2> DEFINE prev == f[i - 1]
             row  == NextRow(a, b, i, prev)
  <2>3. prev \in [0 .. Len(b) -> Nat] /\ f[i] = row
    BY <2>2
  <2> HIDE DEF prev
  <2>4. row[0] = i /\ \A j \in 1 .. Len(b) : row[j] = Entry(a, b, i, j, prev, row[j - 1])
    BY <2>1, <2>3, RowIs
  <2> HIDE DEF row
  <2>5. QED
    BY <2>3, <2>4 DEF prev
<1>12. f[0] = [j \in 0 .. Len(b) |-> j]
  BY <1>6
<1>13. Entries(a, b, f)
  <2>1. \A i \in 0 .. Len(a), j \in 0 .. Len(b) : f[i][j] \in Nat
    BY <1>10
  <2>2. \A i \in 0 .. Len(a) : f[i][0] = i
    <3>1. f[0][0] = 0
      BY <1>12
    <3>2. \A i \in 0 .. Len(a) : i = 0 \/ i \in 1 .. Len(a)
      OBVIOUS
    <3>3. QED
      BY <1>11, <3>1, <3>2
  <2>3. \A j \in 0 .. Len(b) : f[0][j] = j
    BY <1>12
  <2>4. QED
    BY <1>11, <2>1, <2>2, <2>3 DEF Entries
<1>14. QED
  BY <1>5, <1>13

\* The distance does not depend on which word is written first.
LEMMA Symmetric ==
    ASSUME NEW a, NEW b, Len(a) \in Nat, Len(b) \in Nat
    PROVE  levenshtein(a, b) = levenshtein(b, a)
<1>1. PICK f : Entries(a, b, f) /\ levenshtein(a, b) = f[Len(a)][Len(b)]
  BY TableIs
<1>2. PICK g : Entries(b, a, g) /\ levenshtein(b, a) = g[Len(b)][Len(a)]
  BY TableIs
<1> DEFINE Same(i, j) == f[i][j] = g[j][i]
           G == {n \in Nat : \A i \in 0 .. Len(a), j \in 0 .. Len(b) : i + j <= n => Same(i, j)}
<1>3. \A i \in 0 .. Len(a), j \in 0 .. Len(b) : i = 0 \/ j = 0 => Same(i, j)
  <2> SUFFICES ASSUME NEW i \in 0 .. Len(a), NEW j \in 0 .. Len(b), i = 0 \/ j = 0
               PROVE  Same(i, j)
    OBVIOUS
  <2>1. 0 \in 0 .. Len(a) /\ 0 \in 0 .. Len(b)
    OBVIOUS
  <2>2. CASE i = 0
    BY <1>1, <1>2, <2>1, <2>2 DEF Entries
  <2>3. CASE j = 0
    BY <1>1, <1>2, <2>1, <2>3 DEF Entries
  <2>4. QED
    BY <2>2, <2>3
<1>4. 0 \in G
  <2>1. \A i \in 0 .. Len(a), j \in 0 .. Len(b) : i + j <= 0 => i = 0
    OBVIOUS
  <2>2. QED
    BY <1>3, <2>1
<1>5. ASSUME NEW n \in Nat, n \in G PROVE n + 1 \in G
  <2>1. ASSUME NEW i \in 1 .. Len(a), NEW j \in 1 .. Len(b), i + j <= n + 1 PROVE Same(i, j)
    <3>1. /\ i - 1 \in 0 .. Len(a) /\ i \in 0 .. Len(a) /\ (i - 1) + j <= n
          /\ j - 1 \in 0 .. Len(b) /\ j \in 0 .. Len(b) /\ i + (j - 1) <= n
          /\ (i - 1) + (j - 1) <= n
      BY <2>1
    <3>2. Same(i - 1, j) /\ Same(i, j - 1) /\ Same(i - 1, j - 1)
      BY <1>5, <3>1
    <3> DEFINE x == f[i - 1][j] + 1
               y == f[i][j - 1] + 1
               z == f[i - 1][j - 1] + IF a[i] = b[j] THEN 0 ELSE 1
    <3>3. f[i][j] = min3(x, y, z)
      BY <1>1 DEF Entries, Entry
    <3>4. g[j][i] = min3(y, x, z)
      <4>1. g[j][i] = min3(g[j - 1][i] + 1, g[j][i - 1] + 1,
                           g[j - 1][i - 1] + IF b[j] = a[i] THEN 0 ELSE 1)
        BY <1>2 DEF Entries, Entry
      <4>2. (IF b[j] = a[i] THEN 0 ELSE 1) = (IF a[i] = b[j] THEN 0 ELSE 1)
        OBVIOUS
      <4>3. QED
        BY <3>2, <4>1, <4>2
    <3>5. {x, y, z} = {y, x, z}
      OBVIOUS
    <3>6. min3(x, y, z) = min3(y, x, z)
      BY <3>5 DEF min3
    <3>7. QED
      BY <3>3, <3>4, <3>6
  <2>2. \A i \in 0 .. Len(a) : i = 0 \/ i \in 1 .. Len(a)
    OBVIOUS
  <2>3. \A j \in 0 .. Len(b) : j = 0 \/ j \in 1 .. Len(b)
    OBVIOUS
  <2> HIDE DEF Same
  <2>4. QED
    BY <1>3, <2>1, <2>2, <2>3
<1>6. Len(a) + Len(b) \in G
  <2>1. \A n \in Nat : n \in G
    <3> HIDE DEF G
    <3>1. QED
      BY <1>4, <1>5, NaturalsBySteps
  <2>2. QED
    BY <2>1
<1>7. Len(a) \in 0 .. Len(a) /\ Len(b) \in 0 .. Len(b)
  OBVIOUS
<1>8. QED
  BY <1>1, <1>2, <1>6, <1>7

\* What an alignment is.
LEMMA AlignmentIs ==
    ASSUME NEW i \in Nat, NEW j \in Nat, NEW f
    PROVE  f \in Alignments(i, j) <=>
             /\ DOMAIN f \subseteq 1 .. i /\ f \in [DOMAIN f -> 1 .. j]
             /\ \A k, l \in DOMAIN f : k < l => f[k] < f[l]
<1>1. ASSUME f \in Alignments(i, j)
      PROVE  /\ DOMAIN f \subseteq 1 .. i /\ f \in [DOMAIN f -> 1 .. j]
             /\ \A k, l \in DOMAIN f : k < l => f[k] < f[l]
  <2>1. PICK kept \in SUBSET (1 .. i) : f \in [kept -> 1 .. j]
    BY <1>1 DEF Alignments
  <2>2. DOMAIN f = kept
    BY <2>1
  <2>3. QED
    BY <1>1, <2>1, <2>2 DEF Alignments
<1>2. ASSUME DOMAIN f \subseteq 1 .. i, f \in [DOMAIN f -> 1 .. j],
             \A k, l \in DOMAIN f : k < l => f[k] < f[l]
      PROVE  f \in Alignments(i, j)
  <2>1. DOMAIN f \in SUBSET (1 .. i)
    BY <1>2
  <2>2. f \in UNION {[kept -> 1 .. j] : kept \in SUBSET (1 .. i)}
    BY <1>2, <2>1
  <2>3. QED
    BY <1>2, <2>2 DEF Alignments
<1>3. QED
  BY <1>1, <1>2

Changed(a, b, f) == {k \in DOMAIN f : a[k] # b[f[k]]}

\* How many places are kept, and how many of them changed.
LEMMA AlignmentCounts ==
    ASSUME NEW a, NEW b, NEW i \in Nat, NEW j \in Nat, NEW f \in Alignments(i, j)
    PROVE  /\ IsFiniteSet(DOMAIN f) /\ IsFiniteSet(Changed(a, b, f))
           /\ Cardinality(DOMAIN f) \in Nat /\ Cardinality(Changed(a, b, f)) \in Nat
           /\ Edits(a, b, i, j, f) = (i - Cardinality(DOMAIN f)) + (j - Cardinality(DOMAIN f))
                                       + Cardinality(Changed(a, b, f))
           /\ Edits(a, b, i, j, f) \in Int
<1>1. IsFiniteSet(1 .. i)
  BY FS_Interval
<1>2. DOMAIN f \subseteq 1 .. i
  BY AlignmentIs
<1>3. IsFiniteSet(DOMAIN f)
  BY <1>1, <1>2, FS_Subset
<1>4. IsFiniteSet(Changed(a, b, f))
  BY <1>3, FS_Subset DEF Changed
<1>5. Cardinality(DOMAIN f) \in Nat /\ Cardinality(Changed(a, b, f)) \in Nat
  BY <1>3, <1>4, FS_CardinalityType
<1>6. Edits(a, b, i, j, f) = (i - Cardinality(DOMAIN f)) + (j - Cardinality(DOMAIN f))
                               + Cardinality(Changed(a, b, f))
  BY DEF Edits, Changed
<1>7. QED
  BY <1>3, <1>4, <1>5, <1>6

\* An alignment is one of a longer word too, and has one more edit there.
LEMMA Wider ==
    ASSUME NEW a, NEW b, NEW i \in Nat, NEW j \in Nat, NEW f \in Alignments(i, j)
    PROVE  /\ f \in Alignments(i + 1, j)
           /\ Edits(a, b, i + 1, j, f) = Edits(a, b, i, j, f) + 1
           /\ f \in Alignments(i, j + 1)
           /\ Edits(a, b, i, j + 1, f) = Edits(a, b, i, j, f) + 1
<1>1. /\ DOMAIN f \subseteq 1 .. i /\ f \in [DOMAIN f -> 1 .. j]
      /\ \A k, l \in DOMAIN f : k < l => f[k] < f[l]
  BY AlignmentIs
<1>2. 1 .. i \subseteq 1 .. i + 1 /\ 1 .. j \subseteq 1 .. j + 1 /\ i + 1 \in Nat /\ j + 1 \in Nat
  OBVIOUS
<1>3. DOMAIN f \subseteq 1 .. i + 1 /\ f \in [DOMAIN f -> 1 .. j + 1]
  BY <1>1, <1>2
<1>4. f \in Alignments(i + 1, j)
  BY <1>1, <1>2, <1>3, AlignmentIs
<1>5. f \in Alignments(i, j + 1)
  BY <1>1, <1>2, <1>3, AlignmentIs
<1> DEFINE d == Cardinality(DOMAIN f)
           c == Cardinality(Changed(a, b, f))
<1>6. /\ d \in Nat /\ c \in Nat
      /\ Edits(a, b, i, j, f) = (i - d) + (j - d) + c
      /\ Edits(a, b, i + 1, j, f) = ((i + 1) - d) + (j - d) + c
      /\ Edits(a, b, i, j + 1, f) = (i - d) + ((j + 1) - d) + c
  BY <1>2, <1>4, <1>5, AlignmentCounts
<1> HIDE DEF d, c
<1>7. QED
  BY <1>4, <1>5, <1>6

\* f aligns two words as g aligns them without their last characters, and aligns these.
ExtendsBoth(f, g, i, j) ==
    /\ DOMAIN f = DOMAIN g \cup {i + 1} /\ f[i + 1] = j + 1
    /\ \A k \in DOMAIN g : f[k] = g[k]

\* The last characters of two words, aligned with each other, cost an edit if
\* they differ.
LEMMA Longer ==
    ASSUME NEW a, NEW b, NEW i \in Nat, NEW j \in Nat,
           NEW f \in Alignments(i + 1, j + 1), NEW g \in Alignments(i, j), ExtendsBoth(f, g, i, j),
           NEW more, more = IF a[i + 1] = b[j + 1] THEN 0 ELSE 1
    PROVE  Edits(a, b, i + 1, j + 1, f) = Edits(a, b, i, j, g) + more
<1> USE DEF ExtendsBoth
<1>1. i + 1 \in Nat /\ j + 1 \in Nat /\ i + 1 \notin 1 .. i
  OBVIOUS
<1>2. i + 1 \notin DOMAIN g
  BY <1>1, AlignmentIs
<1> DEFINE d == Cardinality(DOMAIN g)
           c == Cardinality(Changed(a, b, g))
           e == Cardinality(DOMAIN f)
           h == Cardinality(Changed(a, b, f))
<1>3. /\ IsFiniteSet(DOMAIN g) /\ IsFiniteSet(Changed(a, b, g))
      /\ d \in Nat /\ c \in Nat /\ e \in Nat /\ h \in Nat
      /\ Edits(a, b, i, j, g) = (i - d) + (j - d) + c
      /\ Edits(a, b, i + 1, j + 1, f) = ((i + 1) - e) + ((j + 1) - e) + h
  <2>1. /\ IsFiniteSet(DOMAIN g) /\ IsFiniteSet(Changed(a, b, g))
        /\ d \in Nat /\ c \in Nat
        /\ Edits(a, b, i, j, g) = (i - d) + (j - d) + c
    BY AlignmentCounts
  <2>2. e \in Nat /\ h \in Nat /\ Edits(a, b, i + 1, j + 1, f) = ((i + 1) - e) + ((j + 1) - e) + h
    BY <1>1, AlignmentCounts
  <2>3. QED
    BY <2>1, <2>2
<1>4. e = d + 1
  BY <1>2, <1>3, FS_AddElement
<1>5. \A k \in DOMAIN g : a[k] # b[f[k]] <=> a[k] # b[g[k]]
  OBVIOUS
<1>6. CASE a[i + 1] = b[j + 1]
  <2>1. Changed(a, b, f) = Changed(a, b, g)
    BY <1>2, <1>5, <1>6 DEF Changed
  <2> HIDE DEF d, e
  <2>2. QED
    BY <1>3, <1>4, <1>6, <2>1
<1>7. CASE a[i + 1] # b[j + 1]
  <2>1. Changed(a, b, f) = Changed(a, b, g) \cup {i + 1}
    BY <1>2, <1>5, <1>7 DEF Changed
  <2>2. i + 1 \notin Changed(a, b, g)
    BY <1>2 DEF Changed
  <2>3. h = c + 1
    BY <1>3, <2>1, <2>2, FS_AddElement
  <2> HIDE DEF d, e, c, h
  <2>4. QED
    BY <1>3, <1>4, <1>7, <2>3
<1>8. QED
  BY <1>6, <1>7

\* An alignment keeps the last characters of both words, or is one of words that
\* are shorter.
LEMMA Shorter ==
    ASSUME NEW i \in Nat, NEW j \in Nat, NEW f \in Alignments(i + 1, j + 1)
    PROVE  \/ f \in Alignments(i, j + 1)
           \/ f \in Alignments(i + 1, j)
           \/ \E g \in Alignments(i, j) : ExtendsBoth(f, g, i, j)
<1>1. i + 1 \in Nat /\ j + 1 \in Nat
  OBVIOUS
<1>2. /\ DOMAIN f \subseteq 1 .. i + 1 /\ f \in [DOMAIN f -> 1 .. j + 1]
      /\ \A k, l \in DOMAIN f : k < l => f[k] < f[l]
  BY <1>1, AlignmentIs
<1>3. CASE i + 1 \notin DOMAIN f
  <2>1. \A k \in 1 .. i + 1 : k # i + 1 => k \in 1 .. i
    OBVIOUS
  <2>2. DOMAIN f \subseteq 1 .. i
    BY <1>2, <1>3, <2>1
  <2>3. QED
    BY <1>1, <1>2, <2>2, AlignmentIs
<1>4. ASSUME i + 1 \in DOMAIN f, NEW k \in DOMAIN f, k # i + 1
      PROVE  k \in 1 .. i /\ f[k] \in 1 .. j /\ f[k] < f[i + 1]
  <2>1. k \in 1 .. i + 1 /\ f[k] \in 1 .. j + 1 /\ f[i + 1] \in 1 .. j + 1
    BY <1>2, <1>4
  <2>2. k < i + 1
    BY <1>4, <2>1
  <2>3. f[k] < f[i + 1]
    BY <1>2, <1>4, <2>2
  <2>4. QED
    BY <1>4, <2>1, <2>2, <2>3
<1>5. CASE i + 1 \in DOMAIN f /\ f[i + 1] # j + 1
  <2>1. f[i + 1] \in 1 .. j
    BY <1>2, <1>5
  <2>2. \A k \in DOMAIN f : f[k] \in 1 .. j
    BY <1>4, <1>5, <2>1
  <2>3. f \in [DOMAIN f -> 1 .. j]
    BY <1>2, <2>2
  <2>4. QED
    BY <1>1, <1>2, <2>3, AlignmentIs
<1>6. CASE i + 1 \in DOMAIN f /\ f[i + 1] = j + 1
  <2> DEFINE g == [k \in DOMAIN f \ {i + 1} |-> f[k]]
  <2>1. DOMAIN g = DOMAIN f \ {i + 1} /\ \A k \in DOMAIN g : f[k] = g[k]
    OBVIOUS
  <2>2. DOMAIN g \subseteq 1 .. i /\ g \in [DOMAIN g -> 1 .. j]
    BY <1>4, <1>6
  <2>3. \A k, l \in DOMAIN g : k < l => g[k] < g[l]
    BY <1>2, <2>1
  <2> HIDE DEF g
  <2>4. g \in Alignments(i, j)
    BY <2>2, <2>3, AlignmentIs
  <2>5. DOMAIN f = DOMAIN g \cup {i + 1}
    BY <1>6, <2>1
  <2>6. QED
    BY <1>6, <2>1, <2>4, <2>5 DEF ExtendsBoth
<1>7. QED
  BY <1>3, <1>5, <1>6

\* Two words that are aligned can be aligned with one more character each.
LEMMA Extended ==
    ASSUME NEW i \in Nat, NEW j \in Nat, NEW g \in Alignments(i, j)
    PROVE  \E f \in Alignments(i + 1, j + 1) : ExtendsBoth(f, g, i, j)
<1>1. i + 1 \in Nat /\ j + 1 \in Nat /\ i + 1 \notin 1 .. i
  OBVIOUS
<1>2. /\ DOMAIN g \subseteq 1 .. i /\ g \in [DOMAIN g -> 1 .. j]
      /\ \A k, l \in DOMAIN g : k < l => g[k] < g[l]
  BY AlignmentIs
<1> DEFINE f == [k \in DOMAIN g \cup {i + 1} |-> IF k = i + 1 THEN j + 1 ELSE g[k]]
<1>3. DOMAIN f = DOMAIN g \cup {i + 1} /\ f[i + 1] = j + 1
  OBVIOUS
<1>4. \A k \in DOMAIN g : f[k] = g[k] /\ k \in 1 .. i /\ g[k] \in 1 .. j
  BY <1>1, <1>2
<1> HIDE DEF f
<1>5. DOMAIN f \subseteq 1 .. i + 1
  BY <1>2, <1>3
<1>6. \A k \in DOMAIN f : f[k] \in 1 .. j + 1
  BY <1>3, <1>4
<1>7. f \in [DOMAIN f -> 1 .. j + 1]
  <2>1. f = [k \in DOMAIN f |-> f[k]]
    BY DEF f
  <2>2. QED
    BY <1>6, <2>1
<1>8. ASSUME NEW k \in DOMAIN f, NEW l \in DOMAIN f, k < l PROVE f[k] < f[l]
  <2>1. k # i + 1
    BY <1>3, <1>4, <1>8
  <2>2. k \in DOMAIN g /\ f[k] = g[k] /\ g[k] \in 1 .. j
    BY <1>3, <1>4, <2>1
  <2>3. CASE l = i + 1
    BY <1>3, <2>2, <2>3
  <2>4. CASE l # i + 1
    BY <1>2, <1>3, <1>4, <1>8, <2>2, <2>4
  <2>5. QED
    BY <2>3, <2>4
<1>9. f \in Alignments(i + 1, j + 1)
  BY <1>1, <1>5, <1>7, <1>8, AlignmentIs
<1>10. QED
  BY <1>3, <1>4, <1>9 DEF ExtendsBoth

\* d is what the best alignment of the first characters costs.
Least(a, b, i, j, d) ==
    /\ \E g \in Alignments(i, j) : d = Edits(a, b, i, j, g)
    /\ \A g \in Alignments(i, j) : d <= Edits(a, b, i, j, g)

\* Nothing is aligned with an empty word.
LEMMA LeastAtEdge ==
    ASSUME NEW a, NEW b, NEW i \in Nat, NEW j \in Nat, i = 0 \/ j = 0
    PROVE  Least(a, b, i, j, i + j)
<1>1. \A g \in Alignments(i, j) : DOMAIN g = {}
  <2>1. 1 .. 0 = {}
    OBVIOUS
  <2> SUFFICES ASSUME NEW g \in Alignments(i, j) PROVE DOMAIN g = {}
    OBVIOUS
  <2>2. DOMAIN g \subseteq 1 .. i /\ g \in [DOMAIN g -> 1 .. j]
    BY AlignmentIs
  <2>3. CASE i = 0
    BY <2>1, <2>2, <2>3
  <2>4. CASE j = 0
    <3>1. \A k \in DOMAIN g : g[k] \in 1 .. 0
      BY <2>2, <2>4
    <3>2. QED
      BY <2>1, <3>1
  <2>5. QED
    BY <2>3, <2>4
<1>2. \A g \in Alignments(i, j) : Edits(a, b, i, j, g) = i + j
  <2> SUFFICES ASSUME NEW g \in Alignments(i, j) PROVE Edits(a, b, i, j, g) = i + j
    OBVIOUS
  <2>1. DOMAIN g = {} /\ Changed(a, b, g) = {}
    BY <1>1 DEF Changed
  <2>2. Cardinality(DOMAIN g) = 0 /\ Cardinality(Changed(a, b, g)) = 0
    BY <2>1, FS_EmptySet
  <2>3. Edits(a, b, i, j, g) = (i - 0) + (j - 0) + 0
    BY <2>2, AlignmentCounts
  <2>4. QED
    BY <2>3
<1>3. \E g : g \in Alignments(i, j)
  <2> DEFINE g == [k \in {} |-> 0]
  <2>1. DOMAIN g = {} /\ g \in [{} -> 1 .. j]
    OBVIOUS
  <2> HIDE DEF g
  <2>2. g \in Alignments(i, j)
    BY <2>1, AlignmentIs
  <2>3. QED
    BY <2>2
<1>4. QED
  BY <1>2, <1>3 DEF Least

\* The best alignment of longer words comes from the best ones of shorter words.
LEMMA LeastStep ==
    ASSUME NEW a, NEW b, NEW i \in Nat, NEW j \in Nat,
           NEW x \in Nat, Least(a, b, i, j + 1, x),
           NEW y \in Nat, Least(a, b, i + 1, j, y),
           NEW z \in Nat, Least(a, b, i, j, z),
           NEW c, c = IF a[i + 1] = b[j + 1] THEN 0 ELSE 1
    PROVE  Least(a, b, i + 1, j + 1, min3(x + 1, y + 1, z + c))
<1> DEFINE d == min3(x + 1, y + 1, z + c)
<1>1. i + 1 \in Nat /\ j + 1 \in Nat /\ c \in Nat
  OBVIOUS
<1>2. /\ d \in {x + 1, y + 1, z + c}
      /\ d <= x + 1 /\ d <= y + 1 /\ d <= z + c
      /\ d \in Nat
  <2>1. x + 1 \in Nat /\ y + 1 \in Nat /\ z + c \in Nat
    BY <1>1
  <2>2. d \in {x + 1, y + 1, z + c} /\ d <= x + 1 /\ d <= y + 1 /\ d <= z + c
    BY <2>1, Min3Is
  <2>3. QED
    BY <2>1, <2>2
<1>3. ASSUME NEW f \in Alignments(i + 1, j + 1) PROVE d <= Edits(a, b, i + 1, j + 1, f)
  <2>1. CASE f \in Alignments(i, j + 1)
    <3>1. /\ Edits(a, b, i + 1, j + 1, f) = Edits(a, b, i, j + 1, f) + 1
          /\ Edits(a, b, i, j + 1, f) \in Int /\ x <= Edits(a, b, i, j + 1, f)
      BY <1>1, <2>1, Wider, AlignmentCounts DEF Least
    <3> HIDE DEF d
    <3>2. QED
      BY <1>2, <3>1
  <2>2. CASE f \in Alignments(i + 1, j)
    <3>1. /\ Edits(a, b, i + 1, j + 1, f) = Edits(a, b, i + 1, j, f) + 1
          /\ Edits(a, b, i + 1, j, f) \in Int /\ y <= Edits(a, b, i + 1, j, f)
      BY <1>1, <2>2, Wider, AlignmentCounts DEF Least
    <3> HIDE DEF d
    <3>2. QED
      BY <1>2, <3>1
  <2>3. ASSUME NEW g \in Alignments(i, j), ExtendsBoth(f, g, i, j)
        PROVE  d <= Edits(a, b, i + 1, j + 1, f)
    <3>1. Edits(a, b, i + 1, j + 1, f) = Edits(a, b, i, j, g) + c
      BY <2>3, Longer
    <3>2. Edits(a, b, i, j, g) \in Int /\ z <= Edits(a, b, i, j, g)
      BY AlignmentCounts DEF Least
    <3> HIDE DEF d
    <3>3. QED
      BY <1>1, <1>2, <3>1, <3>2
  <2>4. QED
    BY <2>1, <2>2, <2>3, Shorter
<1>4. \E f \in Alignments(i + 1, j + 1) : d = Edits(a, b, i + 1, j + 1, f)
  <2>1. CASE d = x + 1
    <3>1. PICK g \in Alignments(i, j + 1) : x = Edits(a, b, i, j + 1, g)
      BY DEF Least
    <3>2. g \in Alignments(i + 1, j + 1) /\ Edits(a, b, i + 1, j + 1, g) = x + 1
      BY <1>1, <3>1, Wider
    <3>3. QED
      BY <2>1, <3>2
  <2>2. CASE d = y + 1
    <3>1. PICK g \in Alignments(i + 1, j) : y = Edits(a, b, i + 1, j, g)
      BY DEF Least
    <3>2. g \in Alignments(i + 1, j + 1) /\ Edits(a, b, i + 1, j + 1, g) = y + 1
      BY <1>1, <3>1, Wider
    <3>3. QED
      BY <2>2, <3>2
  <2>3. CASE d = z + c
    <3>1. PICK g \in Alignments(i, j) : z = Edits(a, b, i, j, g)
      BY DEF Least
    <3>2. PICK f \in Alignments(i + 1, j + 1) : ExtendsBoth(f, g, i, j)
      BY Extended
    <3> HIDE DEF d
    <3>3. Edits(a, b, i + 1, j + 1, f) = Edits(a, b, i, j, g) + c
      <4>1. c = IF a[i + 1] = b[j + 1] THEN 0 ELSE 1
        OBVIOUS
      <4>2. QED
        BY ONLY <3>2, <4>1, Longer, i \in Nat, j \in Nat
    <3>4. QED
      BY <2>3, <3>1, <3>3
  <2>4. QED
    BY <1>2, <2>1, <2>2, <2>3
<1>5. QED
  BY <1>3, <1>4 DEF Least

\* The table holds the distances of all beginnings of the two words.
LEMMA EntriesAreLeast ==
    ASSUME NEW a, NEW b, Len(a) \in Nat, Len(b) \in Nat, NEW f, Entries(a, b, f)
    PROVE  Least(a, b, Len(a), Len(b), f[Len(a)][Len(b)])
<1> DEFINE At(i, j) == Least(a, b, i, j, f[i][j])
           G == {n \in Nat : \A i \in 0 .. Len(a), j \in 0 .. Len(b) : i + j <= n => At(i, j)}
<1>1. \A i \in 0 .. Len(a), j \in 0 .. Len(b) : i = 0 \/ j = 0 => At(i, j)
  <2> SUFFICES ASSUME NEW i \in 0 .. Len(a), NEW j \in 0 .. Len(b), i = 0 \/ j = 0
               PROVE  At(i, j)
    OBVIOUS
  <2>1. f[i][j] = i + j
    BY DEF Entries
  <2>2. i \in Nat /\ j \in Nat
    OBVIOUS
  <2>3. QED
    BY <2>1, <2>2, LeastAtEdge
<1>2. 0 \in G
  <2>1. \A i \in 0 .. Len(a), j \in 0 .. Len(b) : i + j <= 0 => i = 0
    OBVIOUS
  <2> HIDE DEF At
  <2>2. QED
    BY <1>1, <2>1
<1>3. ASSUME NEW n \in Nat, n \in G PROVE n + 1 \in G
  <2>1. ASSUME NEW p \in 1 .. Len(a), NEW q \in 1 .. Len(b), p + q <= n + 1 PROVE At(p, q)
    <3>1. PICK i \in Nat, j \in Nat : p = i + 1 /\ q = j + 1
      <4>1. p - 1 \in Nat /\ q - 1 \in Nat /\ p = (p - 1) + 1 /\ q = (q - 1) + 1
        OBVIOUS
      <4>2. QED
        BY <4>1
    <3>2. /\ i \in 0 .. Len(a) /\ i + 1 \in 0 .. Len(a) /\ j \in 0 .. Len(b) /\ j + 1 \in 0 .. Len(b)
          /\ i + (j + 1) <= n /\ (i + 1) + j <= n /\ i + j <= n
          /\ p - 1 = i /\ q - 1 = j
      BY <2>1, <3>1
    <3> DEFINE x == f[i][j + 1]
               y == f[i + 1][j]
               z == f[i][j]
               c == IF a[i + 1] = b[j + 1] THEN 0 ELSE 1
    <3>3. Least(a, b, i, j + 1, x) /\ Least(a, b, i + 1, j, y) /\ Least(a, b, i, j, z)
      BY <1>3, <3>2
    <3>4. x \in Nat /\ y \in Nat /\ z \in Nat
      BY <3>2 DEF Entries
    <3>5. f[p][q] = Entry(a, b, p, q, f[p - 1], f[p][q - 1])
      BY DEF Entries
    <3>6. f[p][q] = min3(x + 1, y + 1, z + c)
      BY <3>1, <3>2, <3>5 DEF Entry
    <3>7. Least(a, b, i + 1, j + 1, f[p][q])
      <4>1. c = IF a[i + 1] = b[j + 1] THEN 0 ELSE 1
        OBVIOUS
      <4> HIDE DEF x, y, z, c
      <4>2. Least(a, b, i + 1, j + 1, min3(x + 1, y + 1, z + c))
        BY <3>3, <3>4, <4>1, LeastStep
      <4>3. QED
        BY <3>6, <4>2
    <3>8. QED
      BY <3>1, <3>7
  <2>2. \A i \in 0 .. Len(a) : i = 0 \/ i \in 1 .. Len(a)
    OBVIOUS
  <2>3. \A j \in 0 .. Len(b) : j = 0 \/ j \in 1 .. Len(b)
    OBVIOUS
  <2> HIDE DEF At
  <2>4. QED
    BY <1>1, <2>1, <2>2, <2>3
<1>4. \A n \in Nat : n \in G
  <2> HIDE DEF G
  <2>1. QED
    BY <1>2, <1>3, NaturalsBySteps
<1>5. /\ Len(a) + Len(b) \in Nat /\ Len(a) \in 0 .. Len(a) /\ Len(b) \in 0 .. Len(b)
      /\ Len(a) + Len(b) <= Len(a) + Len(b)
  OBVIOUS
<1>6. At(Len(a), Len(b))
  <2> HIDE DEF At
  <2>1. QED
    BY <1>4, <1>5
<1>7. QED
  BY <1>6

\* levenshtein returns the edit distance of any two words.
LEMMA LevenshteinIs ==
    ASSUME NEW a, NEW b, Len(a) \in Nat, Len(b) \in Nat
    PROVE  levenshtein(a, b) = EditDistance(a, b)
<1> DEFINE d == levenshtein(a, b)
           E == {Edits(a, b, Len(a), Len(b), f) : f \in Alignments(Len(a), Len(b))}
<1>1. Least(a, b, Len(a), Len(b), d)
  BY TableIs, EntriesAreLeast
<1>2. d \in E /\ \A e \in E : d <= e /\ e \in Int
  BY <1>1, AlignmentCounts DEF Least
<1> HIDE DEF d, E
<1>3. Min(E) \in E /\ \A e \in E : Min(E) <= e
  BY <1>2 DEF Min
<1>4. Min(E) = d
  BY <1>2, <1>3
<1>5. QED
  BY <1>4 DEF EditDistance, d, E

\* normalize takes in one more character.
Adding(done, c) ==
    IF c \in DOMAIN Lower THEN Append(done, Lower[c])
    ELSE IF done = <<>> \/ Last(done) = Space THEN done
    ELSE Append(done, Space)

\* The table of the fold of normalize, for its first n characters.
IsFold(f, name, n) ==
    f = [s \in SUBSET (1 .. n) |->
           IF s = {} THEN <<>> ELSE Adding(f[s \ {Max(s)}], name[Max(s)])]

Chars == {Lower[c] : c \in DOMAIN Lower} \cup {Space}

\* The last place of a set of places.
LEMMA LastPlace ==
    ASSUME NEW n \in Nat, NEW s \in SUBSET (1 .. n + 1), s # {}
    PROVE  /\ n + 1 \in s => Max(s) = n + 1
           /\ n + 1 \notin s => s \in SUBSET (1 .. n)
           /\ s \ {n + 1} \in SUBSET (1 .. n)
           /\ Max(s) \in s
<1>1. n + 1 \in Nat
  OBVIOUS
<1>2. Max(s) \in s /\ \A j \in s : Max(s) >= j
  BY <1>1, MaxIs
<1>3. \A k \in 1 .. n + 1 : k # n + 1 => k \in 1 .. n
  OBVIOUS
<1>4. n + 1 \in s => Max(s) = n + 1
  <2>1. Max(s) \in 1 .. n + 1
    BY <1>2
  <2>2. QED
    BY <1>2, <2>1
<1>5. QED
  BY <1>2, <1>3, <1>4

\* The fold of normalize exists: each set of places needs only smaller ones.
LEMMA FoldExists ==
    ASSUME NEW name
    PROVE  \A n \in Nat : \E f : IsFold(f, name, n)
<1> DEFINE G == {n \in Nat : \E f : IsFold(f, name, n)}
<1>1. 0 \in G
  <2> DEFINE f == [s \in SUBSET (1 .. 0) |-> <<>>]
  <2>1. \A s \in SUBSET (1 .. 0) : s = {}
    <3>1. 1 .. 0 = {}
      OBVIOUS
    <3>2. QED
      BY <3>1
  <2>2. IsFold(f, name, 0)
    BY <2>1 DEF IsFold
  <2>3. QED
    BY <2>2
<1>2. ASSUME NEW n \in Nat, n \in G PROVE n + 1 \in G
  <2>1. PICK g : IsFold(g, name, n)
    BY <1>2
  <2> DEFINE f == [s \in SUBSET (1 .. n + 1) |->
                     IF n + 1 \in s THEN Adding(g[s \ {n + 1}], name[n + 1]) ELSE g[s]]
             h == [s \in SUBSET (1 .. n + 1) |->
                     IF s = {} THEN <<>> ELSE Adding(f[s \ {Max(s)}], name[Max(s)])]
  <2>2. \A s \in SUBSET (1 .. n) : f[s] = g[s]
    <3>1. n + 1 \notin 1 .. n /\ 1 .. n \subseteq 1 .. n + 1
      OBVIOUS
    <3>2. QED
      BY <3>1
  <2>3. \A s \in SUBSET (1 .. n) :
          g[s] = IF s = {} THEN <<>> ELSE Adding(g[s \ {Max(s)}], name[Max(s)])
    BY <2>1 DEF IsFold
  <2>4. ASSUME NEW s \in SUBSET (1 .. n + 1) PROVE f[s] = h[s]
    <3>1. CASE n + 1 \in s
      <4>1. s # {} /\ Max(s) = n + 1 /\ s \ {n + 1} \in SUBSET (1 .. n)
        BY <3>1, LastPlace
      <4>2. f[s] = Adding(g[s \ {n + 1}], name[n + 1])
        BY <3>1
      <4>3. h[s] = Adding(f[s \ {n + 1}], name[n + 1])
        BY <4>1
      <4>4. QED
        BY <2>2, <4>1, <4>2, <4>3
    <3>2. CASE n + 1 \notin s
      <4>1. s \in SUBSET (1 .. n)
        BY <3>2, LastPlace
      <4>2. f[s] = IF s = {} THEN <<>> ELSE Adding(g[s \ {Max(s)}], name[Max(s)])
        BY <2>2, <2>3, <4>1
      <4>3. g[s \ {Max(s)}] = f[s \ {Max(s)}]
        <5>1. s \ {Max(s)} \in SUBSET (1 .. n)
          BY <4>1
        <5> HIDE DEF f
        <5>2. QED
          BY <2>2, <5>1
      <4>4. QED
        BY <4>2, <4>3
    <3>3. QED
      BY <3>1, <3>2
  <2>5. f = h
    BY <2>4
  <2>6. IsFold(f, name, n + 1)
    BY <2>5 DEF IsFold
  <2>7. QED
    BY <2>6
<1>3. \A n \in Nat : n \in G
  <2> HIDE DEF G
  <2>1. QED
    BY <1>1, <1>2, NaturalsBySteps
<1>4. QED
  BY <1>3

\* Every entry of the fold is a word.
LEMMA FoldType ==
    ASSUME NEW name, NEW n \in Nat, NEW f, IsFold(f, name, n)
    PROVE  f[1 .. n] \in Seq(Chars)
<1> DEFINE G == {m \in Nat : m <= n => \A s \in SUBSET (1 .. m) : f[s] \in Seq(Chars)}
<1>1. \A s \in SUBSET (1 .. n) :
        f[s] = IF s = {} THEN <<>> ELSE Adding(f[s \ {Max(s)}], name[Max(s)])
  BY DEF IsFold
<1>2. \A done \in Seq(Chars) : \A c : Adding(done, c) \in Seq(Chars)
  <2> SUFFICES ASSUME NEW done \in Seq(Chars), NEW c PROVE Adding(done, c) \in Seq(Chars)
    OBVIOUS
  <2>1. Space \in Chars /\ (c \in DOMAIN Lower => Lower[c] \in Chars)
    BY DEF Chars
  <2>2. QED
    BY <2>1, AppendProperties DEF Adding
<1>3. 0 \in G
  <2>1. \A s \in SUBSET (1 .. 0) : s = {}
    <3>1. 1 .. 0 = {}
      OBVIOUS
    <3>2. QED
      BY <3>1
  <2>2. f[{}] = <<>>
    BY <1>1
  <2>3. QED
    BY <2>1, <2>2, EmptySeq
<1>4. ASSUME NEW m \in Nat, m \in G PROVE m + 1 \in G
  <2> SUFFICES ASSUME m + 1 <= n, NEW s \in SUBSET (1 .. m + 1) PROVE f[s] \in Seq(Chars)
    OBVIOUS
  <2>1. m <= n /\ 1 .. m + 1 \subseteq 1 .. n /\ 1 .. m \subseteq 1 .. n
    OBVIOUS
  <2>2. \A t \in SUBSET (1 .. m) : f[t] \in Seq(Chars)
    BY <1>4, <2>1
  <2>3. CASE m + 1 \in s
    <3>1. s # {} /\ Max(s) = m + 1 /\ s \ {m + 1} \in SUBSET (1 .. m)
      BY <2>3, LastPlace
    <3>2. f[s] = Adding(f[s \ {m + 1}], name[m + 1])
      BY <1>1, <2>1, <3>1
    <3>3. QED
      BY <1>2, <2>2, <3>1, <3>2
  <2>4. CASE m + 1 \notin s
    <3>1. s = {} \/ s \in SUBSET (1 .. m)
      BY <2>4, LastPlace
    <3>2. QED
      BY <2>2, <3>1
  <2>5. QED
    BY <2>3, <2>4
<1>5. n \in G
  <2> HIDE DEF G
  <2>1. QED
    BY <1>3, <1>4, NaturalsBySteps
<1>6. 1 .. n \in SUBSET (1 .. n)
  OBVIOUS
<1>7. QED
  BY <1>5, <1>6

\* normalize returns a word.
LEMMA NormalizeType ==
    ASSUME NEW S, NEW name \in Seq(S)
    PROVE  normalize(name) \in Seq(Chars) /\ Len(normalize(name)) \in Nat
<1> DEFINE n == Len(name)
           fold == CHOOSE f : IsFold(f, name, n)
           folded == fold[1 .. n]
<1>1. n \in Nat /\ DOMAIN name = 1 .. n
  BY LenProperties
<1>2. IsFold(fold, name, n)
  BY <1>1, FoldExists
<1>3. folded \in Seq(Chars)
  BY <1>1, <1>2, FoldType
<1>4. normalize(name) = IF folded # <<>> /\ Last(folded) = Space THEN Front(folded) ELSE folded
  BY <1>1 DEF normalize, FoldLeft, MapThenFoldSet, IsFold, Adding
<1> HIDE DEF folded
<1>5. folded # <<>> => Front(folded) \in Seq(Chars)
  <2> SUFFICES ASSUME folded # <<>> PROVE Front(folded) \in Seq(Chars)
    OBVIOUS
  <2>1. Len(folded) \in Nat /\ Len(folded) # 0
    BY <1>3, LenProperties, EmptySeq
  <2>2. \A k \in 1 .. Len(folded) - 1 : folded[k] \in Chars
    BY <1>3, <2>1, ElementOfSeq
  <2>3. QED
    BY <1>3, <2>1, <2>2, SubSeqProperties DEF Front
<1>6. normalize(name) \in Seq(Chars)
  BY <1>3, <1>4, <1>5
<1>7. QED
  BY <1>6, LenProperties

\* The distance that the matcher computes with two rows is the edit distance of
\* the two words, whichever is written first, for any names and any alphabet
\* (levenshtein).
THEOREM DistanceRight == MatcherSpec => []DistanceIsRight
<1>1. MatcherInv => DistanceIsRight
  <2> SUFFICES ASSUME MatcherInv, NEW name \in ToSet(registered)
               PROVE  LET v == normalize(value)
                          n == normalize(name)
                          d == EditDistance(v, n)
                      IN  levenshtein(v, n) = d /\ levenshtein(n, v) = d
    BY DEF DistanceIsRight
  <2> DEFINE v == normalize(value)
             n == normalize(name)
  <2>1. value \in Seq(STRING) /\ name \in Seq(STRING)
    <3>1. value \in Values /\ registered \in Seq(Registrable)
      BY DEF MatcherInv
    <3>2. name \in Registrable
      BY <3>1, ElementOfSeq, LenProperties DEF ToSet
    <3>3. QED
      BY <3>1, <3>2, NamesAreWords
  <2>2. Len(v) \in Nat /\ Len(n) \in Nat
    BY <2>1, NormalizeType
  <2> HIDE DEF v, n
  <2>3. levenshtein(v, n) = EditDistance(v, n) /\ levenshtein(n, v) = levenshtein(v, n)
    BY <2>2, LevenshteinIs, Symmetric
  <2>4. QED
    BY <2>3 DEF v, n
<1>2. QED
  BY <1>1, MatcherInductive, PTL
=============================================================================
