---------------------------- MODULE PromptAndAnswer ----------------------------
(***************************************************************************)
(* RecipePipeline with its texts (backend/internal/pipeline/prompt.go,     *)
(* validator/validator.go): the prompt that is built from the template,    *)
(* the JSON that is cut out of the model's answer, the document that the   *)
(* validator reads from it, and the two forms in which a Result carries    *)
(* it on: Doc, that decides, and Parsed, the text that is sent.            *)
(*                                                                         *)
(* Each action is one of RecipePipeline with what it does to the texts.    *)
(* A prompt is a sequence of strings.  An answer is a sequence of tokens:  *)
(* a document of the schema, another JSON object, or a mark.               *)
(***************************************************************************)
EXTENDS RecipePipeline, SequencesExt

CONSTANTS Template,   \* system_prompt.md, placeholders and other text
          UserTexts,  \* commands
          Texts,      \* answers of the model
          HeldLists   \* what the gripper may hold

Placeholders == {"{schema_template}", "{available_objects}", "{available_movements}",
                 "{available_orientations}", "{table_bounds}", "{held_objects}",
                 "{user_command}"}

ASSUME NoPlaceholderIsAName == Names \cap Placeholders = {}
ASSUME TextsAreSequences == \A text \in UserTexts \cup {Template} : text \in Seq(ToSet(text))
ASSUME ListsAreFinite ==
    \A names \in HeldLists \cup {env[kind] : env \in Scenes, kind \in Kinds} :
        names \subseteq Names /\ IsFiniteSet(names)

Doc(d)  == [kind |-> "doc", doc |-> d]
Mark(m) == [kind |-> m]
Marks   == {"space", "word", "fence_json", "fence", "{", "}", "{}"}

VARIABLES
    userText,   \* the command
    held,       \* HeldObjects, None when it could not be read
    prompt,     \* the last prompt sent to the LLM proxy
    raw,        \* the last text the LLM proxy returned
    candidate,  \* what Run cut out of the first text
    parsed,     \* Result.Parsed, empty with an error
    sent        \* what the terminal UI has received

textVars == <<userText, held, prompt, raw, candidate, parsed, sent>>
allVars  == <<vars, textVars>>

-----------------------------------------------------------------------------
(* buildPrompt.                                                            *)

namedListOrFallback(names, fallback) == IF names = {} THEN <<fallback>> ELSE SetToSeq(names)

formatHeldObjects == IF held = None THEN <<"unknown">> ELSE namedListOrFallback(held, "nothing held")

Value(hole) ==
    CASE hole = "{schema_template}"        -> <<"schema">>
      [] hole = "{available_objects}"      -> namedListOrFallback(scene["object"], "no objects")
      [] hole = "{available_movements}"    -> namedListOrFallback(scene["movement"], "no movements")
      [] hole = "{available_orientations}" -> namedListOrFallback(scene["orientation"], "no orientations")
      [] hole = "{table_bounds}"           -> <<"bounds">>
      [] hole = "{held_objects}"           -> formatHeldObjects
      [] hole = "{user_command}"           -> userText

Fill(text, hole) ==
    FlattenSeq([i \in DOMAIN text |-> IF text[i] = hole THEN Value(hole) ELSE <<text[i]>>])

FillScene(text) ==
    Fill(Fill(Fill(Fill(Fill(Fill(text, "{schema_template}"), "{available_objects}"),
        "{available_movements}"), "{available_orientations}"), "{table_bounds}"), "{held_objects}")

\* Mutant: the command is put in before the other placeholders are replaced.
CommandFirst == FillScene(Fill(Template, "{user_command}"))

\* One placeholder after the other, each over the result of the one before.
buildPrompt == Fill(FillScene(Template), "{user_command}")

\* missingObjectCorrectionTemplate.
Correction(flagged, resolved) == <<"not", flagged, "but", resolved>>

-----------------------------------------------------------------------------
(* extractJSON and Validate.                                               *)

IsSpace(t) == t.kind = "space"
TrimSpace(text) ==
    LET kept == {i \in DOMAIN text : ~IsSpace(text[i])}
    IN  IF kept = {} THEN <<>> ELSE SubSeq(text, Min(kept), Max(kept))

TrimPrefix(text, mark) == IF text # <<>> /\ Head(text) = Mark(mark) THEN Tail(text) ELSE text
TrimSuffix(text, mark) == IF text # <<>> /\ Last(text) = Mark(mark) THEN Front(text) ELSE text

IsObject(t) == t.kind \in {"doc", "{}"}
IsValid(text) == Len(text) = 1 /\ IsObject(text[1])

\* jsonObjectPattern: from the first opening brace to the last closing one.
Braced(text) ==
    LET opening == {i \in DOMAIN text : IsObject(text[i]) \/ text[i].kind = "{"}
        closing == {i \in DOMAIN text : IsObject(text[i]) \/ text[i].kind = "}"}
    IN  IF opening = {} \/ closing = {} THEN <<>> ELSE SubSeq(text, Min(opening), Max(closing))

\* Mutant: only the code fence is removed.
UnfenceOnly(text) ==
    TrimSpace(TrimSuffix(TrimPrefix(TrimPrefix(TrimSpace(text), "fence_json"), "fence"), "fence"))

extractJSON(text) ==
    LET unfenced == TrimSpace(TrimSuffix(TrimPrefix(TrimPrefix(TrimSpace(text), "fence_json"), "fence"), "fence"))
    IN  IF ~IsValid(unfenced) /\ Braced(unfenced) # <<>> THEN Braced(unfenced) ELSE unfenced

\* What the schema lets through.
Documents == {Success(r) : r \in Recipes} \cup Refusals

\* An object that the schema does not let through is the mark "{}".
Token == {Doc(d) : d \in Documents} \cup {Mark(m) : m \in Marks}
ASSUME TextsAssumption == Texts \subseteq Seq(Token)

\* Validate: the decoder reads the first value and does not look at what follows it.
Validate(text) ==
    IF text # <<>> /\ Head(text).kind = "doc" /\ Head(text).doc \in Documents
    THEN Head(text).doc ELSE None

-----------------------------------------------------------------------------
TextInit ==
    /\ Init
    /\ userText \in UserTexts
    /\ held = None
    /\ prompt = <<>> /\ raw = <<>> /\ candidate = <<>> /\ parsed = <<>> /\ sent = <<>>

\* RefreshEnvironmentParams succeeds, or the cached lists are used: they do not
\* say what the gripper holds.
ReadFresh ==
    /\ ReadScene
    /\ held' \in HeldLists
    /\ UNCHANGED <<userText, prompt, raw, candidate, parsed, sent>>

ReadCached ==
    /\ ReadScene /\ scene' = cache
    /\ UNCHANGED <<userText, held, prompt, raw, candidate, parsed, sent>>

\* callLLMProxy fails.
CallFails ==
    /\ AskFails
    /\ prompt' = buildPrompt
    /\ UNCHANGED <<userText, held, raw, candidate, parsed, sent>>

\* Mutant: Parsed keeps what the model wrote instead of the resolved recipe.
MarshalAnswer(d) == IF answer' = None THEN <<Doc(d)>> ELSE <<Doc(answer')>>

\* The text that stands for a document that was decoded, changed and encoded again.
Marshal(d) == <<Doc(d)>>

AskReturns(text) ==
    LET d == Validate(extractJSON(text)) IN
    /\ pc = "ask"
    /\ prompt' = buildPrompt
    /\ raw' = text /\ candidate' = extractJSON(text)
    /\ \/ /\ d = None /\ AskFails
          /\ UNCHANGED parsed
       \/ /\ d # None /\ d.status = "success" /\ AskGivesRecipe(d.recipe)
          /\ parsed' = Marshal(result')
       \/ /\ d # None /\ d.status = "error" /\ AskGivesRefusal(d)
          /\ parsed' = CASE result' = None -> <<>>
                         [] result' = d    -> candidate'
                         [] OTHER          -> Marshal(result')
    /\ UNCHANGED <<userText, held, sent>>

RetryPrompt == prompt \o Correction(refusal.quoted, TheOne(Quoted(refusal)))

RetryCallFails ==
    /\ RetryFails
    /\ prompt' = RetryPrompt /\ parsed' = candidate
    /\ UNCHANGED <<userText, held, raw, candidate, sent>>

RetryReturns(text) ==
    LET d == Validate(extractJSON(text)) IN
    /\ pc = "retry"
    /\ prompt' = RetryPrompt
    /\ raw' = text
    /\ \/ /\ d = None /\ RetryFails
          /\ parsed' = candidate
       \/ /\ d # None /\ d.status = "success" /\ RetryGivesRecipe(d.recipe)
          /\ parsed' = Marshal(result')
       \/ /\ d # None /\ d.status = "error" /\ RetryGivesRefusal(d)
          /\ parsed' = extractJSON(text)
    /\ UNCHANGED <<userText, held, candidate, sent>>

\* SendToClient: an envelope whose payload is not JSON cannot be encoded, and
\* WriteJSON only returns an error that is logged.
Envelope(type, payload) == IF IsValid(payload) THEN <<[type |-> type, payload |-> payload]>> ELSE <<>>

Message(level) == Envelope("log_event", <<Doc([status |-> level])>>)

\* The rest of HandlePrompt: the robot is given Parsed, and runs it or fails.
Report ==
    /\ Decide
    /\ \/ result = Failure /\ sent' = Message("failure")
       \/ result.status = "error" /\ sent' = Envelope("log_event", parsed)
       \/ /\ result.status = "success"
          /\ sent' \in {Message("failure"), Envelope("action_recipe", parsed) \o Message("info")}
    /\ UNCHANGED <<userText, held, prompt, raw, candidate, parsed>>

TextNext ==
    \/ ReadFresh \/ ReadCached \/ CallFails \/ RetryCallFails \/ Report
    \/ \E text \in Texts : AskReturns(text) \/ RetryReturns(text)
    \/ Over /\ UNCHANGED textVars

TextSpec == TextInit /\ [][TextNext]_allVars

-----------------------------------------------------------------------------
\* The prompt is the template with each placeholder filled in once: what the
\* user typed reaches the model as it is, even if it contains the text of a
\* placeholder, and a second request only adds to the first (buildPrompt,
\* docs/technical/prompt-and-schema.md:9-17).
PromptIsFilled ==
    prompt # <<>> =>
        LET Filled == FlattenSeq([i \in DOMAIN Template |->
                          IF Template[i] \in Placeholders THEN Value(Template[i]) ELSE <<Template[i]>>])
        IN  /\ IsPrefix(Filled, prompt)
            /\ refusal = None \/ pc = "retry" => prompt = Filled

\* Prose, code fences and line breaks around an answer cost nothing: a document
\* that is the only thing with braces in the model's text is the one that the
\* pipeline goes on with, and it never goes on with one that the model did not
\* write (extractJSON and Validate).
DocumentIsFound ==
    raw # <<>> =>
        LET braces == {i \in DOMAIN raw : raw[i].kind \in {"doc", "{}", "{", "}"}}
        IN  /\ \A i \in braces : braces = {i} /\ raw[i].kind = "doc" => answer = raw[i].doc
            /\ result # Failure /\ refusal = None => Contains(raw, Doc(answer))

\* The two forms of a result agree: the text that the robot is given and the
\* terminal UI is shown is the recipe whose names were resolved, not the text
\* that the model wrote (finalizeSuccess, ws_handler.go:70-75).
RecipeTextIsRecipe ==
    executed # None =>
        /\ parsed = <<Doc(Success(executed))>>
        /\ \A e \in ToSet(sent) : e.type = "action_recipe" => e.payload = parsed

\* "A refusal or an error is followed by one log_event message."
\* (docs/technical/interfaces.md:79)
RefusalIsTold ==
    pc = "over" /\ executed = None => \E e \in ToSet(sent) : e.type = "log_event"
=============================================================================
