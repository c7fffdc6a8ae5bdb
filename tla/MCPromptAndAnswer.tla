--------------------------- MODULE MCPromptAndAnswer ---------------------------
(* Two cubes that "cube" could mean, one typo of a movement that is also   *)
(* the name of an orientation, scenes with and without the red cube.       *)
(* Bare answers: recipes of up to two steps, with up to two names each.    *)
(* Wrapped answers: two documents with any token before and after them.    *)
EXTENDS PromptAndAnswer

MCNames == {"blue_cube", "red_cube", "cube", "up", "upp"}

MCSimilar == {<<"cube", "blue_cube">>, <<"cube", "red_cube">>, <<"upp", "up">>}

Scene(objects, movements, orientations) ==
    [object |-> objects, movement |-> movements, orientation |-> orientations]

MCScenes == {Scene({"blue_cube", "red_cube"}, {"up"}, {}),
             Scene({"blue_cube"}, {}, {"up"})}

OneName == {s \in Steps : Cardinality(DOMAIN s) <= 1 /\ \A f \in DOMAIN s : s[f] # "red_cube"}
TwoNames == UNION {[S -> {"blue_cube", "cube", "upp"}] :
                       S \in {{"target", "destination"}, {"target", "vector"}, {"vector", "orientation"}}}

MCRecipes ==
    {<<s>> : s \in OneName \cup TwoNames} \cup
    {<<[target |-> "blue_cube"], s>> : s \in OneName}

\* Each placeholder, and one of them twice.
MCTemplate == <<"rules", "{schema_template}", "{available_objects}", "{available_movements}",
                "{available_orientations}", "{table_bounds}", "{held_objects}",
                "{user_command}", "{available_objects}">>

MCUserTexts == {<<"pick">>, <<"{available_objects}", "{user_command}">>}

MCHeldLists == {{}, {"blue_cube"}}

\* Two documents with anything before, between or after them, and a fenced one.
TwoDocs == {Doc(Success(<<[target |-> "cube"]>>)),
            Doc([status |-> "error", type |-> "missing_object", quoted |-> "cube"])}
Tokens  == TwoDocs \cup {Mark(m) : m \in Marks}
AtMostOne == {<<>>} \cup {<<t>> : t \in Tokens}
Wrapped ==
    {before \o <<d>> \o after : before, after \in AtMostOne, d \in TwoDocs}
        \cup {<<Mark("space"), Mark(f), d, Mark("space"), Mark("fence")>> :
                  f \in {"fence_json", "fence"}, d \in TwoDocs}

MCTexts == {<<Doc(Success(r))>> : r \in MCRecipes} \cup {<<Doc(d)>> : d \in Refusals} \cup Wrapped
=============================================================================
