SPECIFICATION TextSpec
CONSTANTS
    Names <- MCNames
    Similar <- MCSimilar
    Recipes <- MCRecipes
    Scenes <- MCScenes
    None = None
    Template <- MCTemplate
    UserTexts <- MCUserTexts
    Texts <- MCTexts
    HeldLists <- MCHeldLists
INVARIANTS
    TypeOK
    NoGuessing
    PromptIsFilled
    DocumentIsFound
    RecipeTextIsRecipe
