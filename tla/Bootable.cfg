CONSTANTS
    Recipes <- MCRecipes
    Tags <- MCTags
    Published <- MCPublished
    Alias <- MCAlias
    Source <- MCSource
    Effect <- MCEffect
    Absolute = {"/w"}
    Globals = "one"
    BuildArgs <- Nothing
    Qemus = {TRUE, FALSE}
SPECIFICATION Spec
INVARIANTS BootInv EmittedMeansRan SilenceKeepsBase ImageTrue
PROPERTY BuildsEnd
CHECK_DEADLOCK FALSE
