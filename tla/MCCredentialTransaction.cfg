CONSTANTS
    ai = ai
    translation = translation
    deepseek = deepseek
    openai = openai
    deeplx = deeplx
    Features <- MCFeatures
    Optional <- MCOptional
    Providers <- MCProviders
    Tokens = {t1, t2}
    None = None
SPECIFICATION Spec
SYMMETRY Symmetry
CHECK_DEADLOCK FALSE
INVARIANTS TypeOK RefusedChangesNothing SavedHasCredential SwitchMovesNothing
