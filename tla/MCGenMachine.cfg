SPECIFICATION GenSpec
CONSTANTS
    Label = {l}
    Anon = Anon
    MaxFrames = 5
INVARIANTS ScopesMatch AwaitAnswered
PROPERTIES CompletionLands FinallyOnce
