SPECIFICATION GenSpec
CONSTANTS
    Label = {l}
    Anon = Anon
    MaxFrames = 5
PROPERTIES FinallyRuns
