CONSTANTS
    Handlers = {h1, h2}
    Garbage = Garbage
    NoOne = NoOne
    Limits <- MCLimits
    Posts <- MCPosts
    Envs <- MCEnvs
SPECIFICATION Spec
INVARIANTS
    RunIsJudged
    EnvDecides
PROPERTIES
    SavesLoad
SYMMETRY MCSymmetry
