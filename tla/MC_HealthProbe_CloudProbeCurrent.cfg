CONSTANTS
    Nil = Nil
    Malformed = Malformed
    DefaultRequestPort = 80
    DefaultRequestPath = "/"
    DefaultNumOfProbe = 2
    DefaultProbeInterval = 5
    PathFold <- MCPathFold
    PathEdits = {"/Healthz"}
    Manifests <- MCManifests

SPECIFICATION EditSpec

INVARIANT
    CloudProbeCurrent
