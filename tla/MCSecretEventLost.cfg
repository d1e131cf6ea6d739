CONSTANTS
    Names = {"h1", "h2"}
    ConfigNames = {"c1", "c2"}
    CA1 = CA1
    CA2 = CA2
    CABundles = {"", CA1, CA2}
    NoCA = ""
    Secrets = {"s1"}
    SecretValues = {CA1, CA2, "nokey"}
    NoKey = "nokey"
    MaxEnvSteps = 2
    APIVersions <- MCAPIVersions
    Hooks <- MCHooks
    Served <- MCServedSmall
SPECIFICATION SpecListFails
SYMMETRY CASymmetry
CHECK_DEADLOCK FALSE
INVARIANT StaleImpliesPending
