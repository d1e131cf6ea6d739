CONSTANTS
    Names = {"h1", "h2", "h3"}
    ConfigNames = {"c1", "c2"}
    CABundles = {"ca1", "ca2"}
    APIVersions <- MCAPIVersions
    Hooks <- MCHooks
    Inputs <- MCInputs
SPECIFICATION Spec
PROPERTY AddIsAllOrNothing
