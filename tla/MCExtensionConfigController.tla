-------------------- MODULE MCExtensionConfigController --------------------
(* Model values and bounds for checking ExtensionConfigController.        *)
EXTENDS ExtensionConfigController, TLC

\* The two CA bundles a Secret can hold, model values.
CONSTANTS CA1, CA2

\* Nothing in the controller tells two CA bundles apart except by equality.
CASymmetry == Permutations({CA1, CA2})

GoodVersion == <<"g", "v1alpha1">>
BadVersion  == <<"g", "v1alpha1", "extra">>

H(v, k) == [apiVersion |-> v, hook |-> k]

NoHandlers == [n \in {} |-> H(GoodVersion, "BeforeScale")]

\* c1's endpoint may serve h1 on either hook, with a malformed apiVersion,
\* or nothing; c2's serves h2 or nothing.  Names are unique per config.
MCServed ==
    "c1" :> {NoHandlers, "h1" :> H(GoodVersion, "BeforeScale"),
                         "h1" :> H(GoodVersion, "AfterProvision"),
                         "h1" :> H(BadVersion, "BeforeScale")}
 @@ "c2" :> {NoHandlers, "h2" :> H(GoodVersion, "BeforeScale")}


\* c1 without the AfterProvision variant: for the runs with the cache lag.
MCServedSmall ==
    [c \in {"c1", "c2"} |->
        {hs \in MCServed[c] : \A n \in DOMAIN hs : hs[n].hook = "BeforeScale"}]

\* The same without the malformed apiVersion.
MCServedValid ==
    [c \in {"c1", "c2"} |->
        {hs \in MCServedSmall[c] : \A n \in DOMAIN hs : hs[n].apiVersion = GoodVersion}]

MCAPIVersions == {GoodVersion, BadVersion}
MCHooks == {"BeforeScale", "AfterProvision"}
=============================================================================
