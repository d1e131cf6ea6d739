------------------------- MODULE MCRegistryCallers -------------------------
(* Model values and inputs for checking RegistryCallers with TLC.          *)
EXTENDS RegistryCallers, TLC

\* apiVersion strings "runtime.cluster.x-k8s.io/v1alpha1" and the malformed
\* "runtime.cluster.x-k8s.io/v1alpha1/extra", as segment sequences
GoodVersion == <<"g", "v1alpha1">>
BadVersion  == <<"g", "v1alpha1", "extra">>
MCAPIVersions == {GoodVersion, BadVersion}

MCHooks == {"BeforeScale", "AfterProvision"}

H(v, k) == [apiVersion |-> v, hook |-> k]

\* Config c1 declares h1 and h2, config c2 declares h3: names are unique.
MCInputs ==
    { [name |-> "c1", ca |-> "ca1", handlers |-> [n \in {} |-> H(GoodVersion, "BeforeScale")]],
      [name |-> "c1", ca |-> "ca1", handlers |-> ("h1" :> H(GoodVersion, "BeforeScale"))],
      [name |-> "c1", ca |-> "ca2", handlers |-> ("h1" :> H(GoodVersion, "AfterProvision")
                                                  @@ "h2" :> H(GoodVersion, "BeforeScale"))],
      [name |-> "c1", ca |-> "ca1", handlers |-> ("h1" :> H(GoodVersion, "BeforeScale")
                                                  @@ "h2" :> H(BadVersion, "BeforeScale"))],
      [name |-> "c2", ca |-> "ca1", handlers |-> ("h3" :> H(GoodVersion, "BeforeScale"))],
      [name |-> "c2", ca |-> "ca1", handlers |-> ("h3" :> H(BadVersion, "AfterProvision"))] }
=============================================================================
