---------------------------- MODULE MCWorkloads ----------------------------
EXTENDS WorkloadScanning, TLC

CONSTANTS a, b, p1, p2, i1, i2

OnePodEach == p1 :> a @@ p2 :> b

OneRepository == [i \in {i1, i2} |-> "r"]

Config(enabled, selector) ==
    [enabled |-> enabled, selector |-> selector, scanOnChange |-> TRUE, interval |-> FALSE]

AllConfigs == {Config(TRUE, "all"), Config(TRUE, "labelled"), Config(FALSE, "all")}

swapImages == i1 :> i2 @@ i2 :> i1
swapNamespaces == a :> b @@ b :> a @@ p1 :> p2 @@ p2 :> p1

\* The images, and the namespaces together with their pods, are alike.
WorkloadSymmetry == {swapImages, swapNamespaces, swapImages @@ swapNamespaces}
=============================================================================
