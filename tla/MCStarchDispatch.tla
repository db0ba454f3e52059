--------------------------- MODULE MCStarchDispatch ---------------------------
(***************************************************************************)
(* StarchDispatch for TLC, in two configurations:                          *)
(*  - Arm*: the arm mix of src/starch/example/starchgen.py (two NEON       *)
(*    flavors with runtime tests, then generic) and two functions: one     *)
(*    (subtract_n) with an unrolled, a plain and a NEON-gated              *)
(*    implementation and the driver's wisdom for it, read as               *)
(*    FunctionImpl.wisdom_name strings; one whose only implementation     *)
(*    needs NEON;                                                          *)
(*  - Example*: the dispatch example of spec 8 (avx2 with a test, then     *)
(*    generic; avx_f and generic_f, neither requiring a feature; wisdom    *)
(*    [avx_f, generic_f], read as implementation names as spec 4.3 says).  *)
(***************************************************************************)
EXTENDS StarchDispatch

CONSTANTS t1, t2, t3

ArmFlavors == <<"armv7a_vfpv4", "armv7a_vfpv3", "generic">>
ArmTest == ("armv7a_vfpv4" :> "supports_neon_vfpv4")
           @@ ("armv7a_vfpv3" :> "supports_neon_vfpv3") @@ ("generic" :> None)
ArmFeatures == ("armv7a_vfpv4" :> {"neon"}) @@ ("armv7a_vfpv3" :> {"neon"})
               @@ ("generic" :> {})
\* subtract_n's implementations in the order the scan found them; the
\* unrolled one comes first, so only the wisdom puts generic ahead of it.
ArmImpls == << [name |-> "unroll_4", feature |-> None],
               [name |-> "generic", feature |-> None],
               [name |-> "neon_intrinsics", feature |-> "neon"] >>
\* The arm mix's wisdom for subtract_n, as the example driver writes it.
ArmWisdom == <<"neon_intrinsics_armv7a_vfpv4", "neon_intrinsics_armv7a_vfpv3",
               "generic_generic">>
\* A function whose only implementation needs NEON (its generic file not
\* written yet: scan_file and generate accept this with no warning).  It is
\* an aligned twin: the driver's wisdom, keyed by 'subtract_n', gives it none.
NeonOnlyImpls == << [name |-> "neon_intrinsics", feature |-> "neon"] >>
ArmFunctions == { [impls |-> ArmImpls, wisdom |-> ArmWisdom, aligned |-> FALSE],
                  [impls |-> NeonOnlyImpls, wisdom |-> <<>>, aligned |-> TRUE] }
ArmTests == {"supports_neon_vfpv4", "supports_neon_vfpv3"}
ArmThreads == {t1, t2, t3}

ExampleFlavors == <<"avx2", "generic">>
ExampleTest == ("avx2" :> "cpu_has_avx2") @@ ("generic" :> None)
ExampleFeatures == ("avx2" :> {}) @@ ("generic" :> {})
ExampleImpls == << [name |-> "generic_f", feature |-> None],
                   [name |-> "avx_f", feature |-> None] >>
ExampleWisdom == <<"avx_f", "generic_f">>
ExampleFunctions == { [impls |-> ExampleImpls, wisdom |-> ExampleWisdom, aligned |-> FALSE] }
ExampleTests == {"cpu_has_avx2"}
ExampleThreads == {t1, t2}

(***************************************************************************)
(* Spec 8: "On a CPU reporting AVX2 support, resolution must select avx_f; *)
(* on a CPU without it, resolution must select generic_f".  Checked on     *)
(* every call the dispatcher returns in the Example configuration.         *)
(***************************************************************************)
ExampleSelection ==
    \A t \in Threads : result[t] # Unset =>
        result[t] = IF "cpu_has_avx2" \in cpu THEN <<"avx2", "avx_f">>
                                              ELSE <<"generic", "generic_f">>

=============================================================================
