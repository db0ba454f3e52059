---------------------------- MODULE MCStarchDriver ----------------------------
(***************************************************************************)
(* StarchDriver for TLC: both driver scripts, on C files of the shape the  *)
(* repository's dsp/impl, dsp/benchmark, impl and benchmark directories    *)
(* hold (those trees are not under src/, so the files here are small      *)
(* stand-ins: a preprocessor line, plain and NEON-gated implementations,  *)
(* benchmarks), with the implementations the example's wisdom names.  The *)
(* dsp mixes' wisdom files have one entry each, in wisdom_name form.      *)
(***************************************************************************)
EXTENDS StarchDriver

NEON == <<"N", "E", "O", "N">>
Upper == ("n" :> "N") @@ ("e" :> "E") @@ ("o" :> "O")

Impl(f, i)      == [kind |-> "impl", fn |-> f, impl |-> i, feature |-> None, sep |-> TRUE]
Req(f, i)       == [kind |-> "requires", fn |-> f, impl |-> i,
                    feature |-> <<"STARCH_FEATURE_">> \o NEON, sep |-> TRUE]
Bench(f)        == [kind |-> "benchmark", fn |-> f, impl |-> None, feature |-> None, sep |-> TRUE]
Line(pp, anns)  == [pp |-> pp, anns |-> anns]
Include         == Line(TRUE, <<>>)

DriverSources ==
    ("dsp/impl/magnitude_uc8.c" :> << Include,
                                      Line(FALSE, << Impl("magnitude_uc8", "lookup") >>),
                                      Line(FALSE, << Req("magnitude_uc8", "neon_vrsqrte") >>) >>)
    @@ ("dsp/impl/count_above_u16.c" :> << Include,
                                          Line(FALSE, << Impl("count_above_u16", "generic") >>) >>)
    @@ ("dsp/impl/mean_power_u16.c" :> << Include,
                                         Line(FALSE, << Impl("mean_power_u16", "generic") >>) >>)
    @@ ("dsp/benchmark/magnitude_uc8_benchmark.c" :> << Include,
                                          Line(FALSE, << Bench("magnitude_uc8") >>) >>)
    @@ ("impl/subtract_n_generic.c" :> << Include,
                                         Line(FALSE, << Impl("subtract_n", "generic") >>) >>)
    @@ ("impl/subtract_n_unroll_4.c" :> << Include,
                                          Line(FALSE, << Impl("subtract_n", "unroll_4") >>) >>)
    @@ ("impl/subtract_n_neon.c" :> << Include,
                                      Line(FALSE, << Req("subtract_n", "neon_intrinsics") >>) >>)
    @@ ("benchmark/subtract_n_benchmark.c" :> << Include,
                                                Line(FALSE, << Bench("subtract_n") >>) >>)

Entry(f, i) == [comment |-> FALSE, tokens |-> <<f, i>>]
DriverWisdom ==
    ("wisdom.generic" :> << Entry("magnitude_uc8", "lookup_generic") >>)
    @@ ("wisdom.arm" :> << Entry("magnitude_uc8", "neon_vrsqrte_armv7a_neon_vfpv4") >>)
    @@ ("wisdom.aarch64" :> << Entry("magnitude_uc8", "neon_vrsqrte_armv8_neon_simd") >>)
    @@ ("wisdom.x86" :> << Entry("magnitude_uc8", "lookup_x86_avx2") >>)

\* The glob loops: ['dsp/impl/*.c', 'dsp/benchmark/*.c'] and
\* ['impl/*.c', 'benchmark/*.c'], each pattern as the set of files it matches.
DspGlobs == << {"dsp/impl/magnitude_uc8.c", "dsp/impl/count_above_u16.c",
                "dsp/impl/mean_power_u16.c"},
               {"dsp/benchmark/magnitude_uc8_benchmark.c"} >>
ExampleGlobs == << {"impl/subtract_n_generic.c", "impl/subtract_n_unroll_4.c",
                    "impl/subtract_n_neon.c"},
                   {"benchmark/subtract_n_benchmark.c"} >>

NoIncludes == {}

Scripts == { [calls |-> DspScript, globs |-> DspGlobs],
             [calls |-> ExampleScript, globs |-> ExampleGlobs] }

=============================================================================
