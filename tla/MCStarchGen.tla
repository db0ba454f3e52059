---------------------------- MODULE MCStarchGen ----------------------------
(***************************************************************************)
(* Instantiates StarchGen for TLC.  The driver configuration follows       *)
(* src/dsp/starchgen.py and src/starch/example/starchgen.py cut down to    *)
(* one aligned and one plain function, one feature (neon), a generic       *)
(* flavor and a neon flavor with a runtime test, a mix loaded from a       *)
(* wisdom file and a mix with in-memory wisdom, and two C files whose      *)
(* annotations include a duplicate across files (through the aligned       *)
(* twin), an unknown function, an unknown feature and a benchmark.         *)
(* The Bad* definitions are inputs a driver or a C file can also give:     *)
(* each violation run swaps one of them in.                                *)
(***************************************************************************)
EXTENDS StarchGen

Neon == <<"n", "e", "o", "n">>
NEON == <<"N", "E", "O", "N">>
Upper == ("n" :> "N") @@ ("e" :> "E") @@ ("o" :> "O")
         @@ ("N" :> "N") @@ ("E" :> "E") @@ ("O" :> "O")

\* add_include operands: '<stdint.h>' (src/starch/example/starchgen.py),
\* cpu.h written without its quotes, and an empty string.
DriverIncludes == { <<"<", "s", ">">>, <<"c">>, <<>> }
NoIncludes == {}

GoodFeatures == {Neon}
\* A second feature whose name differs from neon only in case.
BadFeatures == {Neon, NEON}

GoodFunctions ==
    { [name |-> "f", aligned |-> TRUE,  argsMatch |-> TRUE],
      [name |-> "g", aligned |-> FALSE, argsMatch |-> TRUE],
      [name |-> "g", aligned |-> FALSE, argsMatch |-> FALSE] }
\* "f_aligned" registered as a function of its own, itself aligned.
BadFunctions ==
    { [name |-> "f", aligned |-> TRUE, argsMatch |-> TRUE],
      [name |-> "f_aligned", aligned |-> TRUE, argsMatch |-> TRUE] }

Flavors ==
    { [name |-> "generic", features |-> {}, test |-> None],
      [name |-> "neon", features |-> {Neon}, test |-> "cpu_supports_neon"] }

Mixes ==
    { [name |-> "arm", flavors |-> <<"neon", "generic">>, wisdom |-> <<>>,
       wisdomFile |-> "wisdom.arm"],
      [name |-> "generic", flavors |-> <<"generic">>,
       wisdom |-> ("f" :> <<"generic">>), wisdomFile |-> None] }

Wisdom ==
    "wisdom.arm" :> << [comment |-> FALSE, tokens |-> <<"f", "neon_x">>],
                       [comment |-> FALSE, tokens |-> <<"h", "x">>] >>

Impl(f, i)       == [kind |-> "impl", fn |-> f, impl |-> i, feature |-> None, sep |-> TRUE]
Req(f, i, feat)  == [kind |-> "requires", fn |-> f, impl |-> i,
                     feature |-> <<"STARCH_FEATURE_">> \o feat, sep |-> TRUE]
Bench(f)         == [kind |-> "benchmark", fn |-> f, impl |-> None, feature |-> None, sep |-> TRUE]
Line(pp, anns)   == [pp |-> pp, anns |-> anns]

GoodSources ==
    ("impl/a.c" :> << Line(TRUE,  << Impl("f", "old") >>),
                      Line(FALSE, << Req("f", "neon_x", NEON), Impl("f", "generic") >>),
                      Line(FALSE, << Impl("h", "y") >>) >>)
    @@
    ("impl/b.c" :> << Line(FALSE, << Impl("f_aligned", "generic"),
                                     Req("g", "sse", <<"S", "S", "E">>) >>),
                      Line(FALSE, << Bench("f"), Impl("g", "generic") >>) >>)

\* A second benchmark for f in another file, and a declaration written at
\* the start of its line (GNU style: the return type on the line above).
BadSources ==
    ("impl/a.c" :> << Line(FALSE, << Impl("f", "generic") >>),
                      Line(FALSE, << [Impl("g", "unrolled") EXCEPT !.sep = FALSE] >>) >>)
    @@
    ("bench/f.c" :> << Line(FALSE, << Bench("f") >>) >>)
    @@
    ("bench/g.c" :> << Line(FALSE, << Bench("f_aligned") >>) >>)

=============================================================================
