---------------------------- MODULE MCStarchRender ----------------------------
(***************************************************************************)
(* StarchRender for TLC: the output directory of a driver with one mix     *)
(* across three configurations: C1 has the generic flavor only; C2 adds a  *)
(* neon flavor (a new flavor file, and a changed header, dispatcher and    *)
(* makefile, while the generic flavor file and the benchmark render to the *)
(* same text); C3 is C2 with an edit to the dispatcher template that raises.    *)
(***************************************************************************)
EXTENDS StarchRender

CONSTANTS C1, C2, C3

RenderConfigs == {C1, C2, C3}

Generic == <<"starch.h", "flavor.generic.c", "dispatcher.c", "benchmark.c",
             "makefile.generic">>
WithNeon == <<"starch.h", "flavor.generic.c", "flavor.neon.c", "dispatcher.c",
              "benchmark.c", "makefile.generic">>

RenderOrder == (C1 :> Generic) @@ (C2 :> WithNeon) @@ (C3 :> WithNeon)

\* A one-line file ending in "\n", and the same line from a template
\* checked out with "\r\n" line ends.
Lf(line) == <<line, LF>>
CrLf(line) == <<line, CR, LF>>

\* C2's templates have "\r\n" line ends, C1's "\n": after render's
\* normalisation the generic flavor file and the benchmark are the same.
C2Text == ("starch.h" :> CrLf("h2")) @@ ("flavor.generic.c" :> CrLf("fg")) @@
          ("flavor.neon.c" :> CrLf("fn")) @@ ("dispatcher.c" :> CrLf("d2")) @@
          ("benchmark.c" :> CrLf("b")) @@ ("makefile.generic" :> CrLf("m2"))
RenderText ==
    (C1 :> (("starch.h" :> Lf("h1")) @@ ("flavor.generic.c" :> Lf("fg")) @@
            ("dispatcher.c" :> Lf("d1")) @@ ("benchmark.c" :> Lf("b")) @@
            ("makefile.generic" :> Lf("m1"))))
    @@ (C2 :> C2Text)
    @@ (C3 :> [C2Text EXCEPT !["dispatcher.c"] = CrLf("d3")])

RenderRaises == {<<C3, "dispatcher.c">>}

EmptyFile == <<>>

=============================================================================
