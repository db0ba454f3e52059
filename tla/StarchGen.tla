------------------------------ MODULE StarchGen ------------------------------
(***************************************************************************)
(* starch.Generator (src/starch/starch.py): the registries a driver script *)
(* fills with add_feature, add_function, add_flavor and add_mix, the       *)
(* source scanner scan_file, and generate().  The generator is one         *)
(* sequential Python program; the driver's calls are modelled as actions   *)
(* it may issue in any order, each call at most once per declaration      *)
(* (a second call with the same name is the fatal RuntimeError path).      *)
(*                                                                         *)
(* Python objects with identity are ids: Function objects are indices of   *)
(* `fn`, SourceFile objects indices of `sources`.  A raised exception      *)
(* ends the program: phase = "failed".                                     *)
(***************************************************************************)
EXTENDS Naturals, Sequences, SequencesExt, FiniteSets, StarchWisdom

CONSTANTS
    FeatureNames,   \* names passed to add_feature, as sequences of characters
    UpperCase,      \* str.upper() on those characters
    FunctionDecls,  \* add_function arguments: [name, aligned, argsMatch]
    FlavorDecls,    \* add_flavor arguments: [name, features, test]
    MixDecls,       \* add_mix arguments: [name, flavors, wisdom, wisdomFile]
    WisdomFiles,    \* path -> wisdom file (see StarchWisdom)
    SourceFiles,    \* path -> C source file: a sequence of Lines
    MaxScans,       \* bound on the number of scan_file calls
    IncludeArgs,    \* add_include arguments, as sequences of characters
    MaxIncludes,    \* bound on the number of add_include calls
    None            \* Python None

(***************************************************************************)
(* A scanned line: pp is line[0] == '#'; anns are the STARCH_* macro calls *)
(* written on it, in textual order, as records [kind, fn, impl, feature,   *)
(* sep] where kind is "impl" (STARCH_IMPL), "requires"                     *)
(* (STARCH_IMPL_REQUIRES), "benchmark" or "verify"; sep says whether a     *)
(* character outside [a-zA-Z0-9_] that no earlier match consumed precedes  *)
(* the macro name, which every regex of scan_file requires.                *)
(***************************************************************************)

\* Feature.macro: 'STARCH_FEATURE_' + self.name.upper()
Macro(name) == <<"STARCH_FEATURE_">> \o [i \in DOMAIN name |-> UpperCase[name[i]]]

\* The name add_function gives the aligned twin.
AlignedName(name) == name \o "_aligned"

\* Mutant: a wisdom entry is the bare implementation name (spec 4.3's words).
WisdomNameNoFlavor(f, impl, fl) == impl

\* FunctionImpl.wisdom_name(flavor): how a wisdom entry names the
\* implementation impl of function record f built for the flavor named fl.
WisdomName(f, impl, fl) == impl \o "_" \o fl \o (IF f.aligned THEN "_aligned" ELSE "")

VARIABLES
    includes,        \* Generator.includes: the #include operands of starch.h
    features,        \* Generator.features: the registered feature names
    featuresByMacro, \* Generator.features_by_macro: macro -> feature name
    functions,       \* Generator.functions: name -> Function id
    fn,              \* Function objects: [name, aligned, pair, impls, benchmark, verify]
    functionImpls,   \* Generator.function_impls: the set of FunctionImpl records
    flavors,         \* Generator.flavors: name -> [features, test]
    mixes,           \* Generator.mixes: name -> [flavors, wisdom]
    sources,         \* SourceFile objects: [path, impls]
    implFiles,       \* Generator.impl_files: sequence of SourceFile ids
    benchmarkFiles,  \* Generator.benchmark_files: sequence of SourceFile ids
    warnings,        \* number of warnings printed to stderr
    outputs,         \* the output directory: artifact -> rendered content
    phase,           \* "config" while the driver runs; "done" or "failed"
    decls            \* history: the annotations scan_file acted on

vars == <<includes, features, featuresByMacro, functions, fn, functionImpls, flavors,
          mixes, sources, implFiles, benchmarkFiles, warnings, outputs, phase,
          decls>>

NoFunction == 0    \* aligned_pair = None, benchmark = None
NewFunction(name, aligned, pair) ==
    [name |-> name, aligned |-> aligned, pair |-> pair, impls |-> <<>>,
     benchmark |-> NoFunction, verify |-> NoFunction]

Init ==
    /\ includes = <<>>
    /\ features = {}
    /\ featuresByMacro = <<>>
    /\ functions = <<>>
    /\ fn = <<>>
    /\ functionImpls = {}
    /\ flavors = <<>>
    /\ mixes = <<>>
    /\ sources = <<>>
    /\ implFiles = <<>>
    /\ benchmarkFiles = <<>>
    /\ warnings = 0
    /\ outputs = <<>>
    /\ phase = "config"
    /\ decls = <<>>

\* raise RuntimeError / KeyError / ValueError: the driver stops.
Raise ==
    /\ phase' = "failed"
    /\ UNCHANGED <<includes, features, featuresByMacro, functions, fn, functionImpls,
                   flavors, mixes, sources, implFiles, benchmarkFiles,
                   warnings, outputs, decls>>

Registry == <<includes, features, featuresByMacro, functions, fn, flavors, mixes>>
ScanState == <<functionImpls, sources, implFiles, benchmarkFiles, decls>>

-----------------------------------------------------------------------------
(* The registration calls.                                                 *)

\* Generator.add_include: an operand already in <> or "" is kept as it is,
\* any other is put in quotes; what[0] of an empty string raises IndexError.
AddInclude(what) ==
    /\ phase = "config"
    /\ Len(includes) < MaxIncludes
    /\ \/ /\ what = <<>>
          /\ Raise
       \/ /\ what # <<>>
          /\ includes' = Append(includes, IF what[1] \in {"<", "\""} THEN what
                                         ELSE <<"\"">> \o what \o <<"\"">>)
          /\ UNCHANGED <<features, featuresByMacro, functions, fn, flavors, mixes,
                         ScanState, warnings, outputs, phase>>

\* Generator.add_feature
AddFeature(name) ==
    /\ phase = "config"
    /\ \/ /\ name \in features
          /\ Raise
       \/ /\ name \notin features
          /\ features' = features \cup {name}
          /\ featuresByMacro' = (Macro(name) :> name) @@ featuresByMacro
          /\ UNCHANGED <<includes, functions, fn, flavors, mixes, ScanState, warnings,
                         outputs, phase>>

\* Mutant: the base function never gets its aligned_pair back-reference.
TwinsNoBackRef(name, base) ==
    << NewFunction(name, FALSE, NoFunction), NewFunction(AlignedName(name), TRUE, base) >>

\* The two Function objects add_function creates for aligned=True, each the
\* aligned_pair of the other, at ids base and base + 1.
Twins(name, base) ==
    << NewFunction(name, FALSE, base + 1), NewFunction(AlignedName(name), TRUE, base) >>

\* Generator.add_function, with the Function constructor's argnames check.
AddFunction(d) ==
    LET base == Len(fn) + 1
    IN
    /\ phase = "config"
    /\ \/ /\ d.name \in DOMAIN functions \/ ~d.argsMatch
          /\ Raise
       \/ /\ d.name \notin DOMAIN functions
          /\ d.argsMatch
          /\ IF d.aligned
             THEN /\ fn' = fn \o Twins(d.name, base)
                  /\ functions' = (AlignedName(d.name) :> base + 1)
                                  @@ (d.name :> base) @@ functions
             ELSE /\ fn' = Append(fn, NewFunction(d.name, FALSE, NoFunction))
                  /\ functions' = (d.name :> base) @@ functions
          /\ UNCHANGED <<includes, features, featuresByMacro, flavors, mixes, ScanState,
                         warnings, outputs, phase>>

\* Generator.add_flavor: each feature name goes through get_feature, whose
\* KeyError on an unknown name escapes.
AddFlavor(d) ==
    /\ phase = "config"
    /\ \/ /\ d.name \in DOMAIN flavors \/ ~(d.features \subseteq features)
          /\ Raise
       \/ /\ d.name \notin DOMAIN flavors
          /\ d.features \subseteq features
          /\ flavors' = (d.name :> [features |-> d.features, test |-> d.test])
                        @@ flavors
          /\ UNCHANGED <<includes, features, featuresByMacro, functions, fn, mixes,
                         ScanState, warnings, outputs, phase>>

\* Mutant: a mix may name flavors that are not registered.
MixFlavorsUnchecked(d) == TRUE

\* BuildMix's tuple(flavors) over the lazy map(self.get_flavor, flavors):
\* every name must be a registered flavor.
MixFlavorsResolve(d) == Range(d.flavors) \subseteq DOMAIN flavors

\* Generator.add_mix: a wisdom file is loaded with the functions registered
\* now; an in-memory mapping goes through get_function (KeyError on an
\* unknown name); the lazily mapped get_flavor raises when BuildMix builds
\* its tuple, after the wisdom was resolved.
AddMix(d) ==
    LET loaded == LoadWisdom(WisdomFiles[d.wisdomFile], functions)
        flavorsOk == MixFlavorsResolve(d)
    IN
    /\ phase = "config"
    /\ \/ /\ d.name \in DOMAIN mixes
          /\ Raise
       \/ /\ d.name \notin DOMAIN mixes
          /\ d.wisdomFile # None
          /\ warnings' = warnings + loaded.warnings
          /\ \/ /\ ~flavorsOk
                /\ phase' = "failed"
                /\ UNCHANGED mixes
             \/ /\ flavorsOk
                /\ mixes' = (d.name :> [flavors |-> d.flavors,
                                        wisdom |-> loaded.wisdom]) @@ mixes
                /\ UNCHANGED phase
          /\ UNCHANGED <<includes, features, featuresByMacro, functions, fn, flavors,
                         ScanState, outputs>>
       \/ /\ d.name \notin DOMAIN mixes
          /\ d.wisdomFile = None
          /\ \/ /\ ~(DOMAIN d.wisdom \subseteq DOMAIN functions) \/ ~flavorsOk
                /\ Raise
             \/ /\ DOMAIN d.wisdom \subseteq DOMAIN functions
                /\ flavorsOk
                /\ mixes' = (d.name :> [flavors |-> d.flavors,
                     wisdom |-> [id \in {functions[n] : n \in DOMAIN d.wisdom} |->
                                   d.wisdom[CHOOSE n \in DOMAIN d.wisdom :
                                              functions[n] = id]]]) @@ mixes
                /\ UNCHANGED <<includes, features, featuresByMacro, functions, fn, flavors,
                               ScanState, warnings, outputs, phase>>


-----------------------------------------------------------------------------
(* scan_file.  The loop over lines and matches is a fold over the matches  *)
(* in the order the code visits them; the fold's state `st` holds what a   *)
(* scan changes.                                                           *)

\* The matches the four finditer loops yield on one line, in the order the
\* loops run: every STARCH_IMPL, then every STARCH_IMPL_REQUIRES, then every
\* STARCH_BENCHMARK, then every STARCH_BENCHMARK_VERIFY.  Preprocessor lines
\* are skipped.
Matches(line) ==
    LET found(k) == SelectSeq(line.anns, LAMBDA a : a.kind = k /\ a.sep)
    IN  IF line.pp THEN <<>>
        ELSE found("impl") \o found("requires") \o found("benchmark") \o found("verify")

\* The matches of a file with the line number enumerate(f) gives them.
Events(file) ==
    FlattenSeq([i \in DOMAIN file |->
        [j \in DOMAIN Matches(file[i]) |->
            [ann |-> Matches(file[i])[j], lineno |-> i - 1]]])

\* Mutant: the implementation is not mirrored into the aligned twin.
BuildImplsNoMirror(e, src) ==
    LET a    == e.ann
        feat == IF a.kind = "requires" THEN featuresByMacro[a.feature] ELSE None
    IN  IF a.fn \notin DOMAIN functions
           \/ (a.kind = "requires" /\ a.feature \notin DOMAIN featuresByMacro)
        THEN <<>>
        ELSE << [fn |-> functions[a.fn], name |-> a.impl, feature |-> feat,
                 src |-> src, line |-> e.lineno] >>

\* Generator.build_impls: the FunctionImpl for the named function and, for a
\* function with an aligned_pair, the mirrored one; <<>> after a warning.
BuildImpls(e, src) ==
    LET a    == e.ann
        id   == functions[a.fn]
        feat == IF a.kind = "requires" THEN featuresByMacro[a.feature] ELSE None
        impl(f) == [fn |-> f, name |-> a.impl, feature |-> feat,
                    src |-> src, line |-> e.lineno]
    IN  IF a.fn \notin DOMAIN functions
           \/ (a.kind = "requires" /\ a.feature \notin DOMAIN featuresByMacro)
        THEN <<>>
        ELSE IF fn[id].pair # NoFunction THEN << impl(id), impl(fn[id].pair) >>
                                         ELSE << impl(id) >>

\* Mutant: no duplicate check; a later declaration is registered too.
AddImplNoCheck(st, impl) ==
    [st EXCEPT !.functionImpls = @ \cup {impl},
               !.fn[impl.fn].impls = Append(@, impl),
               !.cur = Append(@, impl)]

\* Mutant: impl.source.impls.append(impl) done before the duplicate check.
AddImplSourceFirst(st, impl) ==
    IF \E old \in st.functionImpls : old.fn = impl.fn /\ old.name = impl.name
    THEN [st EXCEPT !.warnings = @ + 1, !.cur = Append(@, impl)]
    ELSE [st EXCEPT !.functionImpls = @ \cup {impl},
                    !.fn[impl.fn].impls = Append(@, impl),
                    !.cur = Append(@, impl)]

\* Generator.add_impl: a FunctionImpl whose (function, name) key is taken is
\* a warning; otherwise it enters function_impls, function.impls and
\* source.impls.
AddImpl(st, impl) ==
    IF \E old \in st.functionImpls : old.fn = impl.fn /\ old.name = impl.name
    THEN [st EXCEPT !.warnings = @ + 1]
    ELSE [st EXCEPT !.functionImpls = @ \cup {impl},
                    !.fn[impl.fn].impls = Append(@, impl),
                    !.cur = Append(@, impl)]

\* The body of the two STARCH_IMPL loops for one match.
ImplMatch(st, e, src) ==
    LET built == BuildImpls(e, src)
        st1 == [st EXCEPT
                  !.warnings = @ + (IF built = <<>> THEN 1 ELSE 0),
                  !.hasImpl = @ \/ built # <<>>,
                  !.decls = Append(@, [src |-> src, ann |-> e.ann, lineno |-> e.lineno,
                                       keys |-> {<<b.fn, b.name>> : b \in Range(built)}])]
    IN  FoldLeft(AddImpl, st1, built)

\* The body of the STARCH_BENCHMARK (field "benchmark") and
\* STARCH_BENCHMARK_VERIFY (field "verify") loops for one match: a second
\* binding warns, and both the function and its aligned_pair are bound.
BindMatch(st, e, src, field) ==
    LET a  == e.ann
        id == functions[a.fn]
        pair == st.fn[id].pair
        logged == [st EXCEPT !.decls = Append(@, [src |-> src, ann |-> a, lineno |-> e.lineno,
                                                keys |-> {}])]
    IN  IF a.fn \in DOMAIN functions
        THEN [logged EXCEPT
                !.warnings = @ + (IF st.fn[id][field] # NoFunction THEN 1 ELSE 0),
                !.fn = IF pair # NoFunction
                       THEN [@ EXCEPT ![id][field] = src, ![pair][field] = src]
                       ELSE [@ EXCEPT ![id][field] = src],
                !.hasBench = TRUE]
        ELSE [logged EXCEPT !.warnings = @ + 1]

ScanMatch(st, e, src) ==
    CASE e.ann.kind \in {"impl", "requires"} -> ImplMatch(st, e, src)
      [] e.ann.kind = "benchmark"            -> BindMatch(st, e, src, "benchmark")
      [] e.ann.kind = "verify"               -> BindMatch(st, e, src, "verify")

\* Generator.scan_file(path): a new SourceFile, all matches of the file, and
\* the SourceFile kept in impl_files / benchmark_files when a match of the
\* kind was found.
ScanFile(path) ==
    LET src == Len(sources) + 1
        st0 == [fn |-> fn, functionImpls |-> functionImpls, cur |-> <<>>,
                hasImpl |-> FALSE, hasBench |-> FALSE, warnings |-> warnings,
                decls |-> decls]
    IN
    /\ phase = "config"
    /\ Len(sources) < MaxScans
    /\ \E st \in {FoldLeft(LAMBDA s, e : ScanMatch(s, e, src), st0,
                           Events(SourceFiles[path]))} :
          /\ fn' = st.fn
          /\ functionImpls' = st.functionImpls
          /\ warnings' = st.warnings
          /\ decls' = st.decls
          /\ sources' = Append(sources, [path |-> path, impls |-> st.cur])
          /\ implFiles' = IF st.hasImpl THEN Append(implFiles, src) ELSE implFiles
          /\ benchmarkFiles' = IF st.hasBench THEN Append(benchmarkFiles, src)
                                              ELSE benchmarkFiles
          /\ UNCHANGED <<includes, features, featuresByMacro, functions, flavors, mixes,
                         outputs, phase>>

-----------------------------------------------------------------------------
(* generate(): the sanity warnings, then one render per artifact.  The    *)
(* template service is abstracted to a deterministic function of the       *)
(* template, the focal entity and the whole entity graph; render() skips   *)
(* the write when the file already holds the same text, so the directory   *)
(* after the call holds exactly the rendered text of every artifact.       *)

Graph == <<Registry, functionImpls, sources, implFiles, benchmarkFiles>>
Render(template, focal) == [template |-> template, focal |-> focal, graph |-> Graph]

Artifacts ==
    {<<"starch.h">>, <<"dispatcher.c">>, <<"benchmark.c">>}
    \cup {<<"flavor", f>> : f \in DOMAIN flavors}
    \cup {<<"makefile", m>> : m \in DOMAIN mixes}

Rendered(a) ==
    CASE a[1] = "flavor"   -> Render("flavor.c.template", a[2])
      [] a[1] = "makefile" -> Render("makefile.template", a[2])
      [] OTHER             -> Render(a[1], None)

Generate ==
    /\ phase = "config"
    /\ warnings' = warnings
                   + (IF functions = <<>> THEN 1 ELSE 0)
                   + (IF flavors = <<>> THEN 1 ELSE 0)
                   + (IF mixes = <<>> THEN 1 ELSE 0)
                   + Cardinality({n \in DOMAIN functions : fn[functions[n]].impls = <<>>})
    /\ outputs' = [a \in DOMAIN outputs \cup Artifacts |->
                      IF a \in Artifacts THEN Rendered(a) ELSE outputs[a]]
    /\ phase' = "done"
    /\ UNCHANGED <<Registry, ScanState>>

\* The program has returned or raised.
Terminated ==
    /\ phase \in {"done", "failed"}
    /\ UNCHANGED vars

Next ==
    \/ \E w \in IncludeArgs : AddInclude(w)
    \/ \E n \in FeatureNames : AddFeature(n)
    \/ \E d \in FunctionDecls : AddFunction(d)
    \/ \E d \in FlavorDecls : AddFlavor(d)
    \/ \E d \in MixDecls : AddMix(d)
    \/ \E p \in DOMAIN SourceFiles : ScanFile(p)
    \/ Generate
    \/ Terminated

Spec == Init /\ [][Next]_vars


-----------------------------------------------------------------------------
(* Properties.                                                             *)

ImplRecord == [fn : Nat, name : STRING, feature : FeatureNames \cup {None},
               src : Nat, line : Nat]

TypeOK ==
    /\ \A i \in DOMAIN includes : includes[i][1] \in {"<", "\""}
    /\ features \subseteq FeatureNames
    /\ Range(featuresByMacro) \subseteq features
    /\ \A n \in DOMAIN functions : functions[n] \in DOMAIN fn
    /\ \A id \in DOMAIN fn : fn[id].pair \in {NoFunction} \cup DOMAIN fn
    /\ functionImpls \subseteq ImplRecord
    /\ \A m \in DOMAIN mixes : Range(mixes[m].flavors) \subseteq DOMAIN flavors
    /\ Range(implFiles) \cup Range(benchmarkFiles) \subseteq DOMAIN sources
    /\ warnings \in Nat
    /\ phase \in {"config", "done", "failed"}

(***************************************************************************)
(* Spec 4.1 and section 8: a function registered with aligned=True is two  *)
(* registered Functions whose aligned_pair back-references point at each   *)
(* other, one aligned and one not.  It is about add_function (its          *)
(* duplicate check and the two registry writes) over every order of        *)
(* registrations.                                                          *)
(***************************************************************************)
AlignedPairsConsistent ==
    \A n \in DOMAIN functions :
        LET id == functions[n]
            p  == fn[id].pair
        IN  p # NoFunction =>
                /\ fn[p].name \in DOMAIN functions
                /\ functions[fn[p].name] = p
                /\ fn[p].pair = id
                /\ fn[p].aligned # fn[id].aligned

(***************************************************************************)
(* Spec 4.2: an implementation discovered for one of two aligned twins is  *)
(* mirrored into the other: both hold the same implementations, from the   *)
(* same file and line, with the same required feature, in the same         *)
(* discovery order (the order dispatch falls back to).  It is about        *)
(* build_impls and add_impl's duplicate rejection across several scans.    *)
(***************************************************************************)
TwinImplsMirror ==
    \A id \in DOMAIN fn :
        LET p == fn[id].pair
        IN  p # NoFunction =>
                /\ Len(fn[p].impls) = Len(fn[id].impls)
                /\ \A i \in DOMAIN fn[id].impls :
                      LET a == fn[id].impls[i]
                          b == fn[p].impls[i]
                      IN  <<a.name, a.src, a.line, a.feature>>
                            = <<b.name, b.src, b.line, b.feature>>

(***************************************************************************)
(* Spec 4.2 and section 8: of two declarations of the same (function,      *)
(* implementation), in one file or two, the first one scanned is kept and  *)
(* the later one is discarded.  It is about add_impl's duplicate check     *)
(* over every order of scan_file calls.                                    *)
(***************************************************************************)
FirstDefinitionWins ==
    \A r \in functionImpls :
        LET first == CHOOSE i \in DOMAIN decls :
                        /\ <<r.fn, r.name>> \in decls[i].keys
                        /\ \A j \in 1..(i - 1) : <<r.fn, r.name>> \notin decls[j].keys
        IN  decls[first].src = r.src /\ decls[first].lineno = r.line

(***************************************************************************)
(* The three views of the discovered implementations agree: the            *)
(* function_impls index, the per-function lists function.impls (which      *)
(* hold no two implementations of one name) and the per-file lists         *)
(* source.impls.  It is about the order of the check and the three writes  *)
(* in add_impl.                                                            *)
(***************************************************************************)
ImplIndexConsistent ==
    /\ functionImpls = UNION {Range(fn[id].impls) : id \in DOMAIN fn}
    /\ functionImpls = UNION {Range(sources[k].impls) : k \in DOMAIN sources}
    /\ \A id \in DOMAIN fn : \A i, j \in DOMAIN fn[id].impls :
           fn[id].impls[i].name = fn[id].impls[j].name => i = j
    /\ \A r \in functionImpls : r \in Range(fn[r.fn].impls)

(***************************************************************************)
(* Spec 4.2: a second STARCH_BENCHMARK or STARCH_BENCHMARK_VERIFY for a    *)
(* function "warns and is ignored, leaving the first binding intact": a    *)
(* binding, once made, is never moved to another file (scanning the same  *)
(* path again may rebind it to the new SourceFile of that path).  About    *)
(* scan_file's benchmark loops.                                            *)
(***************************************************************************)
BindingKept ==
    [][\A id \in DOMAIN fn : \A field \in {"benchmark", "verify"} :
          fn[id][field] # NoFunction =>
              sources'[fn'[id][field]].path = sources[fn[id][field]].path]_vars

(***************************************************************************)
(* Every registered feature is the one its macro resolves to, so an        *)
(* implementation declared with STARCH_IMPL_REQUIRES(..., <macro>) is      *)
(* gated by the feature the flavors list under that name.  About          *)
(* add_feature's duplicate check and its write of features_by_macro.       *)
(***************************************************************************)
FeatureMacroResolves ==
    \A n \in features : featuresByMacro[Macro(n)] = n

=============================================================================
