# TLA+ models of starch (src/starch/starch.py) and its companions

The repository ships `starch`, a build-time generator. It reads a driver
script's declarations and annotated C files, and emits C code that picks, at
run time, the fastest implementation of each function that the CPU supports.
This directory holds TLA+ models of the generator. Each run checks a property
of it with TLC. `PROJECT.json` lists the components, runs, mutants, source map,
findings and hazards.

## 1. Inventory

### Components and their state

| Component | Code | State | Operations |
|---|---|---|---|
| Registry | `Feature`, `BuildFlavor`, `Function`, `BuildMix`, `Generator.add_*` (starch.py 15-449) | `features`, `features_by_macro`, `functions` (name -> Function; aligned twins point at each other through `aligned_pair`), `flavors`, `mixes` (ordered flavors + wisdom per Function), `includes` | `add_feature`, `add_function` (creates a twin `<name>_aligned` when `aligned=True`), `add_flavor`, `add_mix`, `add_include`, `get_*` lookups |
| Wisdom loader | `load_wisdom` (408-433) | none of its own; reads a file and `functions` | turns `func impl ...` lines into Function -> [impl names]; missing file / unknown name are warnings |
| Source scanner | `scan_file`, `build_impls`, `add_impl` (454-570) | `function_impls` keyed (Function, name), `Function.impls`, `SourceFile.impls`, `Function.benchmark` / `benchmark_verify`, `impl_files`, `benchmark_files` | one call per C file: four regexes per non-`#` line; unknown function/feature: warning; duplicate: warning, first kept; aligned twin mirrored |
| Generation | `generate`, `render` (572-607) | the output directory | sanity warnings, then one render per artifact (header, one per flavor, dispatcher, benchmark, one makefile per mix); a write is skipped when the file already holds the text |
| Dispatch protocol | generated `dispatcher.c` (templates, not under src/) | per function and process: unresolved / resolved(flavor, impl) / resolved(none) | first call: flavors in mix order, runtime test, candidates in wisdom or discovery order, feature gate, first fit; later calls reuse the result; threads may race on the first call (spec 4.5, 5) |
| Drivers | `src/dsp/starchgen.py`, `src/starch/example/starchgen.py` | none | a fixed sequence of registrations, then `scan_file` over globbed files, then `generate` |
| DF tables | `src/tools/df-correction-arrays.py` | none | prints two bitset tables: which 5-bit DF values are within 0/1/2 bit errors of a valid short/long Mode S format |

### Interactions

The generator is one sequential Python process. The driver calls the registry.
`add_mix` calls the wisdom loader against the functions registered so far.
`scan_file` reads the registries by name (`functions`, `features_by_macro`) and
writes the implementation indexes. `generate` hands the whole graph to the
template service. The dispatch protocol runs later, inside the generated
library, on the data the generator emitted. That is where concurrency enters:
several threads may make the first call at once. The DF table script shares
nothing with the rest.

### What is hard

* **Call order.** Nothing fixes the order of the registrations and scans.
  Wisdom is resolved against the functions registered at `add_mix` time. Which
  duplicate is kept depends on the order of the scans. The name checks in
  `add_function` and `add_feature` look at only one of the two names they write.
* **Twins.** Every implementation and benchmark binding must reach both aligned
  twins. This must hold across files, duplicates and rescans.
* **Silent loss.** The regexes, the preprocessor skip and the duplicate paths
  decide whether a declaration is registered, warned about, or dropped.
* **Runtime dispatch.** Threads race to resolve on first call. The result must
  be one deterministic first-fit choice, and it must never be "none" for a
  valid configuration.
* **Output directory.** It persists across runs. Renders happen one after
  another, and each write first truncates the file.

### Properties that make each component correct

* Registry: a name is registered once. Twins point at each other. Every
  feature is reachable through its macro.
* Scanner: the first declaration wins. Twins hold the same implementations in
  the same order. The three indexes agree. A benchmark binding, once made, is
  kept.
* Wisdom: the loaded ranking is exactly the file's entries for known
  functions, in order. Each unknown name is one warning.
* Generation: after a completed run, every artifact holds its rendered text. A
  second run with no changes writes nothing.
* Dispatch: all threads obtain the same choice, namely the first fit. The
  choice never changes once made. Every caller eventually returns. A valid
  configuration never resolves to none.
* DF tables: bit d of table[e] is set exactly when d is within e bit errors of
  a valid format. The short and long tables are disjoint at every level.

## 2. Plan

Modules, in order of importance:

1. `StarchGen` (done). Registry, scanner and generate as one sequential
   state machine. The driver's calls are actions that may come in any order.
   It calls `StarchWisdom`.
2. `StarchWisdom` + `MCStarchWisdom` (done). The loader as a fold, checked
   against a declarative reference.
3. `StarchDispatch` + `StarchResolve` (done). The runtime protocol of spec
   4.5, modelled from the spec because its code is in templates outside
   src/. Threads race on the first call. `StarchResolve` resolves in one
   atomic step to a declaratively stated best choice, and `StarchDispatch`
   refines it (`INSTANCE`, with the abstract spec as a PROPERTY), and
   no call resolves to none in a valid configuration. Still open: a `StarchGen` invariant for "every function has an implementation
   reachable under every mix", which the generator does not check.
4. `StarchRender` (done). Repeated `generate` runs over a persistent output
   directory, with a raising template, a kill at any step, a truncating
   write, and the newline conversions of the compare. It checks convergence and "an unchanged second run writes
   nothing". It also finds that spec 5's all-or-nothing writes do not hold.
5. `DFCorrectionArrays` (done). The bitset loops of the DF script, with a
   RECURSIVE popcount, checked against the Hamming-ball meaning.
6. `StarchDriver` (done). Both driver scripts as programs over `StarchGen`,
   with the glob loop in any order. It hosts the `driver_scripts` run.

Each module has an MC module and a cfg. Runs are capped at twelve; eleven
are in use. Remaining work:

* the drivers as a call sequence over `StarchGen` (done: `StarchDriver`);
* a `StarchGen` invariant "every function has an implementation reachable
  under every mix". The generator does not check this, so it would be a
  violation run.

## 3. What is modelled now

### StarchGen (src/starch/starch.py)

Variables and the code they stand for:

* `includes` is `Generator.includes`, the operands of starch.h's `#include`
  lines, as character sequences.
* `features` and `featuresByMacro` are the two feature dicts. Names are
  character sequences, so `Macro` really upper-cases them through `UpperCase`.
* `functions` maps a name to a Function id. `fn` holds the Function objects
  (`aligned`, `aligned_pair`, `impls`, `benchmark`, `benchmark_verify`). Ids
  model Python object identity, which is what `function_impls` keys and
  `aligned_pair` hold.
* `functionImpls` is `function_impls`. `sources` holds the SourceFile objects,
  one per `scan_file` call. `implFiles` and `benchmarkFiles` are the two lists.
* `flavors` and `mixes` are the flavor and mix registries. A mix's `wisdom` is
  keyed by Function id.
* `warnings` counts stderr warnings. `outputs` is the output directory.
  `phase` is "config", or "done"/"failed" (generate returned, or an exception
  escaped).
* `decls` is a history variable: every annotation the scanner acted on, with
  the line number the code records (`lineno`, counted from 0 by `enumerate`).

There is one action per call. Each has the code's guards and its fatal paths
(`Raise`):

* `AddInclude` keeps an operand that starts with `<` or `"` and quotes any
  other. `what[0]` of an empty operand raises `IndexError`. The calls are
  bounded by `MaxIncludes`.
* `AddFeature`, `AddFunction` (with `Twins` and the argnames `ValueError`),
  `AddFlavor` (`KeyError` of `get_feature`).
* `AddMix`: a wisdom file is loaded first, and its warnings are printed even
  when the lazy flavor lookup then raises. In-memory wisdom goes through
  `get_function`.
* `ScanFile` runs the whole of `scan_file` as one step. It folds `ScanMatch`
  over the matches in the order the code visits them (`Matches`, `Events`):
  per line, all `STARCH_IMPL`, then all `STARCH_IMPL_REQUIRES`, then
  benchmarks, then verifiers. `BuildImpls`, `AddImpl` and `BindMatch` are
  `build_impls`, `add_impl` and the two binding loops.
* `Generate`: the four warnings and a render of every artifact. Rendering is
  a deterministic function of the template, the focal entity and the graph.
  A write of identical text and a skipped write leave the same directory.

A C line is `[pp, anns]`: `pp` is "starts with `#`", and `anns` lists the macro
calls in textual order. An annotation carries `sep`, which says whether an
unconsumed non-identifier character precedes the macro name. Every regex needs
one, so `sep = FALSE` models a call at column 0.

### StarchWisdom (load_wisdom)

A wisdom line is what `strip()` and `re.split('\s+')` leave: a comment flag
and its tokens. `LoadWisdom` folds `WisdomLine` over the file. `MissingFile`
stands for the `IOError` path.

### StarchResolve and StarchDispatch (the generated dispatcher)

Both modules describe one function in one mix binary. Their constants are
the generator's data:

* `MixFlavors` is `BuildMix.flavors`.
* `FlavorTest` and `FlavorFeatures` are the flavors' `test_function` and
  `features`.
* `Functions` holds the mix's functions. Each has `impls`
  (`Function.impls` in discovery order, each with its required feature)
  and `wisdom` (`BuildMix.function_wisdom`).

`cpu` is the set of runtime tests that pass on the machine. `fun` is the
function called. Both are chosen at Init and then fixed.

`StarchResolve` is the promise. Its `resolution` is spec 4.5's state:
`Unresolved`, or the resolved pair, or `NoImpl`. A call either finds it
resolved, or sets it to `Best(fun, cpu)`, and returns it. `Best` is the lexicographically
least usable pair, ordered first by flavor position, then by trial rank.

`StarchDispatch` is the protocol as the generated code runs it. Each thread
has a `pc`:

* `Call` returns a resolved cache at once, without running a test.
  Otherwise the thread starts searching.
* `TryFlavor` handles one flavor: its test (`test_function_expr`: NULL
  means supported), then the first candidate in `TrialOrder` that is built
  for the flavor.
* `GiveUp` is the end of the flavor list: resolved(none).
* `Store` is one plain store of the thread's own result, followed by the
  return.

The refinement mapping is `INSTANCE StarchResolve WITH resolution <- cache`.
The cache word is the abstract resolution. Calls that start a search, and
the steps of a search, are stuttering steps of the abstract spec. A store
or a cache hit is the abstract `Call`.

`TrialOrder` builds the order procedurally, by walking the wisdom. `Rank`
states it declaratively. The refinement therefore also checks that these
two agree.

A wisdom entry is compared with `FunctionImpl.wisdom_name(flavor)`
(starch.py 215-219: `impl_flavor`, plus `_aligned` for the aligned twin),
so it ranks an implementation within one flavor. That is how the code names
an (implementation, flavor) pair and how the example driver writes its
wisdom; the templates that consume it are not in the repository. `Rank`,
`Precedes` and `TrialOrder` therefore take the flavor. The constant
`PairWisdom` selects this reading (TRUE); FALSE is spec 4.3's reading of
an entry as a bare implementation name, used only by the
`spec_dispatch_example` run, which checks the spec's own example in the
spec's own terms.

**Fairness.** Weak fairness per thread, in both modules. A thread takes no
lock and waits on nothing, so a runnable thread is eventually scheduled.
Under this fairness, the refinement includes "every call returns".

### StarchRender (generate and render across runs)

`disk` is the output directory: path -> contents, for the files that
exist. `Empty` is a file just opened with `'w'`. `run` is the generator
process in progress: its configuration, the index `k` into that
configuration's `Order` (generate's order: header, flavor files,
dispatcher, benchmark, makefiles), and whether it is about to render or to
write. `wrote` is what that run has written. `outcome` is how the last run
ended: completed, raised or crashed.

* `Start(c)` is a new process with configuration `c`.
* `Render` is `render` up to its `open`. It raises if the template for
  `<<c, path>>` is in `Raises`, which ends the run: nothing in generate
  catches the exception. Otherwise it skips an up-to-date file (`UpToDate`:
  `os.path.exists`, read, compare), or truncates the file.
  The text compared and written is `Result`: the template output after
  `.replace('\r\n', '\n')` (`Normalise`, which like Python's replace scans
  left to right, so `\r\r\n` keeps a `\r`). The old file is read through
  universal newlines (`ReadBack`: `\r\n` and a lone `\r` both become `\n`).
  Writing is the identity on the POSIX hosts the build runs on. A text is a
  sequence of tokens: `CR`, `LF`, and tokens that stand for line contents.
* `Write` is `f.write(result)`.
* `Finish` is generate returning.
* `Crash` is the process being killed, or an I/O error escaping, between
  any two steps.

`MCStarchRender` has three configurations of one mix:

* C1: the generic flavor only;
* C2: adds a neon flavor. This changes the header, dispatcher and makefile,
  and adds a file. Its templates produce `\r\n` line ends, where C1's
  produce `\n`, so two of its files normalise to C1's text;
* C3: C2 with a raising dispatcher template.

There are up to three runs. Three runs give a crashed or failed run
followed by a change of configuration and a completion, and also a
completion followed by an identical rerun. A template output with a lone
`\r` would make every rerun rewrite its file: replacing one text of
RenderText with such a text makes TLC report RerunWritesNothing violated
(hazard at starch.py:574). The real templates are outside src/, so the
run keeps to `\n` and `\r\n` line ends.

### StarchDriver (src/dsp/starchgen.py, src/starch/example/starchgen.py)

The two driver scripts are straight-line programs over StarchGen.
`StarchDriver` EXTENDS `StarchGen` and runs one script through its actions:

* `DriverInit` is `starch.Generator(...)`: the empty registry.
* `Register` performs the next call of the script (`Perform` maps it to
  `AddInclude`, `AddFunction`, `AddFeature`, `AddFlavor` or `AddMix`).
  `DspScript` and `ExampleScript` are the two scripts' calls, in program
  order, with their real names, features, tests, flavor lists and wisdom.
* `ScanNext` and `NextPattern` are the glob loop. `glob.glob` lists a
  directory in the order the file system gives, so each pattern's files are
  scanned in any order.
* `Finish` is `gen.generate()`. `Stop` is the script having ended, normally
  or by an exception.

The script is one thread that waits on nothing, so `DriverSpec` has weak
fairness on its steps. `Perform`, `Register` and `DriverSpec` are Python's
statement order, not lines of the scripts, so PROJECT.json maps only the
script data and the loop. The C files and the dsp wisdom files are not under
src/. `MCStarchDriver` gives small stand-ins with a preprocessor line, plain
and NEON-gated implementations, and benchmarks: three dsp implementation
files, and for the example the `generic`, `unroll_4` and `neon_intrinsics`
implementations its wisdom names. The dsp wisdom files have one entry each,
in `wisdom_name` form.

The `driver_scripts` run checks two properties of both scripts, over every
glob order:

* `DriverReachesGenerate`: the script runs to the end of `generate()`
  without an exception. `add_flavor` resolves its features at once and
  `BuildMix` its flavors, so the order of the registration calls matters.
  The mutant moves `add_feature('neon')` after the flavors that name it.
* `WisdomEntriesResolve`: when `generate()` runs, every wisdom entry of
  every mix is `wisdom_name` of an implementation the scan found and a flavor
  of that mix that can build it. Nothing in the generator checks this, and
  an unmatched entry is silently ignored. The mutant is `WisdomName` without
  the flavor, spec 4.3's bare implementation name: the example's
  `neon_intrinsics_armv7a_vfpv4` then matches nothing.

### DFCorrectionArrays (src/tools/df-correction-arrays.py)

The script's six `bitset()` calls run in program order (`Jobs`).
`BitsetStep` is one iteration of `for i in range(32)`, and `BitsetReturn`
appends the result to `shorts` or `longs`. `PopCount` is `bin(x).count('1')`,
written RECURSIVE. `^^` is Python's `^`.

A bitset is held as the set of its bit positions. TLC's integers are 32-bit
signed, so they cannot hold bit 31 of a uint32. `1 << i` is therefore `{i}`,
and `|=` is union. The reference `Ball` computes Hamming distance on sets of
bit positions. It shares no arithmetic with `popcount` or xor.

The header comment promises levels 0 to 2 and DF11/17/18/19. The code
deliberately uses one error for `shorts[2]` and leaves DF19 out. The radii
in `TablesAreHammingBalls` are the code's. At level 2 the short and long
balls overlap (DF 9). Whether that matters depends on C code outside the
repository (hazard at line 33).

### Runs

| Run | Checks | Result |
|---|---|---|
| `generator` (MCStarchGen.cfg) | TypeOK, AlignedPairsConsistent, TwinImplsMirror, FirstDefinitionWins, ImplIndexConsistent | pass, 99,372 states |
| `wisdom_reference` (MCStarchWisdom.cfg) | WisdomMatchesFile | pass, 1,604 states |
| `aligned_name_collision` | AlignedPairsConsistent | violation: f_aligned then f, both aligned |
| `feature_macro_collision` | FeatureMacroResolves | violation: neon and NEON |
| `benchmark_rebinding` | BindingKept | violation: the second file's benchmark replaces the first |
| `driver_scripts` (MCStarchDriver.cfg) | WisdomEntriesResolve, DriverReachesGenerate | pass, 108 states |
| `dispatch_race` (MCStarchDispatch.cfg) | TypeOK, ValidConfigNeverNone, Refines | pass, 1,299 states |
| `render_runs` (MCStarchRender.cfg) | CompletedRunCurrent, RerunWritesNothing | pass, 4,200 states |
| `render_all_or_nothing` (MCStarchRender_atomic.cfg) | ArtifactsAllOrNothing | violation: killed after `open(path, 'w')`, starch.h is left empty |
| `df_tables` (DFCorrectionArrays.cfg) | BitsetPrefix, TablesAreHammingBalls | pass, 199 states (the script is deterministic; every iteration is a state) |
| `spec_dispatch_example` (MCStarchDispatch_example.cfg) | ExampleSelection | violation: a CPU without AVX2 gets (generic, avx_f) |

The five violations are findings in PROJECT.json:

* two code bugs;
* two divergences from the spec: 4.2 (benchmark rebinding) and 5
  (all-or-nothing writes);
* one gap in the spec. Its section 8 dispatch example holds when the
  wisdom names (implementation, flavor) pairs, as `wisdom_name` does, and
  fails when it names implementations, as spec 4.3 says: avx_f has no
  feature, so it is built for generic too, and a CPU without AVX2 gets
  (generic, avx_f).

**Bounds.** The `generator` configuration cuts `src/dsp/starchgen.py` down to:

* one aligned function and one plain function, plus a declaration with
  mismatched argnames;
* the neon feature;
* a generic flavor and a neon flavor with a runtime test;
* a file-wisdom mix and an in-memory-wisdom mix;
* the `add_include` operands `<stdint.h>` (example driver), `c` without
  quotes, and the empty string, with at most two calls;
* two C files. Between them they contain a preprocessor line, a feature-gated
  implementation, an unknown function, an unknown feature, a benchmark, and a
  duplicate that reaches the registry through the aligned twin.

Every call may be issued in any order. A repeated registration takes the
fatal path. There are at most three scans, so a file can be rescanned, and
the two files can be scanned in both orders. That is enough for each property
to be exercised: a duplicate arrives in either order, a twin gets
implementations from both names, and a mix arrives before or after its
functions. Each property has a mutant (PROJECT.json) that TLC catches under
this configuration.

The dispatch runs use the arm mix of `src/starch/example/starchgen.py`:

* two NEON flavors with tests, then generic;
* three threads;
* every subset of the two tests as the CPU;
* implementations `unroll_4`, `generic` and `neon_intrinsics` (needs neon),
  in that discovery order;
* the example driver's arm wisdom for `subtract_n`,
  `neon_intrinsics_armv7a_vfpv4, neon_intrinsics_armv7a_vfpv3,
  generic_generic`: within each NEON flavor it promotes `neon_intrinsics`,
  and within generic it puts `generic` ahead of the earlier-discovered
  `unroll_4`.

With three threads, one can hit the cache while two others are still
searching, and two stores can overwrite each other. A second function of
the mix keeps only the NEON implementation, so that the search can run off
the end of the flavor list; it is an aligned twin, which the driver's
wisdom, keyed by `subtract_n`, leaves without wisdom. Init picks one of the two functions. `ValidConfigNeverNone` is spec 4.5's
"guaranteed termination": the mix ends in generic, which has no test, so the
first function, which has featureless implementations, never resolves to
none. The second function falls outside its premise. That function is the
configuration defect spec 4.5 describes: generate accepts it without a
warning (hazard at starch.py:594).

**Fairness.** The generator is a sequential script, and its properties are
safety properties, so none is assumed there. StarchRender assumes none
either. Nothing guarantees that a run is ever left to complete: kills and
template errors may repeat. For the dispatcher, see above.

## 4. Not modelled, and why

* The template service and templates: external, and not under src/. Only
  their determinism is assumed.
* Symbol, macro and path formatting (`sym`, the `*_symbol` and `macro`
  properties other than `Feature.macro`, `cflags`): text that no property
  depends on. The `__lt__` orders sort artifacts for the templates, which
  are outside src/.
* Whether an aligned twin should share its base function's wisdom. Wisdom
  is keyed by Function object, so the example's wisdom for `subtract_n`
  does not rank `subtract_n_aligned`; `wisdom_name` gives the twin names of
  its own, so separate wisdom seems intended, and spec 4.1 does not say
  (hazard at starch.py:449).
* Deleting outputs of removed flavors or mixes: the code never does it.
  StarchRender keeps such files on `disk` (hazard at starch.py:600).
* The printing of the DF tables: hex formatting that no property reads.
* In the dispatcher, a flavor's test is modelled as a pure lookup in `cpu`.
  Spec 5 calls the tests cheap and side-effect-free, so running one twice
  in a race changes nothing. Torn reads of the cache are excluded: the
  cache is one word, and the spec forbids them.
