----------------------------- MODULE StarchDriver -----------------------------
(***************************************************************************)
(* The driver scripts src/dsp/starchgen.py and src/starch/example/         *)
(* starchgen.py as programs over StarchGen: a Generator is constructed,    *)
(* the script's registration calls run in program order, then the glob    *)
(* loop scans every file each pattern matches, then generate() runs.  An  *)
(* exception escaping a call ends the script.  glob.glob returns files in *)
(* directory order, which nothing fixes: the loop may scan a pattern's    *)
(* files in any order.                                                     *)
(*                                                                         *)
(* A call is [op, arg], where arg is the argument record of the StarchGen *)
(* action for op.  An #include operand is a sequence whose first and last *)
(* elements are characters and whose middle element stands for the rest   *)
(* of the name: only its first character is ever inspected.               *)
(***************************************************************************)
EXTENDS StarchGen

CONSTANT Drivers   \* the scripts: [calls, globs]

VARIABLES
    driver,    \* the script being run
    stmt,      \* index of its next registration call; Len(calls) + 1 after them
    pat,       \* index of the glob pattern the loop is on
    todo       \* the files glob.glob(pattern) returned that are not scanned yet

driverVars == <<driver, stmt, pat, todo>>
allVars == <<vars, driverVars>>

Neon == <<"n", "e", "o", "n">>
Quoted(name) == <<"\"", name, "\"">>
Angled(name) == <<"<", name, ">">>
Call(op, arg) == [op |-> op, arg |-> arg]
Fun(name) == Call("function", [name |-> name, aligned |-> TRUE, argsMatch |-> TRUE])
Flavor(name, feats, test) == Call("flavor", [name |-> name, features |-> feats, test |-> test])
Mix(name, fls, wisdom, file) ==
    Call("mix", [name |-> name, flavors |-> fls, wisdom |-> wisdom, wisdomFile |-> file])

\* Mutant: add_feature('neon') moved after the add_flavor calls that name it.
DspScriptFeatureLate ==
    << Call("include", Quoted("dsp-types.h")), Call("include", Quoted("cpu.h")),
       Fun("magnitude_uc8"), Fun("magnitude_power_uc8"), Fun("magnitude_sc16"),
       Fun("magnitude_sc16q11"), Fun("mean_power_u16"), Fun("count_above_u16"),
       Flavor("generic", {}, None),
       Flavor("armv7a_neon_vfpv4", {Neon}, "cpu_supports_armv7_neon_vfpv4"),
       Flavor("armv8_neon_simd", {Neon}, "cpu_supports_armv8_simd"),
       Flavor("x86_avx2", {}, "cpu_supports_avx2"),
       Call("feature", Neon),
       Mix("generic", <<"generic">>, <<>>, "wisdom.generic"),
       Mix("arm", <<"armv7a_neon_vfpv4", "generic">>, <<>>, "wisdom.arm"),
       Mix("aarch64", <<"armv8_neon_simd", "generic">>, <<>>, "wisdom.aarch64"),
       Mix("x86", <<"x86_avx2", "generic">>, <<>>, "wisdom.x86") >>

\* src/dsp/starchgen.py: the calls before the glob loop.  Every function is
\* aligned and has no argnames; every mix reads a wisdom file.
DspScript ==
    << Call("include", Quoted("dsp-types.h")), Call("include", Quoted("cpu.h")),
       Fun("magnitude_uc8"), Fun("magnitude_power_uc8"), Fun("magnitude_sc16"),
       Fun("magnitude_sc16q11"), Fun("mean_power_u16"), Fun("count_above_u16"),
       Call("feature", Neon),
       Flavor("generic", {}, None),
       Flavor("armv7a_neon_vfpv4", {Neon}, "cpu_supports_armv7_neon_vfpv4"),
       Flavor("armv8_neon_simd", {Neon}, "cpu_supports_armv8_simd"),
       Flavor("x86_avx2", {}, "cpu_supports_avx2"),
       Mix("generic", <<"generic">>, <<>>, "wisdom.generic"),
       Mix("arm", <<"armv7a_neon_vfpv4", "generic">>, <<>>, "wisdom.arm"),
       Mix("aarch64", <<"armv8_neon_simd", "generic">>, <<>>, "wisdom.aarch64"),
       Mix("x86", <<"x86_avx2", "generic">>, <<>>, "wisdom.x86") >>

\* src/starch/example/starchgen.py: the calls before the glob loop.  Two
\* mixes carry in-memory wisdom written as FunctionImpl.wisdom_name strings.
ExampleScript ==
    << Call("include", Angled("stdint.h")),
       Fun("subtract_n"),
       Call("feature", Neon),
       Flavor("generic", {}, None),
       Flavor("armv7a_vfpv3", {Neon}, "supports_neon_vfpv3"),
       Flavor("armv7a_vfpv4", {Neon}, "supports_neon_vfpv4"),
       Flavor("x86_64_avx", {}, "supports_x86_avx"),
       Flavor("x86_64_avx2", {}, "supports_x86_avx2"),
       Mix("generic", <<"generic">>, <<>>, None),
       Mix("arm", <<"armv7a_vfpv4", "armv7a_vfpv3", "generic">>,
           "subtract_n" :> <<"neon_intrinsics_armv7a_vfpv4",
                             "neon_intrinsics_armv7a_vfpv3", "generic_generic">>,
           None),
       Mix("x86_64", <<"x86_64_avx2", "x86_64_avx", "generic">>,
           "subtract_n" :> <<"generic_x86_64_avx2", "generic_x86_64_avx",
                             "unroll_4_generic">>,
           None) >>

\* gen = starch.Generator(...): an empty registry.
DriverInit ==
    /\ Init
    /\ driver \in Drivers
    /\ stmt = 1
    /\ pat = 1
    /\ todo = driver.globs[1]

\* One registration call: the Generator method it names.
Perform(c) ==
    CASE c.op = "include"  -> AddInclude(c.arg)
      [] c.op = "function" -> AddFunction(c.arg)
      [] c.op = "feature"  -> AddFeature(c.arg)
      [] c.op = "flavor"   -> AddFlavor(c.arg)
      [] c.op = "mix"      -> AddMix(c.arg)

\* The next statement of the script's registration part.
Register ==
    /\ stmt <= Len(driver.calls)
    /\ Perform(driver.calls[stmt])
    /\ stmt' = stmt + 1
    /\ UNCHANGED <<driver, pat, todo>>

\* for c_file in glob.glob(pattern): gen.scan_file(c_file), in the order
\* the directory listing gives.
ScanNext ==
    /\ stmt > Len(driver.calls)
    /\ \E p \in todo : ScanFile(p) /\ todo' = todo \ {p}
    /\ UNCHANGED <<driver, stmt, pat>>

\* The inner loop is done: glob.glob runs for the next pattern.
NextPattern ==
    /\ phase = "config"
    /\ stmt > Len(driver.calls)
    /\ pat <= Len(driver.globs)
    /\ todo = {}
    /\ pat' = pat + 1
    /\ todo' = IF pat < Len(driver.globs) THEN driver.globs[pat + 1] ELSE {}
    /\ UNCHANGED <<vars, driver, stmt>>

\* gen.generate(), the script's last statement.
Finish ==
    /\ pat > Len(driver.globs)
    /\ Generate
    /\ UNCHANGED driverVars

\* The script has ended, normally or by an exception.
Stop ==
    /\ Terminated
    /\ UNCHANGED driverVars

DriverNext == Register \/ ScanNext \/ NextPattern \/ Finish \/ Stop

\* The script is one thread that waits on nothing.
DriverSpec ==
    DriverInit /\ [][DriverNext]_allVars
    /\ WF_allVars(Register \/ ScanNext \/ NextPattern \/ Finish)

-----------------------------------------------------------------------------
(***************************************************************************)
(* Either script runs to the end of generate() without an exception,      *)
(* whatever order glob.glob lists each directory in: every name a          *)
(* registration call looks up (a feature in add_flavor, a flavor or        *)
(* function in add_mix) was registered by an earlier call.  About the      *)
(* order of the scripts' registration calls against the eager lookups in   *)
(* add_flavor and add_mix.                                                 *)
(***************************************************************************)
DriverReachesGenerate == <>(phase = "done")

(***************************************************************************)
(* When generate() runs, every wisdom entry a mix holds for a function is  *)
(* FunctionImpl.wisdom_name(flavor) of an implementation the scan found    *)
(* for that function and a flavor of that mix enabling the feature it      *)
(* requires.  An entry naming no such pair matches nothing in the          *)
(* dispatcher and nothing warns about it: the mix silently dispatches in   *)
(* discovery order.  About wisdom_name against the wisdom the scripts and  *)
(* their wisdom files write.                                               *)
(***************************************************************************)
WisdomEntriesResolve ==
    phase = "done" =>
        \A m \in DOMAIN mixes : \A id \in DOMAIN mixes[m].wisdom :
            \A w \in Range(mixes[m].wisdom[id]) :
                \E r \in Range(fn[id].impls), fl \in Range(mixes[m].flavors) :
                    /\ r.feature \in {None} \cup flavors[fl].features
                    /\ w = WisdomName(fn[id], r.name, fl)

=============================================================================
