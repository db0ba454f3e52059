---------------------------- MODULE StarchResolve ----------------------------
(***************************************************************************)
(* What the generated dispatcher promises for one dispatchable function in *)
(* one mix binary (spec 4.5 and 5): the first call resolves, atomically,   *)
(* to the best choice, and every call, whichever thread makes it, returns  *)
(* that one choice.  The dispatcher is generated from templates outside    *)
(* src/, so this module and StarchDispatch are modelled from the spec; the *)
(* data they read (flavor tests and features, implementations and their    *)
(* required features, wisdom) is the generator's, from starch.py.          *)
(*                                                                         *)
(* The best choice is stated declaratively: among the (flavor,             *)
(* implementation) pairs whose flavor is supported by the CPU and whose    *)
(* implementation is compiled for the flavor, the one whose flavor comes   *)
(* first in the mix and, within that flavor, whose implementation comes    *)
(* first in trial order.                                                   *)
(***************************************************************************)
EXTENDS Naturals, Sequences, FiniteSets

CONSTANTS
    Threads,         \* the threads that call the function
    MixFlavors,      \* BuildMix.flavors: flavor names, most preferred first
    FlavorTest,      \* flavor -> BuildFlavor.test_function, or None
    FlavorFeatures,  \* flavor -> BuildFlavor.features
    Functions,       \* the mix's functions, each [impls, wisdom, aligned]:
                     \* Function.impls in discovery order ([name, feature]),
                     \* BuildMix.function_wisdom(function), best first, and
                     \* Function.aligned
    PairWisdom,      \* TRUE: a wisdom entry names an (implementation, flavor)
                     \* pair by FunctionImpl.wisdom_name, as the code and the
                     \* example driver write it; FALSE: it names an
                     \* implementation, as spec 4.3 and 4.5 say
    Tests,           \* the runtime test functions named by the flavors
    None,            \* Python None: no test, no required feature
    Unresolved,      \* the cache before the first resolution
    NoImpl,          \* resolved(none)
    Unset            \* a call that has not returned

\* A flavor with test_function None is always supported (test_function_expr
\* emits NULL for it); otherwise its test must pass on this CPU.
Supported(fl, cpu) == FlavorTest[fl] = None \/ FlavorTest[fl] \in cpu

\* An implementation is compiled for a flavor when it requires no feature or
\* a feature the flavor enables (BuildFlavor: the features list "controls
\* which feature-dependent code is compiled for this flavor").
Compiled(impl, fl) == impl.feature = None \/ impl.feature \in FlavorFeatures[fl]

\* FunctionImpl.wisdom_name(flavor).
WisdomName(f, impl, fl) ==
    impl.name \o "_" \o fl \o (IF f.aligned THEN "_aligned" ELSE "")

\* The name a wisdom entry must equal to rank impl within flavor fl.
WisdomKey(f, impl, fl) == IF PairWisdom THEN WisdomName(f, impl, fl) ELSE impl.name

\* Trial order within flavor fl: implementations the wisdom ranks, in wisdom
\* order (first mention), then the others in discovery order.
Rank(f, impl, fl) ==
    LET named(i) == f.wisdom[i] = WisdomKey(f, impl, fl)
    IN  IF \E i \in DOMAIN f.wisdom : named(i)
        THEN CHOOSE i \in DOMAIN f.wisdom : named(i) /\ \A j \in 1..(i - 1) : ~named(j)
        ELSE Len(f.wisdom) + 1
Precedes(f, fl, i, j) ==
    \/ Rank(f, f.impls[i], fl) < Rank(f, f.impls[j], fl)
    \/ Rank(f, f.impls[i], fl) = Rank(f, f.impls[j], fl) /\ i < j

\* The lexicographically least usable (flavor position, implementation).
Usable(f, cpu) ==
    { <<x, i>> \in (DOMAIN MixFlavors) \X (DOMAIN f.impls) :
        Supported(MixFlavors[x], cpu) /\ Compiled(f.impls[i], MixFlavors[x]) }
Best(f, cpu) ==
    IF Usable(f, cpu) = {} THEN NoImpl
    ELSE LET u == CHOOSE u \in Usable(f, cpu) :
                    \A v \in Usable(f, cpu) : u # v =>
                        \/ u[1] < v[1]
                        \/ u[1] = v[1] /\ Precedes(f, MixFlavors[u[1]], u[2], v[2])
         IN  <<MixFlavors[u[1]], f.impls[u[2]].name>>


VARIABLES
    cpu,         \* the tests that pass on this machine; fixed for the process
    fun,         \* the function called, one of Functions
    resolution,  \* spec 4.5's state: Unresolved, or the resolved pair or NoImpl
    result       \* thread -> what its call returned

vars == <<cpu, fun, resolution, result>>

Init ==
    /\ cpu \in SUBSET Tests
    /\ fun \in Functions
    /\ resolution = Unresolved
    /\ result = [t \in Threads |-> Unset]

\* A call: the first one resolves; every call returns the cached choice.
Call(t) ==
    /\ result[t] = Unset
    /\ resolution' = IF resolution = Unresolved THEN Best(fun, cpu) ELSE resolution
    /\ result' = [result EXCEPT ![t] = resolution']
    /\ UNCHANGED <<cpu, fun>>

Next == \E t \in Threads : Call(t)

Spec == Init /\ [][Next]_vars /\ \A t \in Threads : WF_vars(Call(t))

=============================================================================
