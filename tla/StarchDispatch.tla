---------------------------- MODULE StarchDispatch ----------------------------
(***************************************************************************)
(* The runtime dispatch protocol of spec 4.5 and 5, for one function in    *)
(* one mix binary, as the generated dispatcher performs it: every thread   *)
(* that calls the function reads the cached choice; a thread that finds   *)
(* it unresolved searches on its own (flavors in mix order, the flavor's   *)
(* runtime test unless it has none, then the first candidate in trial     *)
(* order that is built for the flavor) and publishes what it found with a  *)
(* single store.  Threads may search at the same time; a late store        *)
(* overwrites an earlier one.                                              *)
(*                                                                         *)
(* Refines StarchResolve, where the first call resolves atomically to the  *)
(* declaratively stated best choice.                                       *)
(***************************************************************************)
EXTENDS Naturals, Sequences, SequencesExt, FiniteSets

CONSTANTS Threads, MixFlavors, FlavorTest, FlavorFeatures, Functions,
          Tests, None, Unresolved, NoImpl, Unset, PairWisdom


VARIABLES
    cpu,     \* the tests that pass on this machine
    fun,     \* the function called: [impls, wisdom, aligned], one of Functions
    cache,   \* the function's memoised choice (one pointer-sized word)
    result,  \* thread -> what its call returned
    pc,      \* thread -> "idle", "search", "store" or "done"
    fi,      \* thread -> position in MixFlavors of the flavor it tries next
    found    \* thread -> the choice its search produced

vars == <<cpu, fun, cache, result, pc, fi, found>>

\* The abstract resolution state is the cache word.
Abs == INSTANCE StarchResolve WITH resolution <- cache

\* Mutant: a flavor without a test is taken as unsupported.
FlavorSupportedTestOnly(fl) == FlavorTest[fl] \in cpu

\* BuildFlavor.test_function_expr: None becomes NULL, which the dispatcher
\* treats as "always supported"; otherwise the test is called.
FlavorSupported(fl) == FlavorTest[fl] = None \/ FlavorTest[fl] \in cpu

\* The implementations flavor.c builds for a flavor: those requiring no
\* feature or one of the flavor's features.
ImplBuilt(impl, fl) == impl.feature = None \/ impl.feature \in FlavorFeatures[fl]

\* Mutant: trial order ignores the mix's wisdom.
TrialOrderNoWisdom(f, fl) == f.impls

\* Trial order within flavor fl, built as a dispatcher builds it: walk the
\* wisdom list, taking the implementation each entry (at its first mention)
\* names, then append the implementations no entry names, in discovery
\* order (Function.impls).
TrialOrder(f, fl) ==
    LET key(im)  == Abs!WisdomKey(f, im, fl)
        named(w) == SelectSeq(f.impls, LAMBDA im : key(im) = w)
        firsts   == [i \in DOMAIN f.wisdom |->
                       IF \E j \in 1..(i - 1) : f.wisdom[j] = f.wisdom[i]
                       THEN <<>> ELSE named(f.wisdom[i])]
    IN  FlattenSeq(firsts) \o SelectSeq(f.impls, LAMBDA im : key(im) \notin Range(f.wisdom))

\* Mutant: the pair is stored the wrong way round.
FoundSwapped(fl, impl) == <<impl.name, fl>>

\* The choice a search publishes: the flavor and the implementation name.
FoundOf(fl, impl) == <<fl, impl.name>>

Init ==
    /\ cpu \in SUBSET Tests
    /\ fun \in Functions
    /\ cache = Unresolved
    /\ result = [t \in Threads |-> Unset]
    /\ pc = [t \in Threads |-> "idle"]
    /\ fi = [t \in Threads |-> 1]
    /\ found = [t \in Threads |-> Unset]

\* The call: a resolved cache is returned at once, without running any test.
Call(t) ==
    /\ pc[t] = "idle"
    /\ IF cache # Unresolved
       THEN /\ result' = [result EXCEPT ![t] = cache]
            /\ pc' = [pc EXCEPT ![t] = "done"]
       ELSE /\ pc' = [pc EXCEPT ![t] = "search"]
            /\ UNCHANGED result
    /\ UNCHANGED <<cpu, fun, cache, fi, found>>

\* One flavor of the search: its test, then the first built candidate.
TryFlavor(t) ==
    LET fl    == MixFlavors[fi[t]]
        cands == SelectSeq(TrialOrder(fun, fl), LAMBDA im : ImplBuilt(im, fl))
    IN
    /\ pc[t] = "search"
    /\ fi[t] <= Len(MixFlavors)
    /\ IF FlavorSupported(fl) /\ cands # <<>>
       THEN /\ found' = [found EXCEPT ![t] = FoundOf(fl, Head(cands))]
            /\ pc' = [pc EXCEPT ![t] = "store"]
            /\ UNCHANGED fi
       ELSE /\ fi' = [fi EXCEPT ![t] = @ + 1]
            /\ UNCHANGED <<found, pc>>
    /\ UNCHANGED <<cpu, fun, cache, result>>

\* Every flavor tried: resolved(none).
GiveUp(t) ==
    /\ pc[t] = "search"
    /\ fi[t] > Len(MixFlavors)
    /\ found' = [found EXCEPT ![t] = NoImpl]
    /\ pc' = [pc EXCEPT ![t] = "store"]
    /\ UNCHANGED <<cpu, fun, cache, result, fi>>

\* Publish the choice (one store, whatever another thread stored) and
\* return it.
Store(t) ==
    /\ pc[t] = "store"
    /\ cache' = found[t]
    /\ result' = [result EXCEPT ![t] = found[t]]
    /\ pc' = [pc EXCEPT ![t] = "done"]
    /\ UNCHANGED <<cpu, fun, fi, found>>

Next == \E t \in Threads : Call(t) \/ TryFlavor(t) \/ GiveUp(t) \/ Store(t)

\* Threads never block (no lock, no wait): each runnable thread is
\* eventually scheduled.
Spec == Init /\ [][Next]_vars
        /\ \A t \in Threads : WF_vars(Call(t) \/ TryFlavor(t) \/ GiveUp(t) \/ Store(t))

-----------------------------------------------------------------------------
Resolutions == (Range(MixFlavors) \X {im.name : im \in UNION {Range(f.impls) : f \in Functions}})
               \cup {NoImpl}

TypeOK ==
    /\ cpu \subseteq Tests
    /\ fun \in Functions
    /\ cache \in Resolutions \cup {Unresolved}
    /\ \A t \in Threads :
         /\ pc[t] \in {"idle", "search", "store", "done"}
         /\ fi[t] \in 1..(Len(MixFlavors) + 1)
         /\ found[t] \in Resolutions \cup {Unset}
         /\ result[t] \in Resolutions \cup {Unset}

(***************************************************************************)
(* The racing, step-by-step resolution behaves as one atomic resolution to *)
(* the best choice (spec 5: "converge to a single, deterministic           *)
(* flavor/impl choice regardless of how many threads race"): whatever the  *)
(* interleaving of searches and stores and whichever CPU, the cache never  *)
(* changes once set, every call returns the best choice, and every call    *)
(* returns.                                                                *)
(***************************************************************************)
Refines == Abs!Spec

(***************************************************************************)
(* Spec 4.5, guaranteed termination: when the mix's last flavor has no     *)
(* runtime test and the function has an implementation that needs no      *)
(* feature, no call ever returns resolved(none), on any CPU and whatever  *)
(* the threads' interleaving (the flavor with no test is "always          *)
(* supported", and flavor.c builds the featureless implementation into    *)
(* every flavor).                                                          *)
(***************************************************************************)
ValidConfigNeverNone ==
    (/\ FlavorTest[MixFlavors[Len(MixFlavors)]] = None
     /\ \E i \in DOMAIN fun.impls : fun.impls[i].feature = None)
    => \A t \in Threads : result[t] # NoImpl

=============================================================================
