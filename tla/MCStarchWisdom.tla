--------------------------- MODULE MCStarchWisdom ---------------------------
(***************************************************************************)
(* Checks LoadWisdom, the translation of Generator.load_wisdom, against a  *)
(* declarative statement of what spec section 4.3 says a wisdom file      *)
(* means, over every wisdom file of at most MaxLines lines drawn from a    *)
(* small set of line shapes and two states of the function registry.      *)
(***************************************************************************)
EXTENDS StarchWisdom, FiniteSets

CONSTANTS MaxLines, NotLoaded

\* Line shapes: blank, a commented-out entry, a one-token line, entries of a
\* known function with and without trailing columns, and an unknown name.
Lines ==
    { [comment |-> FALSE, tokens |-> <<>>],
      [comment |-> TRUE,  tokens |-> <<"#f", "x">>],
      [comment |-> FALSE, tokens |-> <<"f">>],
      [comment |-> FALSE, tokens |-> <<"f", "x">>],
      [comment |-> FALSE, tokens |-> <<"f", "y", "0.25">>],
      [comment |-> FALSE, tokens |-> <<"g", "x">>],
      [comment |-> FALSE, tokens |-> <<"h", "y">>] }

\* Generator.functions: name -> Function object id.  "g" is registered in
\* one state of the registry and not yet in the other.
Registries == { ("f" :> 1) @@ ("g" :> 2), ("f" :> 1) }

VARIABLES file, functions, result
vars == <<file, functions, result>>

Init ==
    /\ file \in BoundedSeq(Lines, MaxLines) \cup {MissingFile}
    /\ functions \in Registries
    /\ result = NotLoaded

Load ==
    /\ result = NotLoaded
    /\ result' = LoadWisdom(file, functions)
    /\ UNCHANGED <<file, functions>>

Spec == Init /\ [][Load]_vars

\* A line that names a ranking: not blank, not a comment, two tokens or more.
IsEntry(l) == ~l.comment /\ Len(l.tokens) >= 2

\* The ranking of function object `id`: the second tokens of its entry lines,
\* in file order, duplicates kept.
RankingOf(id) ==
    LET mine == SelectSeq(file, LAMBDA l : IsEntry(l)
                              /\ l.tokens[1] \in DOMAIN functions
                              /\ functions[l.tokens[1]] = id)
    IN  [i \in 1..Len(mine) |-> mine[i].tokens[2]]

\* The functions some entry line of the file names.
Ranked == { functions[n] : n \in { file[i].tokens[1] : i \in { j \in DOMAIN file :
                IsEntry(file[j]) /\ file[j].tokens[1] \in DOMAIN functions } } }

\* The number of entry lines naming an unknown function.
UnknownLines == Len(SelectSeq(file, LAMBDA l : IsEntry(l)
                                     /\ l.tokens[1] \notin DOMAIN functions))

(***************************************************************************)
(* load_wisdom returns, for each known function named in the file, exactly *)
(* its entries in file order; blank, comment and one-token lines add      *)
(* nothing; each entry naming an unknown function is one warning and adds *)
(* nothing; a missing file is one warning and an empty mapping (spec 4.3   *)
(* and the wisdom property of spec section 8).                            *)
(***************************************************************************)
WisdomMatchesFile ==
    result # NotLoaded =>
        IF file = MissingFile
        THEN result = [wisdom |-> <<>>, warnings |-> 1]
        ELSE /\ DOMAIN result.wisdom = Ranked
             /\ \A id \in Ranked : result.wisdom[id] = RankingOf(id)
             /\ result.warnings = UnknownLines

=============================================================================
