---------------------------- MODULE StarchWisdom ----------------------------
(***************************************************************************)
(* Generator.load_wisdom (src/starch/starch.py): a wisdom file is read     *)
(* line by line into a mapping Function -> list of implementation names.   *)
(*                                                                         *)
(* A line is abstracted to what line.strip() and re.split('\s+', ...)      *)
(* leave of it: whether the stripped line starts with '#', and its         *)
(* whitespace-separated tokens (<<>> for a blank line).  A wisdom file is  *)
(* a sequence of such lines, or MissingFile when open() raises IOError.    *)
(* `functions` is the registry Generator.functions at the time of the      *)
(* call: a function from names to Function object ids.                     *)
(***************************************************************************)
EXTENDS Naturals, Sequences, SequencesExt

CONSTANT MissingFile   \* a wisdom path that open(path, 'r') fails on

\* The state of the loop of load_wisdom: `results` and the number of
\* warnings printed so far.
NoWisdom == [wisdom |-> <<>>, warnings |-> 0]

\* Mutant: comment lines are not skipped.
WisdomLineNoComment(st, line, functions) ==
    IF line.tokens = <<>> \/ Len(line.tokens) < 2 THEN st
    ELSE IF line.tokens[1] \in DOMAIN functions
         THEN [st EXCEPT !.wisdom = (functions[line.tokens[1]] :> <<line.tokens[2]>>) @@ @]
         ELSE [st EXCEPT !.warnings = @ + 1]

\* One iteration of `for line in f`: skip blank and comment lines and lines
\* of fewer than two tokens; append the second token to the list of a known
\* function; warn about an unknown one.
WisdomLine(st, line, functions) ==
    LET func == line.tokens[1]
        impl == line.tokens[2]
        id   == functions[func]
    IN  IF line.tokens = <<>> \/ line.comment \/ Len(line.tokens) < 2
        THEN st
        ELSE IF func \in DOMAIN functions
             THEN [st EXCEPT !.wisdom =
                      IF id \in DOMAIN @ THEN [@ EXCEPT ![id] = Append(@, impl)]
                                         ELSE (id :> <<impl>>) @@ @]
             ELSE [st EXCEPT !.warnings = @ + 1]

\* load_wisdom(path): a missing file is one warning and an empty mapping.
LoadWisdom(file, functions) ==
    IF file = MissingFile
    THEN [NoWisdom EXCEPT !.warnings = 1]
    ELSE FoldLeft(LAMBDA st, line : WisdomLine(st, line, functions),
                  NoWisdom, file)

=============================================================================
