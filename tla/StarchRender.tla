----------------------------- MODULE StarchRender -----------------------------
(***************************************************************************)
(* Generator.generate and Generator.render (src/starch/starch.py) over     *)
(* successive runs of the generator on one persistent output directory.    *)
(* Each run renders its configuration's artifacts in generate's order; for *)
(* each, render compares the new text with the file and skips the write    *)
(* when they match, and otherwise opens the file with 'w' (which           *)
(* truncates it) and then writes the text.  A template that raises ends    *)
(* the run (nothing in generate catches it); the process may also be       *)
(* killed between any two steps.                                           *)
(*                                                                         *)
(* The template service is a deterministic function of the configuration   *)
(* and the artifact: Text[c][p] is what the template for p produces under  *)
(* configuration c, before render's normalisation, and Raises holds the    *)
(* <<c, p>> whose template raises.  A text is a sequence of tokens: CR and *)
(* LF are the two line-end characters, any other token stands for the     *)
(* characters of a line.                                                   *)
(***************************************************************************)
EXTENDS Naturals, Sequences, FiniteSets, TLC

CONSTANTS
    Configs,   \* driver configurations a run may be started with
    Order,     \* config -> its output paths in the order generate renders them
    Text,      \* config -> path -> the template's output, a token sequence
    Raises,    \* <<config, path>> pairs whose template raises
    Empty,     \* the contents of a file just opened with 'w'
    CR, LF,    \* the characters '\r' and '\n'
    MaxRuns,   \* bound on the number of generator runs
    None

VARIABLES
    disk,      \* output path -> contents, for the files that exist
    run,       \* the run in progress: [cfg, k, pc, prev], or None
    wrote,     \* paths the run in progress has written
    outcome,   \* how the last run ended: [how, cfg], or None
    runs       \* runs started so far

vars == <<disk, run, wrote, outcome, runs>>

Init ==
    /\ disk = [p \in {} |-> Empty]
    /\ run = None
    /\ wrote = {}
    /\ outcome = None
    /\ runs = 0

\* A generator process starts with configuration c.
Start(c) ==
    /\ run = None
    /\ runs < MaxRuns
    /\ run' = [cfg |-> c, k |-> 1, pc |-> "render", prev |-> outcome]
    /\ wrote' = {}
    /\ runs' = runs + 1
    /\ UNCHANGED <<disk, outcome>>

Path == Order[run.cfg][run.k]

\* str.replace('\r\n', '\n'): scans left to right and replaces
\* non-overlapping occurrences, so "\r\r\n" becomes "\r\n".
RECURSIVE Normalise(_)
Normalise(s) ==
    IF Len(s) < 2 THEN s
    ELSE IF s[1] = CR /\ s[2] = LF THEN <<LF>> \o Normalise(Tail(Tail(s)))
    ELSE <<s[1]>> \o Normalise(Tail(s))

\* open(path, 'r').read() with universal newlines: "\r\n" and a lone "\r"
\* are both read as "\n".  (open(path, 'w') writes "\n" as os.linesep,
\* which is "\n" on the POSIX hosts the build runs on: the file holds the
\* text as written.)
RECURSIVE ReadBack(_)
ReadBack(s) ==
    IF s = <<>> THEN s
    ELSE IF s[1] = CR
         THEN <<LF>> \o ReadBack(IF Len(s) > 1 /\ s[2] = LF THEN Tail(Tail(s)) ELSE Tail(s))
    ELSE <<s[1]>> \o ReadBack(Tail(s))

\* Mutant: the template's output is used without the CRLF normalisation.
ResultRaw(c, p) == Text[c][p]

\* The text render writes for p under configuration c.
Result(c, p) == Normalise(Text[c][p])

\* Mutant: only the existence of the file is checked.
UpToDateIfExists(p, text) == p \in DOMAIN disk

\* render: os.path.exists, then read the file back and compare.
UpToDate(p, text) == p \in DOMAIN disk /\ ReadBack(disk[p]) = text

\* render, up to the open: the template renders (or raises, ending the
\* run), then an up-to-date file is left alone; otherwise open(path, 'w')
\* creates or truncates it.
Render ==
    /\ run # None
    /\ run.pc = "render"
    /\ run.k <= Len(Order[run.cfg])
    /\ IF <<run.cfg, Path>> \in Raises
       THEN /\ run' = None
            /\ outcome' = [how |-> "raised", cfg |-> run.cfg]
            /\ UNCHANGED disk
       ELSE /\ IF UpToDate(Path, Result(run.cfg, Path))
               THEN /\ run' = [run EXCEPT !.k = @ + 1]
                    /\ UNCHANGED disk
               ELSE /\ disk' = (Path :> Empty) @@ disk
                    /\ run' = [run EXCEPT !.pc = "write"]
            /\ UNCHANGED outcome
    /\ UNCHANGED <<wrote, runs>>

\* f.write(result), and the file is closed.
Write ==
    /\ run # None
    /\ run.pc = "write"
    /\ disk' = [disk EXCEPT ![Path] = Result(run.cfg, Path)]
    /\ wrote' = wrote \cup {Path}
    /\ run' = [run EXCEPT !.k = @ + 1, !.pc = "render"]
    /\ UNCHANGED <<outcome, runs>>

\* generate returns after the last makefile.
Finish ==
    /\ run # None
    /\ run.pc = "render"
    /\ run.k > Len(Order[run.cfg])
    /\ run' = None
    /\ outcome' = [how |-> "completed", cfg |-> run.cfg]
    /\ UNCHANGED <<disk, wrote, runs>>

\* The process is killed (or an I/O error escapes) between two steps.
Crash ==
    /\ run # None
    /\ run' = None
    /\ outcome' = [how |-> "crashed", cfg |-> run.cfg]
    /\ UNCHANGED <<disk, wrote, runs>>

Next == (\E c \in Configs : Start(c)) \/ Render \/ Write \/ Finish \/ Crash

Spec == Init /\ [][Next]_vars

-----------------------------------------------------------------------------
(***************************************************************************)
(* Recovery (render's compare-then-write): once a run completes, every     *)
(* artifact of its configuration holds exactly the text render makes of   *)
(* that configuration's template output,                                   *)
(* whatever earlier runs left behind: files of another configuration,      *)
(* files a killed run truncated, files a raising template never reached.   *)
(***************************************************************************)
CompletedRunCurrent ==
    run = None /\ outcome # None /\ outcome.how = "completed" =>
        \A i \in DOMAIN Order[outcome.cfg] :
            LET p == Order[outcome.cfg][i]
            IN  p \in DOMAIN disk /\ disk[p] = Result(outcome.cfg, p)

(***************************************************************************)
(* Spec 4.4 and 8: a run started right after a completed run of the same   *)
(* configuration writes no file, so that make sees nothing changed.        *)
(***************************************************************************)
RerunWritesNothing ==
    run # None /\ run.prev = [how |-> "completed", cfg |-> run.cfg] => wrote = {}

(***************************************************************************)
(* Spec 5: "File writes are all-or-nothing per artifact".  Whenever no     *)
(* generator is running, every file in the output directory holds the      *)
(* complete text some configuration renders for it.                        *)
(***************************************************************************)
ArtifactsAllOrNothing ==
    run = None =>
        \A p \in DOMAIN disk : \E c \in Configs : p \in DOMAIN Text[c] /\ disk[p] = Result(c, p)

=============================================================================
