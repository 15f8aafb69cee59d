------------------------------ MODULE Installer ------------------------------
(***************************************************************************)
(* CustomActionRunner.ExtractInstallDir of the Windows installer: from the *)
(* storage node service's command line, the directory given to            *)
(* --config-dir. Only its tests are in the repository                     *)
(* (installer/windows/StorxTests/ExtractInstallDirTests.cs), so the        *)
(* operator is written from spec.md 4.3: null or empty input and input    *)
(* without the flag give no result; otherwise the quoted argument after   *)
(* the flag is returned verbatim, a literal substring, trailing           *)
(* backslashes included. With no C# source in the repository, no property *)
(* of this module can check the repository's code: it records the parser *)
(* spec.md describes, and MCInstaller.cfg only explores it.              *)
(*                                                                         *)
(* A command line is a sequence of characters: "q" is the double quote,   *)
(* "\\" the backslash, "a" any other path character, " " a space; the      *)
(* flag is one element, "--config-dir".                                    *)
(***************************************************************************)
EXTENDS Integers, Sequences
LOCAL INSTANCE FiniteSetsExt

CONSTANTS
    Dirs,      \* directories to install into, as character sequences
    Prefixes   \* what precedes the flag: the quoted executable and "run"

Flag == "--config-dir"
Quote == "q"
NoResult == [found |-> FALSE]
Result(s) == [found |-> TRUE, dir |-> s]

(* A C# string argument: null, or a sequence of characters. *)
Null == [isNull |-> TRUE]
Str(s) == [isNull |-> FALSE, s |-> s]

VARIABLES
    serviceCmd, \* the argument the installer passes
    ran,        \* whether the custom action has run
    result      \* what ExtractInstallDir returned

vars == <<serviceCmd, ran, result>>

RECURSIVE SkipSpaces(_)
SkipSpaces(s) == IF s # << >> /\ Head(s) = " " THEN SkipSpaces(Tail(s)) ELSE s

(* What follows the first --config-dir, leading spaces skipped. *)
AfterFlag(s) ==
    SkipSpaces(SubSeq(s, Min({i \in DOMAIN s : s[i] = Flag}) + 1, Len(s)))

(* The text between the opening quote and the next quote, as it stands. *)
QuotedArg(arg) ==
    LET close == {j \in 2..Len(arg) : arg[j] = Quote}
    IN  IF arg = << >> \/ Head(arg) # Quote \/ close = {} THEN NoResult
        ELSE Result(SubSeq(arg, 2, Min(close) - 1))

ExtractInstallDir(cmd) ==
    IF cmd.isNull \/ cmd.s = << >> \/ \A i \in DOMAIN cmd.s : cmd.s[i] # Flag
    THEN NoResult
    ELSE QuotedArg(AfterFlag(cmd.s))

(* How a service command line is put together: an executable part, then, *)
(* when the service was installed with one, the flag and the quoted dir.  *)
Command(pre, gap, dir) == pre \o gap \o <<Flag, " ", Quote>> \o dir \o <<Quote>>

Inputs ==
    {Null, Str(<< >>)} \cup {Str(p) : p \in Prefixes}
    \cup {Str(Command(p, g, d)) : p \in Prefixes, g \in {<<" ">>, <<" ", " ">>}, d \in Dirs}

Init ==
    /\ serviceCmd \in Inputs
    /\ ran = FALSE
    /\ result = NoResult

(* The installer's custom action runs the parser once. *)
Extract ==
    /\ ~ran
    /\ ran' = TRUE
    /\ result' = ExtractInstallDir(serviceCmd)
    /\ UNCHANGED serviceCmd

Next == Extract

Spec == Init /\ [][Next]_vars
=============================================================================
