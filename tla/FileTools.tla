------------------------------ MODULE FileTools ------------------------------
(***************************************************************************)
(* Two programs of lab_1: grep.c, which takes its options and then reads    *)
(* its files line by line, and tac.c, which prints the lines of a file from *)
(* the last to the first, byte by byte from its end.                       *)
(***************************************************************************)
EXTENDS Naturals, Sequences, FiniteSets, SequencesExt

CONSTANTS Word,       \* patterns and names of files
          Arguments,  \* grep's command lines: sequences of arguments
          Contents,   \* the files there may be: functions from names to lines
          MaxPats,    \* patterns there is room for: 10 in the code
          Texts,      \* what tac's file may contain: sequences of bytes
          LineMax     \* bytes of tac's line buffer: 1024 in the code

\* A line is which words it contains, and which when case is ignored.
Line == {l \in [exact : SUBSET Word, fold : SUBSET Word] : l.exact \subseteq l.fold}

\* -f is as many -e as its file has lines; -n, -h and -H are about layout.
Argument == [opt : {"v", "i", "c", "l", "L", "e", "word"}, val : Word]

ASSUME ToolsAssumption ==
  /\ MaxPats \in Nat \ {0} /\ LineMax \in Nat \ {0}
  /\ Arguments \subseteq Seq(Argument)
  /\ \A g \in Contents : \A f \in DOMAIN g : g[f] \in Seq(Line)
  /\ \A t \in Texts : t \in Seq({t[i] : i \in DOMAIN t})

VARIABLES tool,     \* [pc, ...]: which tool, and where it is
          opts,     \* grep: Optiuni
          args,     \* grep: arguments not looked at yet
          files,    \* grep: the files
          fileno,   \* grep: the file it is at
          lineno,   \* grep: lines read of it
          matches,  \* grep: count_matches
          output,   \* grep: what it has printed
          text,     \* tac: the file
          pos,      \* tac: bytes not looked at yet
          back,     \* tac: s[0..counter-1]
          tacOut    \* tac: what it has printed

tvars == <<tool, opts, args, files, fileno, lineno, matches, output, text, pos, back, tacOut>>

NoOptions == [pats |-> <<>>, names |-> <<>>, e |-> FALSE, i |-> FALSE,
              v |-> FALSE, c |-> FALSE, l |-> "none"]

\* A program that is not run has ended.
ToolsStart(runs) ==
  /\ \/ /\ runs /\ tool = "options"
        /\ args \in Arguments /\ files \in Contents /\ text = <<>>
     \/ /\ tool = IF runs THEN "tac" ELSE "usage"
        /\ args = <<>> /\ files = [w \in {} |-> <<>>]
        /\ text \in IF runs THEN Texts ELSE {<<>>}
  /\ opts = NoOptions
  /\ fileno = 1 /\ lineno = 0 /\ matches = 0 /\ output = <<>>
  /\ pos = Len(text) /\ back = <<>> /\ tacOut = <<>>

UnchangedTac == UNCHANGED <<text, pos, back, tacOut>>
UnchangedGrep == UNCHANGED <<opts, args, files, fileno, lineno, matches, output>>

-----------------------------------------------------------------------------
(* grep: process_args *)

WithPat(a, p) == IF \E k \in 1..Len(a.pats) : a.pats[k] = p THEN a
                 ELSE [a EXCEPT !.pats = Append(@, p)]

WithArgument(a, g) ==
  CASE g.opt = "e"    -> [WithPat(a, g.val) EXCEPT !.e = TRUE]
    [] g.opt = "i"    -> [a EXCEPT !.i = TRUE]
    [] g.opt = "v"    -> [a EXCEPT !.v = TRUE]
    [] g.opt = "c"    -> [a EXCEPT !.c = TRUE]
    [] g.opt \in {"l", "L"} -> [a EXCEPT !.l = g.opt]
    [] g.opt = "word" -> [a EXCEPT !.names = Append(@, g.val)]

\* A store behind the last pattern is undefined: the model ends there.
TakeArgument ==
  /\ tool = "options" /\ args # <<>>
  /\ opts' = WithArgument(opts, Head(args))
  /\ args' = Tail(args)
  /\ tool' = IF Len(opts'.pats) > MaxPats THEN "overrun" ELSE tool
  /\ UNCHANGED <<files, fileno, lineno, matches, output>> /\ UnchangedTac

\* Without -e the first word is the pattern.
EndArguments ==
  /\ tool = "options" /\ args = <<>>
  /\ IF opts.e THEN tool' = "grep" /\ UNCHANGED opts
     ELSE IF opts.names = <<>> THEN tool' = "usage" /\ UNCHANGED opts
     ELSE /\ tool' = "grep"
          /\ opts' = [WithPat(opts, Head(opts.names)) EXCEPT !.names = Tail(@)]
  /\ UNCHANGED <<args, files, fileno, lineno, matches, output>> /\ UnchangedTac

-----------------------------------------------------------------------------
(* grep: process_file *)

LineMatch(l) ==
  \E k \in 1..Len(opts.pats) : opts.pats[k] \in IF opts.i THEN l.fold ELSE l.exact

Selected(l) == LineMatch(l) # opts.v

Name == opts.names[fileno]
AtFile == tool = "grep" /\ fileno <= Len(opts.names)

Out(kind, what) == [kind |-> kind, file |-> Name, what |-> what]

\* What is printed for the selected line n; -L prints none.
Prints(n) ==
  IF opts.l = "l" THEN <<Out("name", 0)>>
  ELSE IF ~opts.c /\ opts.l = "none" THEN <<Out("line", n)>>
  ELSE <<>>

\* What is printed behind the last line: -L and -c do not exclude each other.
Totals(count) ==
  (IF opts.l = "L" /\ count = 0 THEN <<Out("name", 0)>> ELSE <<>>)
  \o (IF opts.c THEN <<Out("count", count)>> ELSE <<>>)

NextFile(out) ==
  /\ output' = out
  /\ fileno' = fileno + 1 /\ lineno' = 0 /\ matches' = 0

\* A file that cannot be opened: a message.
SkipFile ==
  /\ AtFile /\ Name \notin DOMAIN files
  /\ NextFile(output)
  /\ UNCHANGED <<tool, opts, args, files>> /\ UnchangedTac

\* Slip: -l goes on behind the first match.
ReadLineOn ==
  LET l == files[Name][lineno + 1] IN
  /\ AtFile /\ Name \in DOMAIN files /\ lineno < Len(files[Name])
  /\ IF Selected(l) THEN output' = output \o Prints(lineno + 1) /\ matches' = matches + 1
     ELSE UNCHANGED <<output, matches>>
  /\ lineno' = lineno + 1
  /\ UNCHANGED <<tool, opts, args, files, fileno>> /\ UnchangedTac

\* getline; -l is done with the file at its first selected line.
ReadLine ==
  LET l == files[Name][lineno + 1] IN
  /\ AtFile /\ Name \in DOMAIN files /\ lineno < Len(files[Name])
  /\ IF ~Selected(l) THEN lineno' = lineno + 1 /\ UNCHANGED <<fileno, matches, output>>
     ELSE IF opts.l = "l" THEN NextFile(output \o Prints(lineno + 1) \o Totals(matches + 1))
     ELSE /\ output' = output \o Prints(lineno + 1)
          /\ matches' = matches + 1 /\ lineno' = lineno + 1
          /\ UNCHANGED fileno
  /\ UNCHANGED <<tool, opts, args, files>> /\ UnchangedTac

EndFile ==
  /\ AtFile /\ Name \in DOMAIN files /\ lineno = Len(files[Name])
  /\ NextFile(output \o Totals(matches))
  /\ UNCHANGED <<tool, opts, args, files>> /\ UnchangedTac

-----------------------------------------------------------------------------
(* tac: print_reversal *)

Newline == "nl"

\* Slip: no 0 is stored behind the line.
FlushUnended == tacOut' = Append(tacOut, Reverse(back)) /\ back' = <<>> /\ UNCHANGED tool

\* The buffer is turned round, and a 0 stored behind it; a store behind the
\* buffer is undefined, and the model ends there.
Flush == /\ tacOut' = Append(tacOut, Reverse(back)) /\ back' = <<>>
         /\ tool' = IF Len(back) >= LineMax THEN "overrun" ELSE tool

\* The first byte is taken even if it is a newline; empty lines print nothing.
TakeByte ==
  /\ tool = "tac" /\ pos > 0
  /\ pos' = pos - 1
  /\ IF text[pos] # Newline \/ pos = 1
     THEN /\ back' = Append(back, text[pos])
          /\ tool' = IF Len(back) >= LineMax THEN "overrun" ELSE tool
          /\ UNCHANGED tacOut
     ELSE IF back # <<>> THEN Flush ELSE UNCHANGED <<back, tacOut, tool>>
  /\ UNCHANGED text /\ UnchangedGrep

\* mmap() of no bytes fails; otherwise the first line is printed last.
EndTac ==
  /\ tool = "tac" /\ pos = 0
  /\ IF text = <<>> THEN tool' = "usage" /\ UNCHANGED <<back, tacOut>>
     ELSE /\ tacOut' = Append(tacOut, Reverse(back)) /\ back' = <<>>
          /\ tool' = IF Len(back) >= LineMax THEN "overrun" ELSE "printed"
  /\ UNCHANGED <<text, pos>> /\ UnchangedGrep

-----------------------------------------------------------------------------

ToolsNext == \/ TakeArgument \/ EndArguments \/ SkipFile \/ ReadLine \/ EndFile
             \/ TakeByte \/ EndTac

ToolsSpec == ToolsStart(TRUE) /\ [][ToolsNext]_tvars

-----------------------------------------------------------------------------
(* Properties *)

\* The tools are in states they have.
ToolsTypeOK ==
  /\ tool \in {"options", "usage", "grep", "tac", "printed", "overrun"}
  /\ args \in Seq(Argument)
  /\ opts.pats \in Seq(Word) /\ opts.names \in Seq(Word)
  /\ matches \in 0..lineno
  /\ pos \in 0..Len(text)

Found(f) == {n \in 1..Len(files[f]) : Selected(files[f][n])}

Tells(f, kind, what) == <<[kind |-> kind, file |-> f, what |-> what]>>

\* The selected ones of the first n lines of f.
LinesOf(f, n) ==
  FlattenSeq([m \in 1..n |-> IF Selected(files[f][m]) THEN Tells(f, "line", m) ELSE <<>>])

\* What the options say of f as a whole: with -l or -L its name, if it has or
\* does not have a selected line; with -c how many there are (none but the first
\* after -l); otherwise the lines.
Whole(f) ==
  LET named == \/ opts.l = "l" /\ Found(f) # {}
               \/ opts.l = "L" /\ Found(f) = {}
      counted == IF opts.l = "l" /\ Found(f) # {} THEN 1 ELSE Cardinality(Found(f)) IN
  IF f \notin DOMAIN files THEN <<>>
  ELSE IF opts.l = "none" /\ ~opts.c THEN LinesOf(f, Len(files[f]))
  ELSE (IF named THEN Tells(f, "name", 0) ELSE <<>>)
       \o (IF opts.c THEN Tells(f, "count", counted) ELSE <<>>)

\* What grep prints of its files, one after the other, is what its options say
\* of each file as a whole, although lines are printed, counted and skipped one
\* at a time.
GrepPrints ==
  tool = "grep" /\ fileno > Len(opts.names) =>
    output = FlattenSeq([k \in 1..Len(opts.names) |-> Whole(opts.names[k])])

\* Patterns overrun their array only if more different ones are given than it
\* has room for.
PatsOverrun ==
  tool = "overrun" /\ text = <<>> =>
    Cardinality({opts.pats[k] : k \in 1..Len(opts.pats)}) > MaxPats

\* The lines of a text that are not empty, by the places where they begin.  A
\* newline at the very beginning is taken for part of a line.
Inked(i) == i = 1 \/ text[i] # Newline
Begins == {i \in 1..Len(text) : i = 1 \/ (Inked(i) /\ ~Inked(i - 1))}
LineAt(i) ==
  LET ends == {j \in i..Len(text) : \A k \in i..j : Inked(k)}
  IN SubSeq(text, i, i + Cardinality(ends) - 1)

\* tac prints the lines that are not empty from the last to the first: each at
\* the place that the number of lines from it on gives.
TacReverses ==
  tool = "printed" =>
    /\ Len(tacOut) = Cardinality(Begins)
    /\ \A i \in Begins : tacOut[Cardinality({j \in Begins : j >= i})] = LineAt(i)

\* tac overruns its buffer if and only if a line leaves no room for the 0.
TacOverrun ==
  LET long == \E i \in Begins : Len(LineAt(i)) >= LineMax IN
  text # <<>> => (tool = "overrun" => long) /\ (tool = "printed" => ~long)

\* grep.c, with the store behind its patterns.
GrepRight == GrepPrints /\ PatsOverrun

\* tac.c, with the store behind its buffer.
TacRight == TacReverses /\ TacOverrun
=============================================================================
