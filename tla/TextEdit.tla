------------------------------- MODULE TextEdit -------------------------------
(***************************************************************************)
(* How edit_repo_file and replace_repo_lines change a file of the staged   *)
(* repository (lib/sandbox.ts).  A model writes the text it wants replaced *)
(* from memory: with other indentation or line endings, as read_file has   *)
(* numbered it, in a Markdown fence, or with escaped line breaks.  The     *)
(* code tries readings of both texts until one is found in the file.       *)
(*                                                                         *)
(* A text is a sequence of tokens: words, one unit of indentation ("sp"),  *)
(* line endings, an escaped line break ("esc", a backslash and an n), a    *)
(* Markdown fence and a line number with its colon ("num").                *)
(***************************************************************************)
EXTENDS Integers, SequencesExt, FiniteSetsExt

CONSTANTS
  Words,        \* the words of the files and the calls
  Files,        \* contents a file may have at first
  Calls,        \* what a model may ask for, a set of Call
  MaxCalls,     \* bound: calls of a behaviour
  MaxFileSize   \* policy.maxSnapshotBytes, in tokens

Eols == {"lf", "crlf"}

Token == Words \cup Eols \cup {"sp", "esc", "fence", "num"}

\* A call names the lines from .. to, or none (0, 0) for edit_repo_file, which
\* takes the replacement under one name or several.
Call ==
  {c \in [expected : Seq(Token), replacements : Seq(Seq(Token)),
          from : Nat, to : Nat] :
     c.from > 0 => Len(c.replacements) = 1}

ASSUME EditAssumption ==
  /\ Words \cap (Eols \cup {"sp", "esc", "fence", "num"}) = {}
  /\ \A t \in Files : t \in Seq(Token) /\ Len(t) <= MaxFileSize
  /\ Calls \subseteq Call
  /\ MaxCalls \in Nat /\ MaxFileSize \in Nat

VARIABLES
  file,   \* the content of the file
  last,   \* the last call, what it met and what came of it
  calls   \* the number of calls

vars == <<file, last, calls>>

-----------------------------------------------------------------------------
\* Lines and white space.

Has(t, S) == \E i \in DOMAIN t : t[i] \in S

\* A token goes to the last line, or begins one if that has its ending.
AddToLines(lines, x) ==
  IF lines = <<>> \/ Last(Last(lines)) \in Eols
    THEN Append(lines, <<x>>)
    ELSE Append(Front(lines), Append(Last(lines), x))

\* Every line with its ending; the last may have none.
splitLogicalLines(t) ==
  LET upTo[i \in 0 .. Len(t)] ==
        IF i = 0 THEN <<>> ELSE AddToLines(upTo[i - 1], t[i])
  IN  upTo[Len(t)]

TextOf(line) == IF Has(line, Eols) THEN Front(line) ELSE line

EolOf(line) == IF Has(line, Eols) THEN <<Last(line)>> ELSE <<>>

\* t without tokens of S at its ends.
TrimOf(t, S) ==
  LET kept == {i \in DOMAIN t : t[i] \notin S}
  IN  IF kept = {} THEN <<>> ELSE SubSeq(t, Min(kept), Max(kept))

Trimmed(line) == TrimOf(TextOf(line), {"sp"})

Indentation(line) ==
  LET body == {i \in DOMAIN line : line[i] # "sp"}
  IN  IF body = {} THEN Len(line) ELSE Min(body) - 1

DropFirst(t, n) == SubSeq(t, n + 1, Len(t))

dominantEol(t) ==
  IF Cardinality({i \in DOMAIN t : t[i] = "crlf"})
       > Cardinality({i \in DOMAIN t : t[i] = "lf"}) THEN "crlf" ELSE "lf"

normalizeLineEndings(t, eol) ==
  [i \in DOMAIN t |-> IF t[i] \in Eols THEN eol ELSE t[i]]

Occurrences(t, s) ==
  {i \in 1 .. Len(t) + 1 - Len(s) : SubSeq(t, i, i + Len(s) - 1) = s}

\* Occurrences of s that do not overlap, from the left.
countOccurrences(t, s) ==
  LET found == Occurrences(t, s)
      countFrom[i \in Nat] ==
        LET next == {k \in found : k >= i}
        IN  IF next = {} THEN 0 ELSE 1 + countFrom[Min(next) + Len(s)]
  IN  countFrom[1]

\* t with r in place of the n tokens from i on.
Spliced(t, i, n, r) == SubSeq(t, 1, i - 1) \o r \o DropFirst(t, i + n - 1)

-----------------------------------------------------------------------------
\* Readings of the texts of a call.

decodeEscapedText(t) ==
  [i \in DOMAIN t |-> IF t[i] = "esc" THEN "lf" ELSE t[i]]

\* An escaped line break is followed by indentation and code, or by nothing.
BreaksCode(t) ==
  \E i \in DOMAIN t :
    /\ t[i] = "esc"
    /\ LET rest == DropFirst(t, i)
           code == DropFirst(rest, Indentation(rest))
       IN  code = <<>> \/ Head(code) \in Words \cup {"fence"}

shouldPreferDecodedReplacement(t, expected, replacement) ==
  /\ Has(replacement, {"esc"})
  /\ countOccurrences(t, expected) = 1
  /\ ~Has(replacement, Eols)
  /\ Has(expected, Eols) \/ BreaksCode(replacement)

stripMarkdownFence(t) ==
  LET fenced == TrimOf(t, Eols \cup {"sp"})
      breaks == {i \in DOMAIN fenced : fenced[i] \in Eols}
  IN  IF /\ fenced # <<>> /\ Head(fenced) = "fence" /\ Last(fenced) = "fence"
         /\ Cardinality(breaks) >= 2 /\ Max(breaks) = Len(fenced) - 1
        THEN SubSeq(fenced, Min(breaks) + 1, Len(fenced) - 2)
        ELSE t

IsNumbered(line) ==
  Indentation(line) < Len(line) /\ line[Indentation(line) + 1] = "num"

\* The number goes with the space that read_file puts behind it.
WithoutNumber(line) ==
  LET rest == DropFirst(line, Indentation(line) + 1)
  IN  IF ~IsNumbered(line) THEN line
      ELSE IF rest # <<>> /\ Head(rest) = "sp" THEN Tail(rest) ELSE rest

\* Mutant: only the first line is stripped of its number.
StripFirstLine(t) == IF t # <<>> /\ IsNumbered(t) THEN WithoutNumber(t) ELSE t

AllNumbered(lines) ==
  LET written == {k \in DOMAIN lines : Trimmed(lines[k]) # <<>>}
  IN  written # {} /\ \A k \in written : IsNumbered(lines[k])

stripNumberedLinePrefixes(t) ==
  LET lines == splitLogicalLines(t)
  IN  IF AllNumbered(lines)
        THEN FlattenSeq([k \in DOMAIN lines |-> WithoutNumber(lines[k])])
        ELSE t

Reading(expected, replacement, strategy) ==
  [expected |-> expected, replacement |-> replacement, strategy |-> strategy]

Unnumbered(v) ==
  Reading(stripNumberedLinePrefixes(v.expected),
          stripNumberedLinePrefixes(v.replacement), "numbered")

WithLineEndings(v, eol) ==
  Reading(normalizeLineEndings(v.expected, eol),
          normalizeLineEndings(v.replacement, eol), "line_endings")

\* The readings in the order in which they are tried.
buildTextReplacementVariants(t, e, r) ==
  LET preferred ==
        IF shouldPreferDecodedReplacement(t, e, r)
          THEN <<Reading(e, decodeEscapedText(r), "decoded")>> ELSE <<>>
      decoded ==
        IF Has(e, {"esc"}) \/ Has(r, {"esc"})
          THEN <<Reading(decodeEscapedText(e), decodeEscapedText(r), "decoded")>>
          ELSE <<>>
      unfenced == Reading(stripMarkdownFence(e), stripMarkdownFence(r), "fenced")
      exact == Reading(e, r, "exact")
      written == preferred \o decoded
                   \o <<exact, unfenced, Unnumbered(exact), Unnumbered(unfenced)>>
  IN  written \o [k \in DOMAIN written |->
                    WithLineEndings(written[k], dominantEol(t))]

-----------------------------------------------------------------------------
\* Replacing.

\* Mutant: the indentation of the replacement is kept as it is written.
KeepIndentation(replaced, expected, current) == TextOf(replaced)

\* What the replacement is indented beyond the expected line is kept.
adjustIndentation(replaced, expected, current) ==
  LET extra == Indentation(TextOf(replaced)) - Indentation(TextOf(expected))
  IN  [i \in 1 .. Indentation(TextOf(current)) + (IF extra > 0 THEN extra ELSE 0)
         |-> "sp"]
        \o DropFirst(TextOf(replaced), Indentation(TextOf(replaced)))

\* Mutant: the other lines of the block are not compared.
BlocksByFirstLine(lines, expected) ==
  {k \in 1 .. Len(lines) + 1 - Len(expected) :
     Trimmed(lines[k]) = Trimmed(expected[1])}

\* Where the lines of expected stand in those of the file, but for indentation.
Blocks(lines, expected) ==
  {k \in 1 .. Len(lines) + 1 - Len(expected) :
     \A n \in DOMAIN expected :
       Trimmed(lines[k + n - 1]) = Trimmed(expected[n])}

\* No line is blank, and the block is found once.
BlockReplaceable(lines, expected, replaced) ==
  /\ Len(replaced) = Len(expected)
  /\ \A n \in DOMAIN expected : Trimmed(expected[n]) # <<>>
  /\ Cardinality(Blocks(lines, expected)) = 1

BlockReplacedAt(start, lines, expected, replaced) ==
  FlattenSeq([k \in DOMAIN lines |->
    IF k \in start .. start + Len(expected) - 1
      THEN adjustIndentation(replaced[k - start + 1],
                             expected[k - start + 1], lines[k])
             \o EolOf(lines[k])
      ELSE lines[k]])

Outcome(outcome, content, strategy) ==
  [outcome |-> outcome, content |-> content, strategy |-> strategy]

Edited(content, strategy) == Outcome("edited", content, strategy)

NotUnique == Outcome("not_unique", <<>>, "none")

Ambiguous == Outcome("ambiguous", <<>>, "none")

Failed == Outcome("failed", <<>>, "none")

UsableReadings(readings) ==
  {k \in DOMAIN readings :
     readings[k].expected # <<>> /\ readings[k].expected # readings[k].replacement}

\* A reading whose lines are found once but for their indentation.
BlockReplaced(t, v) ==
  LET lines == splitLogicalLines(t)
      expected == splitLogicalLines(v.expected)
      replaced == splitLogicalLines(v.replacement)
  IN  IF BlockReplaceable(lines, expected, replaced)
        THEN Edited(BlockReplacedAt(Min(Blocks(lines, expected)), lines,
                                    expected, replaced), "indentation")
        ELSE NotUnique

\* The first such reading.
IndentationFallback(t, readings) ==
  LET fitting == {k \in UsableReadings(readings) :
                    BlockReplaced(t, readings[k]) # NotUnique}
  IN  IF fitting = {} THEN NotUnique ELSE BlockReplaced(t, readings[Min(fitting)])

ReplaceOnce(t, v) ==
  IF countOccurrences(t, v.expected) > 1 THEN NotUnique
  ELSE Edited(Spliced(t, Min(Occurrences(t, v.expected)),
                      Len(v.expected), v.replacement), v.strategy)

\* The first reading that occurs in the file decides; if none does, the first
\* whose lines are found once but for their indentation.
ReplacedBy(t, readings) ==
  LET found == {k \in UsableReadings(readings) :
                  Occurrences(t, readings[k].expected) # {}}
  IN  IF found # {} THEN ReplaceOnce(t, readings[Min(found)])
      ELSE IndentationFallback(t, readings)

buildTextReplacement(t, expected, replacement) ==
  ReplacedBy(t, buildTextReplacementVariants(t, expected, replacement))

EditsMade(t, plans) ==
  {k \in DOMAIN plans : plans[k].outcome = "edited" /\ plans[k].content # t}

\* Mutant: the first replacement that can be made is made.
FirstPlan(t, plans) ==
  IF EditsMade(t, plans) # {} THEN plans[Min(EditsMade(t, plans))] ELSE NotUnique

AgreedPlan(t, plans) ==
  LET contents == {plans[k].content : k \in EditsMade(t, plans)}
  IN  IF Cardinality(contents) = 1 THEN plans[Min(EditsMade(t, plans))]
      ELSE IF Cardinality(contents) > 1 THEN Ambiguous
      ELSE IF \E k \in DOMAIN plans : plans[k].outcome = "not_unique" THEN NotUnique
      ELSE Failed

\* The model may give the replacement under several names.
buildTextReplacementFromCandidates(t, expected, replacements) ==
  AgreedPlan(t, [k \in DOMAIN replacements |->
                   buildTextReplacement(t, expected, replacements[k])])

WithinLimit(t, r) == IF Len(r.content) > MaxFileSize THEN Failed ELSE r

\* Mutant: the line behind the range is dropped.
RangeOneMore(t, c) ==
  LET lines == splitLogicalLines(t)
      kept(from, to) == FlattenSeq(SubSeq(lines, from, to))
  IN  kept(1, c.from - 1)
        \o normalizeLineEndings(decodeEscapedText(c.replacements[1]), dominantEol(t))
        \o kept(c.to + 2, Len(lines))

\* Mutant: the replacement is written with the line endings it came with.
RangeAsWritten(t, c) ==
  LET lines == splitLogicalLines(t)
      kept(from, to) == FlattenSeq(SubSeq(lines, from, to))
  IN  kept(1, c.from - 1) \o decodeEscapedText(c.replacements[1])
        \o kept(c.to + 1, Len(lines))

RangeReplaced(t, c) ==
  LET lines == splitLogicalLines(t)
      kept(from, to) == FlattenSeq(SubSeq(lines, from, to))
  IN  kept(1, c.from - 1)
        \o normalizeLineEndings(decodeEscapedText(c.replacements[1]), dominantEol(t))
        \o kept(c.to + 1, Len(lines))

\* An empty expected text stands for none.
RangeAsExpected(t, c) ==
  LET selected == FlattenSeq(SubSeq(splitLogicalLines(t), c.from, c.to))
  IN  c.expected # <<>> =>
        selected = normalizeLineEndings(c.expected, dominantEol(t))

replaceSandboxLines(t, c) ==
  LET inFile == c.from <= c.to /\ c.to <= Len(splitLogicalLines(t))
  IN  IF inFile /\ RangeAsExpected(t, c) /\ RangeReplaced(t, c) # t
        THEN WithinLimit(t, Edited(RangeReplaced(t, c), "line_range"))
        ELSE Failed

replaceSandboxTextWithCandidates(t, c) ==
  WithinLimit(t, buildTextReplacementFromCandidates(t, c.expected, c.replacements))

-----------------------------------------------------------------------------

NoCall == [before |-> <<>>, result |-> Failed,
           call |-> [expected |-> <<>>, replacements |-> <<>>, from |-> 0, to |-> 0]]

Init == file \in Files /\ last = NoCall /\ calls = 0

\* A call that edits nothing answers with a diagnosis or throws.
Answer(c, r) ==
  /\ calls < MaxCalls
  /\ calls' = calls + 1
  /\ last' = [before |-> file, result |-> r, call |-> c]
  /\ file' = IF r.outcome = "edited" THEN r.content ELSE file

EditRepoFile(c) ==
  /\ c.from = 0
  /\ Answer(c, replaceSandboxTextWithCandidates(file, c))

ReplaceRepoLines(c) ==
  /\ c.from > 0
  /\ Answer(c, replaceSandboxLines(file, c))

Next == \E c \in Calls : EditRepoFile(c) \/ ReplaceRepoLines(c)

Spec == Init /\ [][Next]_vars

-----------------------------------------------------------------------------

HasEdited == last.result.outcome = "edited"

TextReplaced == HasEdited /\ last.call.from = 0

WordsOf(t) ==
  FlattenSeq([i \in DOMAIN t |-> IF t[i] \in Words THEN <<t[i]>> ELSE <<>>])

\* old is replaced by new as the call says, with what it says of itself, like
\* the language of a fence, or without.
AsAsked(old, new, e, r) ==
  \/ WordsOf(old) = WordsOf(e) /\ WordsOf(new) = WordsOf(r)
  \/ /\ WordsOf(old) = WordsOf(stripMarkdownFence(e))
     /\ WordsOf(new) = WordsOf(stripMarkdownFence(r))

\* s stands at i and nowhere else in t but where it overlaps itself there.
FoundOnlyAt(t, s, i) ==
  s # <<>> /\ \A k \in Occurrences(t, s) : i <= k /\ k < i + Len(s)

\* Whatever reading was taken, an edit replaces one stretch of the file that
\* says what was expected by one that says what was asked for, and leaves the
\* rest of the file alone; unless it was found in spite of its indentation, the
\* stretch does not occur a second time (buildTextReplacement,
\* replaceIndentationInsensitiveBlock).
ReplacedAsAsked ==
  TextReplaced =>
    \E i \in 1 .. Len(last.before) + 1 :
      \E n \in 0 .. Len(last.before) + 1 - i :
        LET size == Len(file) + n - Len(last.before)
            old == SubSeq(last.before, i, i + n - 1)
            new == SubSeq(file, i, i + size - 1)
        IN  /\ size >= 0
            /\ file = Spliced(last.before, i, n, new)
            /\ \E r \in Range(last.call.replacements) :
                 AsAsked(old, new, last.call.expected, r)
            /\ last.result.strategy # "indentation" =>
                 FoundOnlyAt(last.before, old, i)

Quoting(t) == {x \in {"fence", "num", "esc"} : Has(t, {x})}

\* Every line as read_file numbers it.
NumberedText(t) ==
  LET lines == splitLogicalLines(t)
  IN  \A k \in DOMAIN lines :
        /\ Len(lines[k]) >= 2 /\ lines[k][1] = "num" /\ lines[k][2] = "sp"
        /\ ~Has(DropFirst(lines[k], 2), {"num"})

\* A fence, whose first line ends at i and may name a language.
FencedText(t, i) ==
  /\ i \in 2 .. Len(t) - 2
  /\ t[1] = "fence" /\ t[Len(t)] = "fence"
  /\ t[i] \in Eols /\ t[Len(t) - 1] \in Eols
  /\ \A j \in 2 .. i - 1 : t[j] \in Words

FenceBody(t, i) == SubSeq(t, i + 1, Len(t) - 2)

\* How a model quotes a text: as it is, with the numbers of its lines, in a
\* fence, or both.
QuotedAs(t, style) ==
  CASE style = "plain" -> ~Has(t, {"fence", "num"})
    [] style = "numbered" -> NumberedText(t) /\ ~Has(t, {"fence"})
    [] style = "fenced" ->
         \E i \in DOMAIN t : FencedText(t, i) /\ ~Has(FenceBody(t, i), {"fence", "num"})
    [] style = "fenced_numbered" ->
         \E i \in DOMAIN t : /\ FencedText(t, i)
                             /\ NumberedText(FenceBody(t, i))
                             /\ ~Has(FenceBody(t, i), {"fence"})

QuotedAlike(t, u) ==
  \E style \in {"plain", "numbered", "fenced", "fenced_numbered"} :
    QuotedAs(t, style) /\ QuotedAs(u, style)

\* A model that quotes both texts alike, in a fence, with line numbers or with
\* escaped line breaks, never has that quoting written to a file that had none
\* (buildTextReplacementVariants).
QuotingIsNotWritten ==
  TextReplaced /\ (\A r \in Range(last.call.replacements) :
                      QuotedAlike(last.call.expected, r))
    => Quoting(file) \cap Quoting(last.call.expected) \subseteq Quoting(last.before)

\* Where lines were found in spite of their indentation, no line of the file
\* loses indentation or changes its ending, none is added, and none is lost but
\* a last line without an ending that was replaced by an empty one
\* (adjustIndentation).
BlockKeepsLayout ==
  last.result.strategy = "indentation" =>
    LET old == splitLogicalLines(last.before)
        new == splitLogicalLines(file)
    IN  /\ Len(new) <= Len(old)
        /\ \A k \in DOMAIN old :
             IF k \in DOMAIN new
               THEN /\ Indentation(TextOf(new[k])) >= Indentation(TextOf(old[k]))
                    /\ EolOf(new[k]) = EolOf(old[k])
               ELSE k = Len(old) /\ EolOf(old[k]) = <<>>

\* The order in which a model gives several replacements decides nothing: an
\* edit is made only if all that can be made agree
\* (buildTextReplacementFromCandidates).
AliasOrderIsIrrelevant ==
  TextReplaced =>
    replaceSandboxTextWithCandidates(last.before,
      [last.call EXCEPT !.replacements = Reverse(@)]).content = file

\* A file with one kind of line ending keeps it when lines are replaced by
\* number, by block, or after the endings of the call were normalised
\* (replaceSandboxLines; tests: "preserves dominant line endings").
LineEndingsKept ==
  last.result.strategy \in {"line_range", "line_endings", "indentation"} /\
  Cardinality(Range(last.before) \cap Eols) = 1
    => Range(file) \cap Eols \subseteq Range(last.before)

\* The lines around the range stay what they were, if the replacement is made
\* of complete lines (replace_repo_lines: "Include complete replacement lines").
RangeIsReplaced ==
  last.result.strategy = "line_range" =>
    LET old == splitLogicalLines(last.before)
        new == splitLogicalLines(file)
        r == last.call.replacements[1]
    IN  /\ IsPrefix(SubSeq(old, 1, last.call.from - 1), new)
        /\ (r = <<>> \/ Last(r) \in Eols \cup {"esc"}) =>
             IsSuffix(SubSeq(old, last.call.to + 1, Len(old)), new)

\* edit_repo_file: it replaces "exact text that occurs exactly once".  The code
\* counts occurrences that do not overlap.
MatchedExactlyOnce ==
  TextReplaced =>
    Cardinality(Occurrences(last.before, last.call.expected)) <= 1

=============================================================================
