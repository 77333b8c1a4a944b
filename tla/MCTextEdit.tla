----------------------------- MODULE MCTextEdit -----------------------------
(***************************************************************************)
(* Files of up to three lines, and calls that quote a snippet in one of    *)
(* the ways a model does.                                                  *)
(***************************************************************************)
EXTENDS TextEdit, TLC

CONSTANTS a, b

Joined(lines, eol) ==
  FlattenSeq([k \in DOMAIN lines |->
                IF k = 1 THEN lines[k] ELSE <<eol>> \o lines[k]])

\* One word at two indentations, another, and a blank line.
FileLines == {<<a>>, <<"sp", a>>, <<"sp", b>>, <<>>}

ThreeLines == SeqOf(FileLines, 3) \ {<<>>}

FewFiles ==
  {Joined(lines, "lf") \o <<"lf">> : lines \in ThreeLines}
    \cup {Joined(lines, "crlf") : lines \in {l \in ThreeLines : Len(l) > 1}}
    \cup {<<a, "esc", b, "lf", b>>, <<"sp", "num", a, "lf", b, "crlf", a, "crlf">>}

Snippets ==
  {<<a>>, <<"sp", "sp", b>>, <<a, "lf", a>>, <<"sp", b, "lf", "sp", a>>,
   <<"sp", "sp", a, "lf", b>>, <<b>>, <<a, "crlf", "sp", "sp", b>>}

NewSnippets ==
  {<<b>>, <<"sp", "sp", "sp", a>>, <<a, "lf", "sp", b>>, <<b, "lf">>,
   <<b, "lf", "lf">>}

Numbered(t) ==
  FlattenSeq([k \in DOMAIN splitLogicalLines(t) |->
                <<"num", "sp">> \o splitLogicalLines(t)[k]])

Fenced(t) == <<"fence", "lf">> \o t \o <<"lf", "fence">>

Escaped(t) == [i \in DOMAIN t |-> IF t[i] = "lf" THEN "esc" ELSE t[i]]

Quoted(t) == {t, Numbered(t), Fenced(t), Fenced(Numbered(t)), Escaped(t)}

\* A fence that names its language.
Tagged(t) == <<"fence", b, "lf">> \o t \o <<"lf", "fence">>

Expected == UNION {Quoted(t) : t \in Snippets} \cup {Tagged(<<a>>)}

Replacement ==
  UNION {Quoted(t) : t \in NewSnippets} \cup {<<>>, Tagged(<<b, "lf">>)}

Edit(expected, replacements) ==
  [expected |-> expected, replacements |-> replacements, from |-> 0, to |-> 0]

Edits ==
  {Edit(e, <<r>>) : e \in Expected, r \in Replacement}
    \cup {Edit(e, <<r, s>>) : e \in Snippets, r, s \in {<<b>>, <<a>>, <<b, "esc">>}}

Ranges ==
  {[expected |-> e, replacements |-> <<r>>, from |-> f, to |-> t] :
     e \in {<<>>, <<a, "lf">>}, r \in {<<>>, <<b>>, <<b, "lf">>, <<a, "esc">>},
     f \in 1 .. 2, t \in 1 .. 3}

AllCalls == Edits \cup Ranges

=============================================================================
