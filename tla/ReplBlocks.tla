----------------------------- MODULE ReplBlocks ------------------------------
(***************************************************************************)
(* FindCodeBlocks of internal/rlm/iteration.go: which lines of a response  *)
(* are code.  The regular expression takes an opening, then white space    *)
(* greedily up to a newline, then content lazily up to a newline and a     *)
(* fence; what it does to whole lines is a question of which lines are     *)
(* fences and which are blank.                                             *)
(* Below it, the documents a response is meant to be.                      *)
(***************************************************************************)
EXTENDS Integers, FiniteSetsExt, SequencesExt

Open == "open"      \* three backquotes and repl: the line that opens a block
Fence == "fence"    \* any other line that begins with three backquotes
Blank == "blank"    \* a line of white space; every other string is text

\* What closes a block is a newline and three backquotes, whatever follows: an opening line too.
IsFence(line) == line \in {Open, Fence}

\* Where the content may start after the opening line i (any number of blank lines may be taken
\* as white space), and the fence lines that may end it; there is at least one line between the two.
Starts(doc, i) == {s \in (i + 1)..Len(doc) : \A k \in (i + 1)..(s - 1) : doc[k] = Blank}
Ends(doc, s) == {e \in DOMAIN doc : e > s /\ IsFence(doc[e])}
Closed(doc, i) == {s \in Starts(doc, i) : Ends(doc, s) # {}}
Matches(doc, i) == doc[i] = Open /\ Closed(doc, i) # {}

\* Greedy white space prefers the latest start, lazy content the earliest end.
ContentStart(doc, i) == Max(Closed(doc, i))
ContentEndGreedy(doc, i) == Max(Ends(doc, ContentStart(doc, i)))
ContentEnd(doc, i) == Min(Ends(doc, ContentStart(doc, i)))

TrimSpace(lines) ==
  LET text == {k \in DOMAIN lines : lines[k] # Blank}
  IN  IF text = {} THEN <<>> ELSE SubSeq(lines, Min(text), Max(text))

\* FindAllStringSubmatch looks for the next match after the closing fence of the last.
FindCodeBlocks(doc) ==
  LET from[i \in 1..(Len(doc) + 1)] ==
        IF i > Len(doc) THEN <<>>
        ELSE IF Matches(doc, i)
          THEN <<TrimSpace(SubSeq(doc, ContentStart(doc, i), ContentEnd(doc, i) - 1))>>
                 \o from[ContentEnd(doc, i) + 1]
        ELSE from[i + 1]
  IN  from[1]

----------------------------------------------------------------------------
(* The reference: a document is a sequence of segments of lines.  A        *)
(* segment is prose, a repl block, a block of another language, or the     *)
(* block at which the response was cut off.                                *)

Segment(kind, lines) == [kind |-> kind, lines |-> lines]
Segments(Lines) == [kind : {"prose", "repl", "other", "cut"}, lines : Seq(Lines)]
Rendered(segment) ==
  CASE segment.kind = "prose" -> segment.lines
    [] segment.kind = "repl"  -> <<Open>> \o segment.lines \o <<Fence>>
    [] segment.kind = "other" -> <<Fence>> \o segment.lines \o <<Fence>>
    [] segment.kind = "cut"   -> <<Open>> \o segment.lines
Render(segments) == FlattenSeq([k \in DOMAIN segments |-> Rendered(segments[k])])

CodeIn(segment) == IF segment.kind = "repl" THEN <<TrimSpace(segment.lines)>> ELSE <<>>
CodeOf(segments) == FlattenSeq([k \in DOMAIN segments |-> CodeIn(segments[k])])

\* No line is a fence, no repl block is blank, and only the last block can be cut off.
WellFormed(segments) ==
  \A k \in DOMAIN segments :
    /\ \A j \in DOMAIN segments[k].lines : ~IsFence(segments[k].lines[j])
    /\ segments[k].kind = "repl" => TrimSpace(segments[k].lines) # <<>>
    /\ segments[k].kind = "cut" => k = Len(segments)
=============================================================================
