------------------------------- MODULE MCTurn --------------------------------
(* An instance of Turn for TLC: documents of up to three segments in which *)
(* repl blocks stand next to each other, to prose that begins with a blank *)
(* line, to a block of another language and to one that is cut off.        *)
EXTENDS Turn

Plain == Segment("repl", <<"x">>)
Spaced == Segment("repl", <<Blank, "y", Blank, "z", Blank>>)
Python == Segment("other", <<"x">>)
Prose == Segment("prose", <<Blank, "text">>)
Cut == Segment("cut", <<Blank, "y">>)
OneBlock == {<<Plain>>}
Documents == OneBlock \cup
  {<<>>, <<Python, Prose, Cut>>, <<Prose, Spaced, Cut>>, <<Python, Spaced, Prose>>,
   <<Plain, Python, Spaced>>, <<Spaced, Plain>>}

LinesOfText == {"x", "y", "z", "text", Blank}
ASSUME DocumentsAssumption == \A doc \in Documents : WellFormed(doc)
=============================================================================
