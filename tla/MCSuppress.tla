----------------------------- MODULE MCSuppress -----------------------------
(***************************************************************************)
(* Files of three items and a statement for TLC: comments with and without *)
(* the marker, blank lines, attributes of one line and of several,         *)
(* statements, and the end of a block.  An item is the sequence of its     *)
(* lines.  Three items are not what the walk takes for granted: a call of  *)
(* several lines, a comment with a `)`, and an attribute with a `}` on its *)
(* last line.                                                              *)
(***************************************************************************)
EXTENDS Suppress

Bare == [starts |-> "other", brace |-> FALSE, brackets |-> <<>>, marks |-> FALSE, part |-> "code",
         above |-> 0]
Statement == [Bare EXCEPT !.brackets = <<"open", "close">>]
Trailing == [Statement EXCEPT !.marks = TRUE]
EndOfBlock == [Bare EXCEPT !.brace = TRUE]
Blank == [Bare EXCEPT !.starts = "nothing", !.part = "blank"]
Comment == [Bare EXCEPT !.starts = "//", !.part = "comment"]
CommentBrace == [Comment EXCEPT !.brace = TRUE]
\* `// (so that`
CommentOpen == [Comment EXCEPT !.brackets = <<"open">>]
Marker == [Comment EXCEPT !.marks = TRUE]
Attribute == [Bare EXCEPT !.starts = "#[", !.part = "attribute",
                          !.brackets = <<"open", "open", "close", "close">>]

\* An attribute of several lines.
Opens == [Attribute EXCEPT !.part = "continued", !.brackets = <<"open", "open">>]
Continued(marks) == [Bare EXCEPT !.part = "continued", !.marks = marks, !.brace = ~marks, !.above = 2]
Closes == [Bare EXCEPT !.part = "continued", !.brackets = <<"close", "close">>, !.above = 2]
ClosesBrace == [Closes EXCEPT !.brace = TRUE]

\* `// b) then`, and a call with a marked argument.
CommentClose == [Comment EXCEPT !.brackets = <<"close">>]
CallOpens == [Bare EXCEPT !.brackets = <<"open">>]
Argument == [Bare EXCEPT !.marks = TRUE]
CallCloses == [Bare EXCEPT !.brackets = <<"close">>]

MCLine == {Statement, Trailing, EndOfBlock, Blank, Comment, CommentBrace, CommentOpen, Marker, Attribute,
           Opens, Continued(TRUE), Continued(FALSE), Closes, ClosesBrace,
           CommentClose, CallOpens, Argument, CallCloses}

Item == {<<Statement>>, <<Trailing>>, <<EndOfBlock>>, <<Blank>>, <<Comment>>, <<CommentBrace>>, <<CommentOpen>>,
         <<Marker>>, <<Attribute>>, <<Opens, Continued(TRUE), Closes>>, <<Opens, Continued(FALSE), Closes>>,
         <<Opens, Continued(TRUE), ClosesBrace>>, <<CommentClose>>, <<CallOpens, Argument, CallCloses>>}

MCSources == {a \o b \o c \o <<Statement>> : a \in Item, b \in Item, c \in Item}
============================================================================
