------------------------------ MODULE Nesting ------------------------------
(***************************************************************************)
(* The scan of src/parse.rs for the deepest nesting of brackets, which     *)
(* keeps texts away from the parser that would overflow its stack.         *)
(*                                                                         *)
(* A text is a sequence of characters; "(" is any opening bracket and ")"  *)
(* any closing one, "quote" is the double quotation mark, "x" any other    *)
(* letter, digit or underscore, "other" any other ASCII character, and     *)
(* "wide" a byte of a character that has several.  Positions count from    *)
(* one.                                                                    *)
(***************************************************************************)
EXTENDS Naturals, Sequences, FiniteSets, SequencesExt

Char == {"(", ")", "'", "quote", "backslash", "#", "/", "*", "nl", "r", "b", "x", "other", "wide"}

\* is_ascii_alphanumeric, or `_`
WordChar == {"r", "b", "x"}

CharAt(text, i) == IF i \in DOMAIN text THEN text[i] ELSE "end"

----------------------------------------------------------------------------
\* skip_line_comment: up to the end of the line.
SkipLineComment(text, at) ==
  Min({j \in at + 2 .. Len(text) + 1 : CharAt(text, j) \in {"nl", "end"}})

\* What n turns of a loop make of a state.  Every turn of the loops below moves on, so there are
\* no more of them than the text has characters, and further ones change nothing.
Turns(turn, state, n) ==
  LET Loop[k \in 0 .. n] == IF k = 0 THEN state ELSE turn[Loop[k - 1]]
  IN  Loop[n]

\* skip_block_comment: block comments nest.
BlockTurn(text) ==
  [s \in [at : Nat, open : Nat] |->
     IF s.at > Len(text) \/ s.open = 0 THEN s
     ELSE CASE CharAt(text, s.at) = "/" /\ CharAt(text, s.at + 1) = "*" -> [at |-> s.at + 2, open |-> s.open + 1]
            [] CharAt(text, s.at) = "*" /\ CharAt(text, s.at + 1) = "/" -> [at |-> s.at + 2, open |-> s.open - 1]
            [] OTHER -> [at |-> s.at + 1, open |-> s.open]]

SkipBlockComment(text, at) == Turns(BlockTurn(text), [at |-> at + 2, open |-> 1], Len(text)).at

\* string_body_start: the prefix `b`, `r`, `#` of a string literal at a position.
StringBody(text, at) ==
  LET afterB == IF CharAt(text, at) = "b" THEN at + 1 ELSE at
      raw == CharAt(text, afterB) = "r"
      afterR == IF raw THEN afterB + 1 ELSE afterB
      quote == IF raw THEN Min({j \in afterR .. Len(text) + 1 : CharAt(text, j) # "#"}) ELSE afterR
  IN  [found |-> CharAt(text, quote) = "quote", from |-> quote + 1, hashes |-> quote - afterR]

\* starts_string: not inside an identifier.
StartsString(text, at) ==
  /\ CharAt(text, at) \in {"r", "b"}
  /\ CharAt(text, at - 1) \notin WordChar
  /\ StringBody(text, at).found

\* Mutant of SkipQuoted: a backslash hides nothing.
SkipToQuote(text, from, hashes) ==
  LET Ends == {i \in from .. Len(text) : text[i] = "quote"}
  IN  IF Ends = {} THEN Len(text) + 1 ELSE Min(Ends) + 1 + hashes

\* skip_quoted: no hashes means that escapes apply; fewer may follow at the end of the text.
QuotedTurn(text, hashes) ==
  [s \in [at : Nat, open : Nat] |->
     IF s.at > Len(text) \/ s.open = 0 THEN s
     ELSE CASE hashes = 0 /\ CharAt(text, s.at) = "backslash" -> [at |-> s.at + 2, open |-> 1]
            [] CharAt(text, s.at) = "quote" /\ \A h \in 1 .. hashes : CharAt(text, s.at + h) \in {"#", "end"} ->
                 [at |-> s.at + 1 + hashes, open |-> 0]
            [] OTHER -> [at |-> s.at + 1, open |-> 1]]

SkipQuoted(text, from, hashes) == Turns(QuotedTurn(text, hashes), [at |-> from, open |-> 1], Len(text)).at

\* skip_char_literal: past a literal of one character or one escape; else a lifetime.
SkipCharLiteral(text, at) ==
  LET close == IF CharAt(text, at + 1) = "backslash" THEN at + 3 ELSE at + 2
  IN  IF CharAt(text, close) = "'" THEN close + 1 ELSE at + 1

\* One turn of the loop: where it goes on.
After(text, i) ==
  CASE text[i] = "/" /\ CharAt(text, i + 1) = "/" -> SkipLineComment(text, i)
    [] text[i] = "/" /\ CharAt(text, i + 1) = "*" -> SkipBlockComment(text, i)
    [] text[i] = "quote"                           -> SkipQuoted(text, i + 1, 0)
    [] StartsString(text, i)                      -> LET body == StringBody(text, i)
                                                     IN  SkipQuoted(text, body.from, body.hashes)
    [] text[i] = "'"                              -> SkipCharLiteral(text, i)
    [] OTHER                                      -> i + 1

\* max_delimiter_depth: a closing bracket too many leaves the depth at zero.
ScanTurn(text) ==
  [s \in [at : Nat, depth : Nat, deepest : Nat] |->
     IF s.at \notin DOMAIN text THEN s
     ELSE CASE text[s.at] = "(" ->
                 [at |-> s.at + 1, depth |-> s.depth + 1,
                  deepest |-> IF s.depth + 1 > s.deepest THEN s.depth + 1 ELSE s.deepest]
            [] text[s.at] = ")" ->
                 [at |-> s.at + 1, depth |-> IF s.depth = 0 THEN 0 ELSE s.depth - 1, deepest |-> s.deepest]
            [] OTHER -> [at |-> After(text, s.at), depth |-> s.depth, deepest |-> s.deepest]]

MaxDelimiterDepth(text) ==
  Turns(ScanTurn(text), [at |-> 1, depth |-> 0, deepest |-> 0], Len(text)).deepest

----------------------------------------------------------------------------
(***************************************************************************)
(* The reference: a text is written token by token, and only brackets that *)
(* are tokens nest.  A token is its characters and its kind; a "word" is   *)
(* an identifier, a keyword or a number.                                   *)
(***************************************************************************)
Token == [text : Seq(Char), kind : {"open", "close", "word", "lifetime", "literal", "comment", "other"}]

Source(tokens) == FlattenSeq([i \in DOMAIN tokens |-> tokens[i].text])

\* The positions between from and to that a backslash hides, which is not hidden itself.
IsHidden(hidden, text, from, to) ==
  \A i \in from .. to : i \in hidden <=> i > from /\ text[i - 1] = "backslash" /\ i - 1 \notin hidden

\* A string literal whose body is text[from .. to], behind `"` and before `"` and hashes: only
\* what a backslash hides may be a quotation mark, and the one that ends it is not hidden.
Escaped(text, from, to) ==
  \E hidden \in SUBSET (from .. to + 1) :
    /\ IsHidden(hidden, text, from, to + 1)
    /\ to + 1 \notin hidden
    /\ \A i \in from .. to : text[i] = "quote" => i \in hidden

\* And a raw one: every quotation mark has too few hashes behind it.
Raw(text, from, to, hashes) ==
  \A i \in from .. to : text[i] = "quote" => \E h \in 1 .. hashes : text[i + h] # "#"

\* "x", b"x", r#"x"#, br#"x"#.  A backslash at the end of a raw string without
\* hashes is none: the guard takes it for an escape.
IsString(text) ==
  \E b, r \in {0, 1}, hashes \in 0 .. Len(text) :
    LET quote == b + r + hashes + 1
        last == Len(text) - hashes
    IN  /\ quote < last /\ text[quote] = "quote" /\ text[last] = "quote"
        /\ b = 1 => text[1] = "b"
        /\ r = 1 => text[b + 1] = "r" /\ Raw(text, quote + 1, last - 1, hashes)
        /\ hashes > 0 => r = 1
        /\ hashes = 0 => Escaped(text, quote + 1, last - 1)
        /\ \A i \in (b + r + 1 .. quote - 1) \cup (last + 1 .. Len(text)) : text[i] = "#"

\* 'x', b'x' and escapes of one character.
IsCharacter(text) ==
  \E b \in {0, 1} :
    /\ b = 1 => text[1] = "b"
    /\ Len(text) > b + 2 /\ text[b + 1] = "'" /\ text[Len(text)] = "'"
    /\ \/ Len(text) = b + 3 /\ text[b + 2] \notin {"'", "backslash", "nl", "wide"}
       \/ Len(text) = b + 4 /\ text[b + 2] = "backslash" /\ text[b + 3] # "wide"

IsLineComment(text) ==
  /\ Len(text) > 2 /\ text[1] = "/" /\ text[2] = "/" /\ text[Len(text)] = "nl"
  /\ \A i \in 3 .. Len(text) - 1 : text[i] # "nl"

Opens(text, i) == text[i] = "/" /\ text[i + 1] = "*"
Closes(text, i) == text[i] = "*" /\ text[i + 1] = "/"

\* Where the marks of block comments are, none overlapping the one before.
AreMarks(marks, text) ==
  \A i \in 1 .. Len(text) - 1 : i \in marks <=> (Opens(text, i) \/ Closes(text, i)) /\ i - 1 \notin marks

IsBlockComment(text) ==
  \E marks \in SUBSET {i \in 1 .. Len(text) - 1 : Opens(text, i) \/ Closes(text, i)} :
    LET Opened(n) == Cardinality({i \in 1 .. n : i \in marks /\ Opens(text, i)})
        Closed(n) == Cardinality({i \in 1 .. n : i \in marks /\ ~Opens(text, i)})
    IN  /\ AreMarks(marks, text)
        /\ Len(text) > 3 /\ Opens(text, 1) /\ Len(text) - 1 \in marks
        /\ \A n \in 1 .. Len(text) - 2 : Closed(n) < Opened(n)
        /\ Closed(Len(text) - 1) = Opened(Len(text) - 1)

IsWord(text) == text # <<>> /\ \A i \in DOMAIN text : text[i] \in WordChar

\* The tokens that the guard keeps track of.
IsLexeme(t) ==
  \/ t.kind = "open" /\ t.text = <<"(">>
  \/ t.kind = "close" /\ t.text = <<")">>
  \/ t.kind = "word" /\ IsWord(t.text)
  \/ t.kind = "lifetime" /\ Len(t.text) > 1 /\ t.text[1] = "'" /\ IsWord(Tail(t.text))
  \/ t.kind = "literal" /\ (IsString(t.text) \/ IsCharacter(t.text))
  \/ t.kind = "comment" /\ (IsLineComment(t.text) \/ IsBlockComment(t.text))
  \/ t.kind = "other" /\ Len(t.text) = 1 /\ t.text[1] \in {"other", "#", "/", "*", "nl"}

\* Two tokens that stay apart when one is written right behind the other.
Apart(t, u) ==
  /\ t.kind \in {"word", "lifetime", "literal"} => u.text[1] \notin WordChar
  /\ t.kind \in {"word", "lifetime"} => u.text[1] \notin {"'", "quote", "#"}
  /\ t.kind = "other" /\ t.text[1] = "/" => u.text[1] \notin {"/", "*"}

Writable(tokens) == \A i \in DOMAIN tokens : i > 1 => Apart(tokens[i - 1], tokens[i])

Lexed(tokens) == Writable(tokens) /\ \A i \in DOMAIN tokens : IsLexeme(tokens[i])

\* How many brackets are open behind the first n tokens.
Height(tokens, n) ==
  LET Count(kind) == Cardinality({i \in 1 .. n : tokens[i].kind = kind})
  IN  Count("open") - Count("close")

Balanced(tokens) ==
  /\ \A n \in 0 .. Len(tokens) : Cardinality({i \in 1 .. n : tokens[i].kind = "close"})
                                   <= Cardinality({i \in 1 .. n : tokens[i].kind = "open"})
  /\ Height(tokens, Len(tokens)) = 0

\* How deep a parser descends into a balanced text.
Nests(tokens) == Max({Height(tokens, n) : n \in 0 .. Len(tokens)})
============================================================================
