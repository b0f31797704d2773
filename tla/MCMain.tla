------------------------------- MODULE MCMain -------------------------------
(***************************************************************************)
(* Three kinds of runs for TLC: texts of every token with up to three      *)
(* brackets, for the guard; items with every text of five characters, for  *)
(* the ids; and small trees with findings in every format, for the report. *)
(***************************************************************************)
EXTENDS Main

MCFile == 1 .. 3
MCRule == 1 .. 5
MCLine == {7, 8}

T(kind, text) == [text |-> text, kind |-> kind]

Open == T("open", <<"(">>)
Close == T("close", <<")">>)
Word == T("word", <<"x">>)
Comma == T("other", <<"other">>)

MCTokens ==
  { Open, Close, Word, Comma,
    T("word", <<"x", "r">>),
    T("lifetime", <<"'", "x">>),
    T("literal", <<"'", "(", "'">>),
    T("literal", <<"'", "backslash", "'", "'">>),
    T("literal", <<"b", "'", ")", "'">>),
    T("literal", <<"quote", "(", "quote">>),
    T("literal", <<"quote", "backslash", "quote", "(", "quote">>),
    T("literal", <<"b", "quote", ")", "backslash", "backslash", "quote">>),
    T("literal", <<"r", "quote", "(", "quote">>),
    T("literal", <<"r", "#", "quote", "(", "quote", ")", "quote", "#">>),
    T("literal", <<"b", "r", "#", "#", "quote", "quote", "#", "(", "quote", "#", "#">>),
    T("comment", <<"/", "/", "(", "quote", "nl">>),
    T("comment", <<"/", "*", "(", "/", "*", ")", "*", "/", "'", "*", "/">>) }

\* Tokens of which the guard loses track: r"\" and a character of two bytes.
MCLost == { T("literal", <<"r", "quote", "backslash", "quote">>), T("literal", <<"'", "wide", "wide", "'">>) }

Nested(before, n, within) ==
  before \o [i \in 1 .. n |-> Open] \o within \o [i \in 1 .. n |-> Close]

AtMost(n, tokens) == UNION {[1 .. m -> tokens] : m \in 0 .. n}

File0(name) == [name |-> name, test |-> FALSE, readable |-> TRUE, tokens |-> <<>>, items |-> <<>>, findings |-> <<>>]

Input0 == [exists |-> TRUE, failOn |-> "high", format |-> "human", mainnet |-> FALSE, rpcUrl |-> FALSE,
           files |-> <<>>, late |-> <<>>]

Texts(tokens) ==
  { [Input0 EXCEPT !.files = <<[File0(1) EXCEPT !.tokens = text]>>] :
      text \in {t \in {Nested(before, n, within) : before \in AtMost(2, tokens), n \in 0 .. 3, within \in AtMost(1, tokens)} :
                  Writable(t)} }

----------------------------------------------------------------------------
Declared(text) == [within |-> <<>>, macro |-> "declare_id", literal |-> TRUE, text |-> text]

One == <<1, 0, 2>>       \* 11, an address of a small number
Two == <<0, 0, 1, 0>>

Ids ==
  { [Input0 EXCEPT !.files = <<[File0(1) EXCEPT !.items = items]>>] :
      items \in {<<Declared(text)>> : text \in AtMost(5, 0 .. Radix)}
                  \cup { <<[within |-> within, macro |-> macro, literal |-> literal, text |-> Zeros(Width)],
                           Declared(Zeros(Width))>> :
                         within \in AtMost(2, {"mod", "fn"}), macro \in {"declare_id", "other"}, literal \in BOOLEAN } }

----------------------------------------------------------------------------
Found(rule, severity, file, line) == [rule |-> rule, severity |-> severity, file |-> file, line |-> line]

Medium == Found(5, "medium", 1, 8)
Low == Found(3, "low", 1, 7)
High == Found(2, "high", 2, 7)
Overflow == Found(3, "medium", 3, 7)

TwoIds == <<Declared(Zeros(Width)), Declared(<<0, 0, 1>>)>>
First(items, findings) == [File0(1) EXCEPT !.items = items, !.findings = findings]
Second == [File0(2) EXCEPT !.findings = <<High>>]

\* What is found in a tree of two files, and what phase 2 adds.
Trees ==
  { [files |-> <<First(<<Declared(Zeros(Width))>>, <<Low, Medium>>), Second>>, late |-> <<>>],
    [files |-> <<First(TwoIds, <<Low, Low>>), [Second EXCEPT !.readable = FALSE]>>, late |-> <<>>],
    [files |-> <<[Second EXCEPT !.test = TRUE], First(TwoIds, <<>>)>>, late |-> <<Overflow>>],
    [files |-> <<First(TwoIds, <<>>), [Second EXCEPT !.readable = FALSE]>>, late |-> <<>>] }

Reports ==
  { [Input0 EXCEPT !.failOn = failOn, !.format = format, !.mainnet = asks = "mainnet", !.rpcUrl = asks = "url",
                   !.files = tree.files, !.late = tree.late] :
      failOn \in Severity \cup {"never"}, format \in Format, asks \in {"nobody", "mainnet", "url"}, tree \in Trees }
    \cup {[Input0 EXCEPT !.exists = FALSE]}

MCInputs == Texts(MCTokens) \cup Ids \cup Reports

MCNestings == Texts(MCLost)
============================================================================
