------------------------------- MODULE Lexer -------------------------------
(***************************************************************************)
(* The tokens of the self-hosted C front end                               *)
(* (selfhost/src/frontend/lexer.c).  A source text is a string; positions  *)
(* count from 1.  The kind of a keyword or a punctuator is its spelling.   *)
(***************************************************************************)
EXTENDS SequencesExt, Words

Characters(s) == {SubSeq(s, i, i) : i \in 1 .. Len(s)}

Printable == "#$%&'()*+,-./0123456789:;<=>?@ABCDEFGHIJKLMNOPQRSTUVWXYZ"

Small == "abcdefghijklmnopqrstuvwxyz{|}~"

CodesFrom(s, first) ==
    [c \in Characters(s) |-> first - 1 + CHOOSE i \in 1 .. Len(s) : SubSeq(s, i, i) = c]

\* The characters a program is written in, with their codes.
Code ==
    CodesFrom(Printable, 35) @@ CodesFrom(Small, 97)
    @@ (" " :> 32 @@ "!" :> 33 @@ "\"" :> 34 @@ "[" :> 91 @@ "\\" :> 92 @@ "]" :> 93
        @@ "^" :> 94 @@ "_" :> 95 @@ "\t" :> 9 @@ "\n" :> 10 @@ "\r" :> 13)

Blanks == {" ", "\t", "\r", "\n"}
Letters == Characters("_ABCDEFGHIJKLMNOPQRSTUVWXYZabcdefghijklmnopqrstuvwxyz")

HexValue ==
    [c \in Characters("0123456789abcdefABCDEF") |->
        Code[c] - (CASE Code[c] >= Code["a"] -> Code["a"] - 10
                     [] Code[c] >= Code["A"] -> Code["A"] - 10
                     [] OTHER -> Code["0"])]

DigitsBelow(base) == {c \in DOMAIN HexValue : HexValue[c] < base}

\* The characters from i to j that are there.
Piece(source, i, j) ==
    IF i > Len(source) THEN "" ELSE SubSeq(source, i, IF j < Len(source) THEN j ELSE Len(source))

At(source, i) == Piece(source, i, i)

\* The first position from i on that holds none of these characters.
RECURSIVE Past(_, _, _)
Past(source, i, characters) ==
    IF At(source, i) \in characters THEN Past(source, i + 1, characters) ELSE i

-----------------------------------------------------------------------------
\* The hash of a word, 33 * key + code, as its two halves of 16 bits.
KeywordKey(word) ==
    LET key[i \in 0 .. Len(word)] ==
            IF i = 0 THEN <<0, 5381>>
            ELSE LET low == key[i - 1][2] * 33 + Code[SubSeq(word, i, i)]
                 IN  <<(key[i - 1][1] * 33 + low \div 65536) % 65536, low % 65536>>
    IN  key[Len(word)]

Keywords ==
    {"int", "void", "main", "return", "unsigned", "signed", "char", "_Bool",
     "short", "long", "struct", "enum", "typedef", "static", "extern", "const",
     "sizeof", "if", "else", "while", "do", "for", "break", "continue"}

KeyOf == [word \in Keywords |-> KeywordKey(word)]

\* A word is the keyword whose hash it has.
WordKind(word) ==
    LET key == KeywordKey(word)
    IN  IF \E k \in Keywords : KeyOf[k] = key
        THEN CHOOSE k \in Keywords : KeyOf[k] = key
        ELSE "identifier"

-----------------------------------------------------------------------------
Token(kind, text, value) == [kind |-> kind, text |-> text, value |-> value]

\* Where blanks and comments end; 0 when a comment does not.
RECURSIVE Skip(_, _)
Skip(source, position) ==
    LET i   == Past(source, position, Blanks)
        two == Piece(source, i, i + 1)
        end == {j \in i + 2 .. Len(source) - 1 : Piece(source, j, j + 1) = "*/"}
    IN  CASE two = "//" -> Skip(source, Past(source, i + 2, DOMAIN Code \ {"\n"}))
          [] two = "/*" -> IF end = {} THEN 0 ELSE Skip(source, Min(end) + 2)
          [] OTHER -> i

NumberBase(source, i) ==
    CASE Piece(source, i, i + 1) \in {"0x", "0X"} -> 16
      [] At(source, i) = "0" -> 8
      [] OTHER -> 10

NumberAt(source, i) ==
    LET base  == NumberBase(source, i)
        start == IF base = 16 THEN i + 2 ELSE i
        end   == Past(source, start, DigitsBelow(base))
        value[j \in start - 1 .. end - 1] ==
            IF j = start - 1 THEN 0
            ELSE (value[j - 1] * base + HexValue[At(source, j)]) % Word
    IN  Token("number",
              Piece(source, i, Past(source, end, {"u", "U", "l", "L"}) - 1),
              value[end - 1])

Escape ==
    [n |-> 10, r |-> 13, t |-> 9, a |-> 7, b |-> 8, f |-> 12, v |-> 11]

\* The code behind a backslash; strings, decoded later, know no \0.
EscapedCharacter(c) ==
    CASE c = "0" -> 0
      [] c \in DOMAIN Escape -> Escape[c]
      [] OTHER -> Code[c]

\* The positions of the characters up to the closing quote, escapes as one.
RECURSIVE QuotedPositions(_, _, _)
QuotedPositions(source, i, quote) ==
    CASE At(source, i) \in {quote, ""} -> <<i>>
      [] At(source, i) = "\\" -> <<i>> \o QuotedPositions(source, i + 2, quote)
      [] OTHER -> <<i>> \o QuotedPositions(source, i + 1, quote)

QuotedAt(source, i) ==
    LET quote == At(source, i)
        at    == QuotedPositions(source, i + 1, quote)
        first == At(source, at[1])
        value == IF first = "\\" THEN EscapedCharacter(At(source, at[1] + 1))
                 ELSE Code[first]
        text  == Piece(source, i, Last(at))
    IN  CASE Last(at) > Len(source) -> Token("invalid", "", 0)
          [] quote = "\"" -> Token("string", text, 0)
          [] Len(at) # 2 -> Token("invalid", "", 0)
          [] OTHER -> Token("char", text, value)

Triples == {"<<=", ">>="}

Pairs ==
    {"+=", "-=", "*=", "/=", "%=", "&=", "|=", "^=", "==", "!=", "<=", ">=",
     "&&", "||", "++", "--", "->", "<<", ">>"}

Singles == Characters("(){}[];+-*/%&|^~!?:,.=<>")

\* The longest one that is there.
Punctuator(source, i) ==
    LET prefix(n) == Piece(source, i, i + n - 1)
    IN  CASE prefix(3) \in Triples -> Token(prefix(3), prefix(3), 0)
          [] prefix(2) \in Pairs   -> Token(prefix(2), prefix(2), 0)
          [] prefix(1) \in Singles -> Token(prefix(1), prefix(1), 0)
          [] OTHER -> Token("invalid", "", 0)

\* dyn_lexer_next: the token that begins at i, blanks being skipped.
TokenAt(source, i) ==
    LET first == At(source, i)
        word  == Piece(source, i, Past(source, i, Letters \union DigitsBelow(10)) - 1)
    IN  CASE i = 0                  -> Token("invalid", "", 0)
          [] first = ""             -> Token("eof", "", 0)
          [] first \in Letters      -> Token(WordKind(word), word, 0)
          [] first \in DigitsBelow(10) -> NumberAt(source, i)
          [] first \in {"'", "\""}  -> QuotedAt(source, i)
          [] OTHER                  -> Punctuator(source, i)
=============================================================================
