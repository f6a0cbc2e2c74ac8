-------------------------------- MODULE Lexer --------------------------------
(***************************************************************************)
(* sidl's Lexer (sidl/sidl/lexer.py): a position in the text of an idl,    *)
(* and at most one token of look-ahead.  next() and peek() are the only    *)
(* ways to read; reset() goes back to the start.  Characters are told      *)
(* apart by what the lexer does with them; a word is the sequence of its   *)
(* characters.  Positions count from 1, the code's _pos from 0.            *)
(***************************************************************************)
EXTENDS Naturals, Sequences, FiniteSets, FiniteSetsExt

CONSTANTS Space,        \* blanks that advance the column: " ", "\r", "\t"
          OtherSpace,   \* other characters that isspace() accepts
          Separators,   \* the separators' token types, by character
          Keywords      \* the keywords' token types, by word

Newline == "\n"
Hash == "#"
Dash == "-"
Greater == ">"

ASSUME CharacterAssumption ==
    /\ (Space \cup OtherSpace \cup {Newline}) \cap (DOMAIN Separators \cup {Hash, Dash}) = {}
    /\ Newline \notin Space \cup OtherSpace
    /\ Greater \in DOMAIN Separators /\ {Hash, Dash} \cap DOMAIN Separators = {}

TokenType == {"Eof", "Namespace", "Interface", "Struct", "Arrow", "LBrack", "RBrack", "LParen",
              "RParen", "LGeneric", "RGeneric", "Comma", "Semicolon", "Symbol"}

ASSUME TokenTypeAssumption ==
    /\ \A c \in DOMAIN Separators : Separators[c] \in TokenType \ {"Eof"}
    /\ \A w \in DOMAIN Keywords : Keywords[w] \in TokenType \ {"Eof"}

VARIABLES data,    \* _data: the text
          lexer,   \* _pos, _line, _col, and _cur_token, a set of at most one token
          read,    \* the tokens next() has returned since the start (history)
          scans,   \* [token, at]: the tokens found, and where (history)
          stale    \* how many of them are from before reset() (history)

history == <<read, scans, stale>>
lexerVars == <<data, lexer, history>>

-----------------------------------------------------------------------------

IsSpace(c) == c \in Space \cup OtherSpace \cup {Newline}

(* _skip_ws, from position from: the character at p is in a comment.       *)
CommentedForGood(from, p) == \E q \in from..p : data[q] = Hash   \* mutant: no line ends it

Commented(from, p) ==
    \E q \in from..p : data[q] = Hash /\ \A r \in q..p : data[r] # Newline

(* Where _skip_ws stops: the first character of a token, or the end.       *)
Begins(from, p) == p > Len(data) \/ ~(IsSpace(data[p]) \/ Commented(from, p))

TokenStart(from) ==
    CHOOSE p \in from..Len(data) + 1 : Begins(from, p) /\ \A q \in from..p - 1 : ~Begins(from, q)

Newlines(from, to) == {p \in from..to - 1 : data[p] = Newline}

(* The column after _skip_ws: other blanks count in comments only.         *)
ColumnNotReset(from, col, to) ==   \* mutant: a new line goes on where the last one was
    col + Cardinality({p \in from..to - 1 : data[p] \in Space \/ Commented(from, p)})

Column(from, col, to) ==
    LET start == Max(Newlines(from, to) \cup {from - 1}) + 1 IN
    (IF start = from THEN col ELSE 1)
      + Cardinality({p \in start..to - 1 : data[p] \in Space \/ Commented(from, p)})

(* The loop of next() over the characters of a token that starts at p: it  *)
(* takes one separator, an arrow, or all up to a blank or a separator.     *)
IsArrow(p) == data[p] = Dash /\ p < Len(data) /\ data[p + 1] = Greater

EndsWord(p) == p > Len(data) \/ IsSpace(data[p]) \/ data[p] \in DOMAIN Separators

WordEnd(p) ==
    CHOOSE q \in p + 1..Len(data) + 1 : EndsWord(q) /\ \A r \in p + 1..q - 1 : ~EndsWord(r)

TokenEnd(p) ==
    IF data[p] \in DOMAIN Separators THEN p + 1
    ELSE IF IsArrow(p) THEN p + 2 ELSE WordEnd(p)

TypeAt(p) ==
    LET word == SubSeq(data, p, WordEnd(p) - 1) IN
    IF data[p] \in DOMAIN Separators THEN Separators[data[p]]
    ELSE IF IsArrow(p) THEN "Arrow"
    ELSE IF word \in DOMAIN Keywords THEN Keywords[word] ELSE "Symbol"

EofToken == [type |-> "Eof", value |-> <<>>, line |-> 1, col |-> 1]

(* next() without a token of look-ahead: the token, and the lexer after it. *)
ScannedFrom(from) ==
    LET p == TokenStart(from.pos)
        line == from.line + Cardinality(Newlines(from.pos, p))
        col == Column(from.pos, from.col, p)
        end == IF p > Len(data) THEN p ELSE TokenEnd(p)
    IN  [token |-> IF p > Len(data) THEN EofToken
                   ELSE [type |-> TypeAt(p), value |-> SubSeq(data, p, end - 1),
                         line |-> line, col |-> col],
         pos |-> end, line |-> line, col |-> col + (end - p)]

Scanned == ScannedFrom(lexer)

(* What next() and peek() return.                                          *)
Token == IF lexer.token # {} THEN CHOOSE t \in lexer.token : TRUE ELSE Scanned.token

At(pos, line, col, token) == [pos |-> pos, line |-> line, col |-> col, token |-> token]

AfterScan(token) == LET s == Scanned IN At(s.pos, s.line, s.col, token)

Found == [token |-> Token, at |-> TokenStart(lexer.pos)]

(* A call without a token of look-ahead finds one.                         *)
Finds ==
    scans' = IF lexer.token # {} THEN scans ELSE Append(scans, Found)

NextToken ==
    /\ lexer' = IF lexer.token # {} THEN [lexer EXCEPT !.token = {}] ELSE AfterScan({})
    /\ read' = Append(read, Token)
    /\ Finds
    /\ UNCHANGED <<data, stale>>

PeekToken ==
    /\ lexer' = IF lexer.token # {} THEN lexer ELSE AfterScan({Token})
    /\ Finds
    /\ UNCHANGED <<data, read, stale>>

LexerStart == At(1, 1, 1, {})

(* reset() leaves _cur_token alone: line 103 sets cur_token.               *)
RestartedLine == [lexer EXCEPT !.line = 1, !.col = 1]   \* mutant: _pos stays

Restarted == At(1, 1, 1, lexer.token)

Reset ==
    /\ lexer' = Restarted
    /\ read' = <<>>
    /\ scans' = IF lexer.token = {} THEN <<>> ELSE <<scans[Len(scans)]>>
    /\ stale' = Len(scans')
    /\ UNCHANGED data

Opens(text) ==
    /\ data' = text
    /\ lexer' = LexerStart
    /\ read' = <<>> /\ scans' = <<>> /\ stale' = 0

-----------------------------------------------------------------------------
(* Any program that reads texts with a lexer, whatever it calls in         *)
(* whatever order; FrontEnd has the programs of the repository.            *)

LexerInit ==
    /\ data \in Seq(STRING)
    /\ lexer = LexerStart
    /\ read = <<>> /\ scans = <<>> /\ stale = 0

LexerNext == NextToken \/ PeekToken \/ Reset \/ \E text \in Seq(STRING) : Opens(text)

LexerSpec == LexerInit /\ [][LexerNext]_lexerVars

-----------------------------------------------------------------------------

Ahead == IF lexer.token = {} THEN <<>> ELSE <<Token>>

(* The comments of a text: from a # that does not continue a word to the   *)
(* end of the line.                                                        *)
StartsComment(p) ==
    /\ data[p] = Hash
    /\ p = 1 \/ IsSpace(data[p - 1]) \/ data[p - 1] \in DOMAIN Separators

InComment(p) == \E q \in 1..p : StartsComment(q) /\ \A r \in q..p : data[r] # Newline

Code == {p \in DOMAIN data : ~IsSpace(data[p]) /\ ~InComment(p)}

(* The characters of a token found.                                        *)
Extent(scan) == scan.at..scan.at + Len(scan.token.value) - 1

(* The tokens that next() returns, and then the one of look-ahead, are the *)
(* tokens found, whatever was peeked.                                      *)
TokensOf(found) == [i \in DOMAIN found |-> found[i].token]

TokensAreReturned == read \o Ahead = TokensOf(scans)

(* Tokens have the characters of the text.                                 *)
AsWritten(scan) ==
    scan.token.value = [j \in 1..Len(scan.token.value) |-> data[scan.at + j - 1]]

InOrder ==
    \A i, j \in DOMAIN scans : stale < i /\ i < j =>
        scans[i].at + Len(scans[i].token.value) <= scans[j].at

(* What is read is the text up to the lexer's position, less blanks and    *)
(* comments: no character is dropped, read twice or moved, whatever was    *)
(* peeked (lines 74-96 and 112-182 of lexer.py).  Only a token that was    *)
(* peeked before reset() comes first, before the text.                     *)
TokensAreTheText ==
    /\ TokensAreReturned
    /\ stale <= 1 /\ stale <= Len(scans)
    /\ \A i \in DOMAIN scans : AsWritten(scans[i])
    /\ InOrder
    /\ UNION {Extent(scans[i]) : i \in stale + 1..Len(scans)} = {p \in Code : p < lexer.pos}

LineOf(p) == Cardinality(Newlines(1, p)) + 1
LineStart(p) == Max(Newlines(1, p) \cup {0}) + 1

(* Only a blank the lexer does not count, such as a form feed, moves them. *)
Placed(p, line, col) ==
    /\ line = LineOf(p)
    /\ \/ col = p - LineStart(p) + 1
       \/ \E q \in LineStart(p)..p - 1 : data[q] \in OtherSpace

(* The line and column that an error message prints, and the caret under   *)
(* the line (sidlcc.py:93-101), are where the token starts.  The end of    *)
(* the text is no such token: it is always at 1:1 (lexer.py:121-122).      *)
PositionsExact ==
    \A i \in DOMAIN scans :
        LET t == scans[i].token IN t.type # "Eof" => Placed(scans[i].at, t.line, t.col)

=============================================================================
