---------------------------- MODULE FrontEndProofs ----------------------------
(***************************************************************************)
(* Theorems of Lexer, Parser and FrontEnd: whatever a program calls in     *)
(* whatever order, the tokens it gets are the text, and their positions    *)
(* are where they are; a tree that a parse returns is the text it took;    *)
(* and a parser that parses a text again says the same of it.              *)
(*                                                                         *)
(* A scan starts in the middle of a text, where _skip_ws does not know     *)
(* what came before.  LexerInv says what makes that enough: the lexer      *)
(* never stops inside a comment, nor before a # that continues a word.     *)
(*                                                                         *)
(* ParseInv says where every token is that the parser has taken while it   *)
(* is deep in its calls.  VerdictInv says how far the second parse is on   *)
(* the way that the first one went.                                        *)
(***************************************************************************)
EXTENDS FrontEnd, CommonLemmas, FiniteSetTheorems, SequenceTheorems

-----------------------------------------------------------------------------
(* The invariant.                                                          *)

Tokens == [type : TokenType, value : Seq(STRING), line : Nat, col : Nat]
Scans == [token : Tokens, at : Nat]

TypeInv ==
    /\ data \in Seq(STRING)
    /\ lexer = At(lexer.pos, lexer.line, lexer.col, lexer.token)
    /\ lexer.pos \in 1..Len(data) + 1 /\ lexer.line \in Nat /\ lexer.col \in Nat
    /\ lexer.token \subseteq Tokens /\ \A t, u \in lexer.token : t = u
    /\ read \in Seq(Tokens) /\ scans \in Seq(Scans) /\ stale \in Nat

(* A # at p begins a comment.                                              *)
Edge(p) == \/ p = 1 \/ data[p - 1] \in DOMAIN Separators
           \/ IsSpace(data[p]) \/ data[p] \in DOMAIN Separators

(* A scan may start at p.                                                  *)
Between(p) == p <= Len(data) => Edge(p) /\ (p = 1 \/ ~InComment(p - 1))

(* What was found since the lexer was set to the start is behind it.       *)
Behind(scan) == scan.at + Len(scan.token.value) <= lexer.pos

LexerInv ==
    /\ TypeInv
    /\ TokensAreTheText
    /\ \A i \in stale + 1..Len(scans) : Behind(scans[i])
    /\ Between(lexer.pos)
    /\ Placed(lexer.pos, lexer.line, lexer.col)
    /\ PositionsExact

-----------------------------------------------------------------------------
(* The loops of _skip_ws and next().                                       *)

LEMMA TokenStartIs ==
    ASSUME data \in Seq(STRING), NEW from \in 1..Len(data) + 1
    PROVE  LET p == TokenStart(from) IN
           /\ p \in from..Len(data) + 1
           /\ Begins(from, p)
           /\ \A q \in from..p - 1 : ~Begins(from, q)
  <1> DEFINE S == {p \in from..Len(data) + 1 : Begins(from, p)}
  <1>1. Len(data) \in Nat
    OBVIOUS
  <1>2. S \in SUBSET Nat /\ Len(data) + 1 \in S
    BY <1>1 DEF Begins
  <1>3. PICK n \in S : \A m \in S : n <= m
    BY <1>2, Least
  <1>4. n \in from..Len(data) + 1 /\ Begins(from, n) /\ \A q \in from..n - 1 : ~Begins(from, q)
    BY <1>1, <1>3
  <1> QED
    BY <1>4 DEF TokenStart

LEMMA WordEndIs ==
    ASSUME data \in Seq(STRING), NEW p \in 1..Len(data)
    PROVE  LET e == WordEnd(p) IN
           /\ e \in p + 1..Len(data) + 1
           /\ EndsWord(e)
           /\ \A q \in p + 1..e - 1 : ~EndsWord(q)
  <1> DEFINE S == {q \in p + 1..Len(data) + 1 : EndsWord(q)}
  <1>1. Len(data) \in Nat
    OBVIOUS
  <1>2. S \in SUBSET Nat /\ Len(data) + 1 \in S
    BY <1>1 DEF EndsWord
  <1>3. PICK n \in S : \A m \in S : n <= m
    BY <1>2, Least
  <1>4. n \in p + 1..Len(data) + 1 /\ EndsWord(n) /\ \A q \in p + 1..n - 1 : ~EndsWord(q)
    BY <1>1, <1>3
  <1> QED
    BY <1>4 DEF WordEnd

(* Between a scan's start and its token, _skip_ws is in a comment exactly  *)
(* where the text is.                                                      *)
LEMMA Skipped ==
    ASSUME data \in Seq(STRING), NEW from \in 1..Len(data) + 1, Between(from),
           NEW p \in from..Len(data) + 1, \A q \in from..p - 1 : ~Begins(from, q),
           NEW q \in from..p, q <= Len(data)
    PROVE  Commented(from, q) <=> InComment(q)
  <1>1. Len(data) \in Nat
    OBVIOUS
  <1>2. ASSUME Commented(from, q)
        PROVE  InComment(q)
    <2> DEFINE S == {h \in from..q : data[h] = Hash /\ \A r \in h..q : data[r] # Newline}
    <2>1. S \in SUBSET Nat /\ S # {}
      BY <1>1, <1>2 DEF Commented
    <2>2. PICK h \in S : \A g \in S : h <= g
      BY <2>1, Least
    <2>3. h \in from..q /\ data[h] = Hash /\ \A r \in h..q : data[r] # Newline
      BY <2>2
    <2>4. CASE h = from
      <3>1. Edge(h)
        BY <1>1, <2>4 DEF Between
      <3>2. StartsComment(h)
        BY <2>3, <3>1, CharacterAssumption DEF Edge, StartsComment, IsSpace
      <3> QED
        BY <1>1, <2>3, <3>2 DEF InComment
    <2>5. CASE h # from
      <3>1. h - 1 \in from..p - 1 /\ h - 1 <= Len(data) /\ h \in Nat /\ h > 1
        BY <1>1, <2>3, <2>5
      <3>2. IsSpace(data[h - 1]) \/ Commented(from, h - 1)
        BY <1>1, <3>1 DEF Begins
      <3>3. ~Commented(from, h - 1)
        <4> SUFFICES ASSUME Commented(from, h - 1)
                     PROVE  FALSE
          OBVIOUS
        <4>1. PICK g \in from..h - 1 : data[g] = Hash /\ \A r \in g..h - 1 : data[r] # Newline
          BY DEF Commented
        <4>2. \A r \in g..q : r \in g..h - 1 \/ r \in h..q
          BY <1>1, <2>3, <3>1
        <4>3. g \in from..q /\ g < h
          BY <1>1, <2>3, <3>1
        <4>4. g \in S
          BY <2>3, <4>1, <4>2, <4>3
        <4> QED
          BY <2>2, <2>3, <4>3, <4>4
      <3>4. StartsComment(h)
        BY <2>3, <3>2, <3>3 DEF StartsComment
      <3> QED
        BY <1>1, <2>3, <3>4 DEF InComment
    <2> QED
      BY <2>4, <2>5
  <1>3. ASSUME InComment(q)
        PROVE  Commented(from, q)
    <2>1. PICK h \in 1..q : StartsComment(h) /\ \A r \in h..q : data[r] # Newline
      BY <1>3 DEF InComment
    <2>2. CASE h >= from
      <3>1. h \in from..q
        BY <1>1, <2>1, <2>2
      <3> QED
        BY <2>1, <3>1 DEF Commented, StartsComment
    <2>3. CASE h < from
      <3>1. from <= Len(data) /\ from # 1 /\ h \in 1..from - 1
            /\ \A r \in h..from - 1 : r \in h..q
        BY <1>1, <2>1, <2>3
      <3>2. InComment(from - 1)
        BY <2>1, <3>1 DEF InComment
      <3> QED
        BY <3>1, <3>2 DEF Between
    <2> QED
      BY <1>1, <2>2, <2>3
  <1> QED
    BY <1>2, <1>3

(* A comment goes on from one character to the next, or begins there.      *)
LEMMA CommentGoesOn ==
    ASSUME data \in Seq(STRING), NEW p \in 1..Len(data), NEW q \in p..Len(data), InComment(q)
    PROVE  InComment(p) \/ \E h \in p + 1..q : StartsComment(h)
  <1>1. PICK h \in 1..q : StartsComment(h) /\ \A r \in h..q : data[r] # Newline
    BY DEF InComment
  <1>2. CASE h <= p
    <2>1. h \in 1..p /\ \A r \in h..p : r \in h..q
      BY <1>1, <1>2
    <2> QED
      BY <1>1, <2>1 DEF InComment
  <1>3. CASE ~(h <= p)
    <2>1. h \in p + 1..q
      BY <1>1, <1>3
    <2> QED
      BY <1>1, <2>1
  <1> QED
    BY <1>2, <1>3

(* The characters of a token are neither blank nor in a comment, and the   *)
(* next scan may start behind them.                                        *)
LEMMA TokenExtent ==
    ASSUME data \in Seq(STRING), NEW p \in 1..Len(data),
           ~IsSpace(data[p]), ~InComment(p)
    PROVE  LET e == TokenEnd(p) IN
           /\ e \in p + 1..Len(data) + 1
           /\ \A q \in p..e - 1 : ~IsSpace(data[q]) /\ ~InComment(q)
           /\ Between(e)
  <1>1. Len(data) \in Nat
    OBVIOUS
  <1>2. CASE data[p] \in DOMAIN Separators
    <2>1. TokenEnd(p) = p + 1 /\ (p + 1) - 1 = p
      BY <1>1, <1>2 DEF TokenEnd
    <2>2. p + 1 \in p + 1..Len(data) + 1 /\ \A q \in p..(p + 1) - 1 : q = p
      BY <1>1
    <2>3. Edge(p + 1)
      BY <1>2, <2>1 DEF Edge
    <2> QED
      BY <2>1, <2>2, <2>3 DEF Between
  <1>3. CASE data[p] \notin DOMAIN Separators /\ IsArrow(p)
    <2>1. TokenEnd(p) = p + 2 /\ (p + 2) - 1 = p + 1
      BY <1>1, <1>3 DEF TokenEnd
    <2>2. /\ p + 2 \in p + 1..Len(data) + 1 /\ p + 1 \in p..Len(data)
          /\ \A q \in p..(p + 2) - 1 : q = p \/ q = p + 1
      BY <1>1, <1>3 DEF IsArrow
    <2>3. data[p + 1] = Greater
      BY <1>3 DEF IsArrow
    <2>4. ~IsSpace(data[p + 1]) /\ data[p + 1] # Hash /\ data[p + 1] \in DOMAIN Separators
      BY <2>3, CharacterAssumption DEF IsSpace
    <2>5. ~InComment(p + 1)
      <3>1. \A h \in p + 1..p + 1 : ~StartsComment(h)
        BY <1>1, <2>4 DEF StartsComment
      <3> QED
        BY <2>2, <3>1, CommentGoesOn
    <2>6. Edge(p + 2)
      BY <2>1, <2>4 DEF Edge
    <2> QED
      BY <2>1, <2>2, <2>4, <2>5, <2>6 DEF Between
  <1>4. CASE data[p] \notin DOMAIN Separators /\ ~IsArrow(p)
    <2> DEFINE e == WordEnd(p)
    <2>1. TokenEnd(p) = e
      BY <1>4 DEF TokenEnd
    <2>2. /\ e \in p + 1..Len(data) + 1 /\ EndsWord(e)
          /\ \A q \in p + 1..e - 1 : ~EndsWord(q)
      BY WordEndIs
    <2> HIDE DEF e
    <2>3. \A q \in p..e - 1 : ~IsSpace(data[q]) /\ data[q] \notin DOMAIN Separators
      <3> SUFFICES ASSUME NEW q \in p..e - 1
                   PROVE  ~IsSpace(data[q]) /\ data[q] \notin DOMAIN Separators
        OBVIOUS
      <3>1. q = p \/ q \in p + 1..e - 1
        BY <1>1, <2>2
      <3> QED
        BY <1>4, <2>2, <3>1 DEF EndsWord
    <2>4. \A q \in p..e - 1 : ~InComment(q)
      <3> SUFFICES ASSUME NEW q \in p..e - 1, InComment(q)
                   PROVE  FALSE
        OBVIOUS
      <3>1. q \in p..Len(data)
        BY <1>1, <2>2
      <3>2. PICK h \in p + 1..q : StartsComment(h)
        BY <3>1, CommentGoesOn
      <3>3. h # 1 /\ h - 1 \in p..e - 1
        BY <1>1, <2>2, <3>2
      <3> QED
        BY <2>3, <3>2, <3>3 DEF StartsComment
    <2>5. Between(e)
      <3> SUFFICES ASSUME e <= Len(data)
                   PROVE  Edge(e) /\ ~InComment(e - 1)
        BY DEF Between
      <3>1. IsSpace(data[e]) \/ data[e] \in DOMAIN Separators
        BY <1>1, <2>2 DEF EndsWord
      <3>2. e - 1 \in p..e - 1
        BY <1>1, <2>2
      <3> QED
        BY <2>4, <3>1, <3>2 DEF Edge
    <2> QED
      BY <2>1, <2>2, <2>3, <2>4, <2>5
  <1> QED
    BY <1>2, <1>3, <1>4

(* What a scan adds to the text read.                                      *)
LEMMA ScanCovers ==
    ASSUME data \in Seq(STRING), NEW from \in 1..Len(data) + 1, Between(from),
           NEW p, p = TokenStart(from),
           NEW e \in p..Len(data) + 1, p <= Len(data) => e = TokenEnd(p), p > Len(data) => e = p
    PROVE  /\ {x \in Code : x < e} = {x \in Code : x < from} \cup p..e - 1
           /\ Between(e)
           /\ \A q \in p..e - 1 : ~IsSpace(data[q])
           /\ \A q \in from..p - 1 : IsSpace(data[q]) \/ Commented(from, q)
  <1>1. Len(data) \in Nat
    OBVIOUS
  <1>2. p \in from..Len(data) + 1 /\ Begins(from, p) /\ \A q \in from..p - 1 : ~Begins(from, q)
    BY TokenStartIs
  <1>3. \A q \in from..p - 1 : q \in from..p /\ q <= Len(data)
    BY <1>1, <1>2
  <1>4. \A q \in from..p - 1 : IsSpace(data[q]) \/ Commented(from, q)
    BY <1>1, <1>2, <1>3 DEF Begins
  <1>5. \A q \in from..p - 1 : q \notin Code
    BY <1>2, <1>3, <1>4, Skipped DEF Code
  <1>6. CASE p > Len(data)
    <2>1. e = p /\ p..e - 1 = {} /\ ~(e <= Len(data))
      BY <1>1, <1>2, <1>6
    <2>2. \A x \in Code : x < e => x < from
      <3> SUFFICES ASSUME NEW x \in Code, x < e, ~(x < from)
                   PROVE  FALSE
        OBVIOUS
      <3>1. x \in 1..Len(data)
        BY DEF Code
      <3>2. x \in from..p - 1
        BY <1>1, <1>2, <2>1, <3>1
      <3> QED
        BY <1>5, <3>2
    <2>3. \A x \in Code : x < from => x < e
      BY <1>1, <1>2, <2>1 DEF Code
    <2> QED
      BY <1>4, <2>1, <2>2, <2>3 DEF Between
  <1>7. CASE ~(p > Len(data))
    <2>1. p \in 1..Len(data) /\ p <= Len(data) /\ p \in from..p
      BY <1>1, <1>2, <1>7
    <2>2. ~IsSpace(data[p]) /\ ~InComment(p)
      BY <1>2, <1>7, <2>1, Skipped DEF Begins
    <2>3. /\ e \in p + 1..Len(data) + 1
          /\ \A q \in p..e - 1 : ~IsSpace(data[q]) /\ ~InComment(q)
          /\ Between(e)
      BY <2>1, <2>2, TokenExtent
    <2>4. \A q \in p..e - 1 : q \in Code
      BY <1>1, <2>1, <2>3 DEF Code
    <2>5. \A x \in Code : x < e => x < from \/ x \in p..e - 1
      <3> SUFFICES ASSUME NEW x \in Code, x < e, ~(x < from), x \notin p..e - 1
                   PROVE  FALSE
        OBVIOUS
      <3>1. x \in 1..Len(data)
        BY DEF Code
      <3>2. x \in from..p - 1
        BY <1>1, <1>2, <2>3, <3>1
      <3> QED
        BY <1>5, <3>2
    <2>6. /\ \A x \in Code : x < from => x < e
          /\ \A x \in p..e - 1 : x < e
      BY <1>1, <1>2, <2>3 DEF Code
    <2>7. {x \in Code : x < e} = {x \in Code : x < from} \cup p..e - 1
      BY <2>4, <2>5, <2>6
    <2> QED
      BY <1>4, <2>3, <2>7
  <1> QED
    BY <1>6, <1>7

-----------------------------------------------------------------------------
(* Lines and columns.                                                      *)

LEMMA Greatest ==
    ASSUME NEW S \in SUBSET Nat, S # {}, NEW n \in Nat, \A x \in S : x <= n
    PROVE  Max(S) \in S /\ \A x \in S : x <= Max(S)
  <1> DEFINE B == {m \in Nat : \A x \in S : x <= m}
  <1>1. B \in SUBSET Nat /\ B # {}
    OBVIOUS
  <1>2. PICK m \in B : \A k \in B : m <= k
    BY <1>1, Least
  <1>3. m \in Nat /\ \A x \in S : x <= m
    BY <1>2
  <1>4. m \in S
    <2> SUFFICES ASSUME m \notin S
                 PROVE  FALSE
      OBVIOUS
    <2>1. \A x \in S : x < m
      BY <1>3
    <2>2. m - 1 \in Nat /\ \A x \in S : x <= m - 1
      <3>1. PICK x \in S : TRUE
        OBVIOUS
      <3>2. x \in Nat /\ x < m
        BY <2>1
      <3>3. m - 1 \in Nat
        BY <1>3, <3>2
      <3>4. ASSUME NEW y \in S
            PROVE  y <= m - 1
        <4>1. y \in Nat /\ y < m
          BY <2>1
        <4> QED
          BY <1>3, <4>1
      <3> QED
        BY <3>3, <3>4
    <2>3. m - 1 \in B
      BY <2>2
    <2> QED
      BY <1>2, <1>3, <2>3
  <1>5. \E x \in S : \A y \in S : x >= y
    BY <1>3, <1>4
  <1>6. Max(S) \in S /\ \A y \in S : Max(S) >= y
    BY <1>5 DEF Max
  <1> QED
    BY <1>6

LEMMA LineStartIs ==
    ASSUME NEW p \in Nat, p > 0
    PROVE  /\ LineStart(p) \in 1..p
           /\ \A q \in LineStart(p)..p - 1 : data[q] # Newline
           /\ \A n \in Newlines(1, p) : n < LineStart(p)
           /\ LineStart(p) = 1 \/ LineStart(p) - 1 \in Newlines(1, p)
  <1> DEFINE S == Newlines(1, p) \cup {0}
  <1>1. S \in SUBSET Nat /\ S # {} /\ (\A x \in S : x <= p - 1) /\ p - 1 \in Nat
    BY DEF Newlines
  <1> HIDE DEF S
  <1>2. Max(S) \in S /\ \A x \in S : x <= Max(S)
    BY <1>1, Greatest
  <1>3. PICK m : m = Max(S)
    OBVIOUS
  <1>4. m \in Nat /\ m <= p - 1 /\ m \in S /\ (\A x \in S : x <= m) /\ LineStart(p) = m + 1
    BY <1>1, <1>2, <1>3 DEF LineStart, S
  <1>5. \A q \in m + 1..p - 1 : data[q] # Newline
    <2> SUFFICES ASSUME NEW q \in m + 1..p - 1, data[q] = Newline
                 PROVE  FALSE
      OBVIOUS
    <2>1. q \in 1..p - 1 /\ q > m /\ q \in Nat
      BY <1>4
    <2>2. q \in S
      BY <2>1 DEF S, Newlines
    <2> QED
      BY <1>4, <2>1, <2>2
  <1>6. \A n \in Newlines(1, p) : n \in Nat /\ n <= m
    BY <1>1, <1>4 DEF S
  <1>7. m = 0 \/ m \in Newlines(1, p)
    BY <1>4 DEF S
  <1> QED
    BY <1>4, <1>5, <1>6, <1>7

LEMMA NewlinesSplit ==
    ASSUME NEW from \in Nat, from > 0, NEW p \in Nat, from <= p
    PROVE  /\ IsFiniteSet(Newlines(from, p)) /\ Cardinality(Newlines(from, p)) \in Nat
           /\ Newlines(1, p) = Newlines(1, from) \cup Newlines(from, p)
           /\ LineOf(from) \in Nat /\ LineOf(p) = LineOf(from) + Cardinality(Newlines(from, p))
  <1>1. ASSUME NEW a \in Nat, NEW b \in Nat
        PROVE  IsFiniteSet(Newlines(a, b)) /\ Cardinality(Newlines(a, b)) \in Nat
    <2>1. IsFiniteSet(a..b - 1)
      BY FS_Interval
    <2>2. Newlines(a, b) \in SUBSET (a..b - 1)
      BY DEF Newlines
    <2>3. IsFiniteSet(Newlines(a, b))
      BY <2>1, <2>2, FS_Subset
    <2> QED
      BY <2>3, FS_CardinalityType
  <1>2. IsFiniteSet(Newlines(from, p)) /\ Cardinality(Newlines(from, p)) \in Nat
    BY <1>1
  <1>3. IsFiniteSet(Newlines(1, from)) /\ Cardinality(Newlines(1, from)) \in Nat
    BY <1>1
  <1>4. \A q : q \in 1..p - 1 <=> q \in 1..from - 1 \/ q \in from..p - 1
    OBVIOUS
  <1>5. Newlines(1, p) = Newlines(1, from) \cup Newlines(from, p)
    BY <1>4 DEF Newlines
  <1>6. Newlines(1, from) \cap Newlines(from, p) = {}
    BY DEF Newlines
  <1>7. Cardinality(Newlines(1, p)) = Cardinality(Newlines(1, from)) + Cardinality(Newlines(from, p))
    <2>1. Cardinality(Newlines(1, from) \cup Newlines(from, p)) =
            Cardinality(Newlines(1, from)) + Cardinality(Newlines(from, p))
              - Cardinality(Newlines(1, from) \cap Newlines(from, p))
      BY <1>2, <1>3, FS_Union
    <2>2. Cardinality(Newlines(1, from) \cap Newlines(from, p)) = 0
      BY <1>6, FS_EmptySet
    <2>3. Cardinality(Newlines(1, p)) = Cardinality(Newlines(1, from) \cup Newlines(from, p))
      BY <1>5
    <2> QED
      BY ONLY <1>2, <1>3, <2>1, <2>2, <2>3
  <1> QED
    BY <1>2, <1>3, <1>5, <1>7 DEF LineOf

(* A stretch of a line.                                                    *)
LEMMA SameLine ==
    ASSUME NEW from \in Nat, from > 0, NEW p \in Nat, from <= p, Newlines(from, p) = {}
    PROVE  LineOf(p) = LineOf(from) /\ LineStart(p) = LineStart(from)
  <1>1. Newlines(1, p) = Newlines(1, from)
    <2>1. Newlines(1, p) = Newlines(1, from) \cup Newlines(from, p)
      BY NewlinesSplit
    <2> QED
      BY <2>1
  <1> QED
    BY <1>1 DEF LineOf, LineStart

(* A token is on one line, and the column counts its characters.           *)
LEMMA TokenPlaced ==
    ASSUME NEW p \in Nat, p > 0, NEW e \in Nat, p <= e, \A q \in p..e - 1 : data[q] # Newline,
           NEW line, NEW col \in Nat, Placed(p, line, col)
    PROVE  Placed(e, line, col + (e - p))
  <1>1. Newlines(p, e) = {}
    BY DEF Newlines
  <1>2. LineOf(e) = LineOf(p) /\ LineStart(e) = LineStart(p)
    BY <1>1, SameLine
  <1>3. LineStart(p) \in Nat
    BY LineStartIs
  <1>4. CASE col = p - LineStart(p) + 1
    <2>1. col + (e - p) = e - LineStart(e) + 1
      BY <1>2, <1>3, <1>4
    <2> QED
      BY <1>2, <2>1 DEF Placed
  <1>5. CASE \E q \in LineStart(p)..p - 1 : data[q] \in OtherSpace
    <2>1. PICK q \in LineStart(p)..p - 1 : data[q] \in OtherSpace
      BY <1>5
    <2>2. q \in LineStart(e)..e - 1
      BY <1>2, <1>3, <2>1
    <2> QED
      BY <1>2, <2>1, <2>2 DEF Placed
  <1> QED
    BY <1>4, <1>5 DEF Placed

(* _skip_ws counts the blanks since the last newline.                      *)
LEMMA SkipPlaced ==
    ASSUME NEW from \in Nat, from > 0, NEW p \in Nat, from <= p,
           \A q \in from..p - 1 : IsSpace(data[q]) \/ Commented(from, q),
           NEW line \in Nat, NEW col \in Nat, Placed(from, line, col)
    PROVE  /\ Column(from, col, p) \in Nat
           /\ line + Cardinality(Newlines(from, p)) \in Nat
           /\ Placed(p, line + Cardinality(Newlines(from, p)), Column(from, col, p))
  <1> DEFINE margin == Max(Newlines(from, p) \cup {from - 1}) + 1
             Counted(a) == {q \in a..p - 1 : data[q] \in Space \/ Commented(from, q)}
             Odd(a) == \E q \in a..p - 1 : data[q] \in OtherSpace
  <1>1. /\ line + Cardinality(Newlines(from, p)) \in Nat
        /\ line + Cardinality(Newlines(from, p)) = LineOf(p)
    BY NewlinesSplit DEF Placed
  <1>2. ASSUME NEW a \in Nat, from <= a, a <= p, \A q \in a..p - 1 : data[q] # Newline
        PROVE  /\ Cardinality(Counted(a)) \in Nat
               /\ Odd(a) \/ Cardinality(Counted(a)) = p - a
    <2>1. IsFiniteSet(a..p - 1) /\ Cardinality(a..p - 1) = p - a
      BY <1>2, FS_Interval
    <2>2. Counted(a) \in SUBSET (a..p - 1)
      OBVIOUS
    <2>3. Cardinality(Counted(a)) \in Nat
      BY <2>1, <2>2, FS_Subset, FS_CardinalityType
    <2>4. ASSUME ~Odd(a)
          PROVE  Counted(a) = a..p - 1
      <3> SUFFICES ASSUME NEW q \in a..p - 1
                   PROVE  data[q] \in Space \/ Commented(from, q)
        OBVIOUS
      <3>1. q \in from..p - 1
        BY <1>2
      <3> QED
        BY <1>2, <2>4, <3>1 DEF IsSpace
    <2> QED
      BY <2>1, <2>3, <2>4
  <1>3. Column(from, col, p) = (IF margin = from THEN col ELSE 1) + Cardinality(Counted(margin))
    BY DEF Column
  <1>4. /\ margin \in Nat /\ from <= margin /\ margin <= p
        /\ \A q \in margin..p - 1 : data[q] # Newline
        /\ margin = from => Newlines(from, p) = {}
        /\ margin # from => margin = LineStart(p)
    <2> DEFINE S == Newlines(from, p) \cup {from - 1}
    <2>1. S \in SUBSET Nat /\ S # {} /\ (\A x \in S : x <= p - 1 /\ x >= from - 1) /\ p - 1 \in Nat
      BY DEF Newlines
    <2>2. Max(S) \in S /\ \A x \in S : x <= Max(S)
      BY <2>1, Greatest
    <2>3. PICK m : m = Max(S)
      OBVIOUS
    <2>4. margin = m + 1
      BY <2>3
    <2> HIDE DEF margin
    <2>5. m \in Nat /\ m <= p - 1 /\ m >= from - 1 /\ m \in S /\ \A x \in S : x <= m
      BY <2>1, <2>2, <2>3
    <2>6. margin \in Nat /\ from <= margin /\ margin <= p
      BY <2>4, <2>5
    <2>7. ASSUME NEW q \in margin..p - 1
          PROVE  data[q] # Newline
      <3> SUFFICES ASSUME data[q] = Newline
                   PROVE  FALSE
        OBVIOUS
      <3>1. q \in from..p - 1 /\ q \in Nat /\ q > m
        BY <2>4, <2>5, <2>6
      <3>2. q \in S
        BY <3>1 DEF Newlines
      <3> QED
        BY <2>5, <3>1, <3>2
    <2>8. ASSUME margin = from
          PROVE  Newlines(from, p) = {}
      BY <2>7, <2>8 DEF Newlines
    <2>9. ASSUME margin # from
          PROVE  margin = LineStart(p)
      <3>1. m \in Newlines(from, p)
        BY <2>4, <2>5, <2>9
      <3>2. m \in Newlines(1, p)
        BY <3>1, NewlinesSplit
      <3>3. /\ LineStart(p) \in 1..p /\ (\A n \in Newlines(1, p) : n < LineStart(p))
            /\ (LineStart(p) = 1 \/ LineStart(p) - 1 \in Newlines(1, p))
        BY LineStartIs
      <3>4. LineStart(p) > m
        BY <3>2, <3>3
      <3>5. LineStart(p) - 1 \in Newlines(1, p) /\ LineStart(p) # 1
        BY <2>5, <3>1, <3>3, <3>4 DEF Newlines
      <3>6. ~(LineStart(p) - 1 \in margin..p - 1)
        BY <2>7, <3>5 DEF Newlines
      <3> QED
        BY <2>4, <2>5, <3>3, <3>4, <3>6
    <2> QED
      BY <2>6, <2>7, <2>8, <2>9
  <1> HIDE DEF margin
  <1>5. /\ Cardinality(Counted(margin)) \in Nat
        /\ Odd(margin) \/ Cardinality(Counted(margin)) = p - margin
    BY <1>2, <1>4
  <1> HIDE DEF Counted
  <1>6. Column(from, col, p) \in Nat
    BY <1>3, <1>5
  <1>7. LineStart(p) \in Nat /\ LineStart(from) \in 1..from
    BY LineStartIs
  <1>8. \/ Column(from, col, p) = p - LineStart(p) + 1
        \/ \E q \in LineStart(p)..p - 1 : data[q] \in OtherSpace
    <2>1. CASE margin # from
      <3>1. Column(from, col, p) = 1 + Cardinality(Counted(margin)) /\ margin = LineStart(p)
        BY <1>3, <1>4, <2>1
      <3>2. CASE Odd(margin)
        BY <3>1, <3>2
      <3>3. CASE Cardinality(Counted(margin)) = p - margin
        BY <1>7, <3>1, <3>3
      <3> QED
        BY <1>5, <3>2, <3>3
    <2>2. CASE margin = from
      <3>1. /\ Column(from, col, p) = col + Cardinality(Counted(margin))
            /\ LineStart(p) = LineStart(from)
        BY <1>3, <1>4, <2>2, SameLine
      <3>2. CASE \E q \in LineStart(from)..from - 1 : data[q] \in OtherSpace
        <4>1. PICK q \in LineStart(from)..from - 1 : data[q] \in OtherSpace
          BY <3>2
        <4>2. q \in LineStart(p)..p - 1
          BY <1>7, <3>1, <4>1
        <4> QED
          BY <4>1, <4>2
      <3>3. CASE Odd(margin)
        <4>1. PICK q \in margin..p - 1 : data[q] \in OtherSpace
          BY <3>3
        <4>2. q \in LineStart(p)..p - 1
          BY <1>7, <2>2, <3>1, <4>1
        <4> QED
          BY <4>1, <4>2
      <3>4. CASE col = from - LineStart(from) + 1 /\ Cardinality(Counted(margin)) = p - margin
        BY <1>7, <2>2, <3>1, <3>4
      <3> QED
        BY <1>5, <3>2, <3>3, <3>4 DEF Placed
    <2> QED
      BY <2>1, <2>2
  <1> QED
    BY <1>1, <1>6, <1>8 DEF Placed

-----------------------------------------------------------------------------
(* One scan.                                                               *)

LEMMA AtIs ==
    ASSUME NEW pos, NEW line, NEW col, NEW token
    PROVE  /\ At(pos, line, col, token).pos = pos /\ At(pos, line, col, token).line = line
           /\ At(pos, line, col, token).col = col /\ At(pos, line, col, token).token = token
  BY DEF At

(* The token of look-ahead.                                                *)
LEMMA TokenAhead ==
    ASSUME TypeInv, lexer.token # {}
    PROVE  Token \in Tokens /\ lexer.token = {Token}
  <1>1. PICK t \in lexer.token : TRUE
    OBVIOUS
  <1>2. lexer.token = {t} /\ t \in Tokens
    BY <1>1 DEF TypeInv
  <1> QED
    BY <1>2 DEF Token

(* What a scan finds, and where it leaves the lexer.                       *)
LEMMA ScanIs ==
    ASSUME TypeInv, Between(lexer.pos), Placed(lexer.pos, lexer.line, lexer.col),
           lexer.token = {}
    PROVE  LET s == Scanned
               p == TokenStart(lexer.pos)
           IN
           /\ s.token \in Tokens /\ Token = s.token
           /\ p \in Nat /\ p >= lexer.pos
           /\ s.pos \in 1..Len(data) + 1 /\ s.line \in Nat /\ s.col \in Nat
           /\ s.pos = p + Len(s.token.value)
           /\ s.token.value = [j \in 1..Len(s.token.value) |-> data[p + j - 1]]
           /\ {x \in Code : x < s.pos} = {x \in Code : x < lexer.pos} \cup p..s.pos - 1
           /\ Between(s.pos)
           /\ Placed(s.pos, s.line, s.col)
           /\ s.token.type # "Eof" => Placed(p, s.token.line, s.token.col)
  <1> DEFINE p == TokenStart(lexer.pos)
             e == IF p > Len(data) THEN p ELSE TokenEnd(p)
             line == lexer.line + Cardinality(Newlines(lexer.pos, p))
             col == Column(lexer.pos, lexer.col, p)
             found == [type |-> TypeAt(p), value |-> SubSeq(data, p, e - 1),
                       line |-> line, col |-> col]
  <1>1. /\ data \in Seq(STRING) /\ Len(data) \in Nat /\ lexer.pos \in 1..Len(data) + 1
        /\ lexer.line \in Nat /\ lexer.col \in Nat
    BY DEF TypeInv
  <1>2. /\ Scanned = [token |-> IF p > Len(data) THEN EofToken ELSE found,
                      pos |-> e, line |-> line, col |-> col + (e - p)]
        /\ Token = Scanned.token
    BY DEF Scanned, ScannedFrom, Token
  <1>3. /\ Scanned.token = (IF p > Len(data) THEN EofToken ELSE found)
        /\ Scanned.pos = e /\ Scanned.line = line /\ Scanned.col = col + (e - p)
    BY <1>2
  <1>4. p \in lexer.pos..Len(data) + 1 /\ Begins(lexer.pos, p)
        /\ \A q \in lexer.pos..p - 1 : ~Begins(lexer.pos, q)
    BY <1>1, TokenStartIs
  <1>5. /\ e \in p..Len(data) + 1
        /\ p <= Len(data) => e \in p + 1..Len(data) + 1
    <2>1. CASE p > Len(data)
      BY <1>1, <1>4, <2>1
    <2>2. CASE ~(p > Len(data))
      <3>1. p \in 1..Len(data) /\ p \in lexer.pos..p
        BY <1>1, <1>4, <2>2
      <3> HIDE DEF p, e, line, col, found
      <3>4. ~(IsSpace(data[p]) \/ Commented(lexer.pos, p))
        BY <1>4, <2>2 DEF Begins
      <3>5. p \in lexer.pos..Len(data) + 1 /\ p <= Len(data)
        BY <1>4, <3>1
      <3>6. Commented(lexer.pos, p) <=> InComment(p)
        BY <1>1, <1>4, <3>1, <3>5, Skipped
      <3>2. ~IsSpace(data[p]) /\ ~InComment(p)
        BY <3>4, <3>6
      <3>3. TokenEnd(p) \in p + 1..Len(data) + 1
        BY <1>1, <3>1, <3>2, TokenExtent
      <3>7. e = TokenEnd(p)
        BY <2>2 DEF e
      <3> QED
        BY <1>1, <3>1, <3>3, <3>7
    <2> QED
      BY <2>1, <2>2
  <1>6. /\ {x \in Code : x < e} = {x \in Code : x < lexer.pos} \cup p..e - 1
        /\ Between(e)
        /\ \A q \in p..e - 1 : ~IsSpace(data[q])
        /\ \A q \in lexer.pos..p - 1 : IsSpace(data[q]) \/ Commented(lexer.pos, q)
    BY <1>1, <1>4, <1>5, ScanCovers
  <1> HIDE DEF p, e, line, col, found
  <1>7. /\ col \in Nat /\ line \in Nat /\ Placed(p, line, col)
    <2>1. /\ lexer.pos \in Nat /\ lexer.pos > 0 /\ p \in Nat /\ lexer.pos <= p
      BY <1>1, <1>4
    <2>2. Placed(lexer.pos, lexer.line, lexer.col)
      OBVIOUS
    <2> QED
      BY <1>1, <1>6, <2>1, <2>2, SkipPlaced DEF line, col
  <1>8. Placed(e, line, col + (e - p)) /\ col + (e - p) \in Nat
    <2>1. \A q \in p..e - 1 : data[q] # Newline
      BY <1>6 DEF IsSpace
    <2>2. p \in Nat /\ p > 0 /\ e \in Nat /\ p <= e
      BY <1>1, <1>4, <1>5
    <2> QED
      BY <1>7, <2>1, <2>2, TokenPlaced
  <1>9. CASE p > Len(data)
    <2>1. e = p /\ Scanned.token = EofToken
      BY <1>3, <1>9 DEF e
    <2>2. EofToken \in Tokens /\ Len(EofToken.value) = 0 /\ EofToken.type = "Eof"
          /\ EofToken.value = <<>>
      BY DEF EofToken, Tokens, TokenType
    <2>3. EofToken.value = [j \in 1..Len(EofToken.value) |-> data[p + j - 1]]
      BY <2>2
    <2> QED
      BY <1>1, <1>2, <1>3, <1>4, <1>5, <1>6, <1>7, <1>8, <2>1, <2>2, <2>3 DEF p
  <1>10. CASE ~(p > Len(data))
    <2>1. Scanned.token = found
      BY <1>3, <1>10
    <2>2. TypeAt(p) \in TokenType /\ TypeAt(p) # "Eof"
      <3>1. {"Arrow", "Symbol"} \subseteq TokenType \ {"Eof"}
        BY DEF TokenType
      <3> QED
        BY <3>1, TokenTypeAssumption DEF TypeAt
    <2> DEFINE value == SubSeq(data, p, e - 1)
    <2>3. p \in Nat /\ e \in Nat /\ p \in Int /\ e - 1 \in Int /\ p <= e - 1 /\ p >= 1 /\ e - 1 <= Len(data)
      BY <1>1, <1>4, <1>5, <1>10
    <2>4. \A q \in p..e - 1 : data[q] \in STRING
      BY <1>1, <2>3
    <2>5. /\ value \in Seq(STRING)
          /\ Len(value) = IF p <= e - 1 THEN (e - 1) - p + 1 ELSE 0
          /\ \A j \in 1..(e - 1) - p + 1 : value[j] = data[p + j - 1]
      BY <2>3, <2>4, SubSeqProperties
    <2> HIDE DEF value
    <2>6. Len(value) = e - p /\ Len(value) \in Nat /\ (e - 1) - p + 1 = e - p
      <3>1. Len(value) = (e - 1) - p + 1
        BY <2>3, <2>5
      <3> HIDE DEF e, p
      <3> QED
        BY ONLY <2>3, <3>1
    <2>7. value = [j \in 1..Len(value) |-> data[p + j - 1]]
      BY <2>5, <2>6
    <2>8. found \in Tokens /\ found.value = value /\ found.type # "Eof"
          /\ found.line = line /\ found.col = col
      BY <1>7, <2>2, <2>5 DEF found, Tokens, value
    <2>9. e = p + Len(found.value)
      BY ONLY <2>3, <2>6, <2>8
    <2>10. /\ Scanned.token \in Tokens /\ Scanned.token.value = value
           /\ Scanned.token.line = line /\ Scanned.token.col = col
      BY <2>1, <2>8
    <2>11. e \in 1..Len(data) + 1 /\ p \in Nat /\ p >= lexer.pos
      BY <1>1, <1>4, <1>5
    <2>12. /\ Scanned.pos = p + Len(Scanned.token.value)
           /\ Scanned.token.value = [j \in 1..Len(Scanned.token.value) |-> data[p + j - 1]]
      BY <1>3, <2>7, <2>8, <2>9, <2>10
    <2>13. Placed(p, Scanned.token.line, Scanned.token.col)
      BY <1>7, <2>10
    <2>14. Scanned.pos = e /\ Scanned.line = line /\ Scanned.col = col + (e - p)
      BY <1>3
    <2>15. Token = Scanned.token
      BY <1>2
    <2> QED
      BY <1>6, <1>7, <1>8, <2>10, <2>11, <2>12, <2>13, <2>14, <2>15 DEF p
  <1> QED
    BY <1>9, <1>10

LEMMA FoundAppended ==
    ASSUME NEW found \in Seq(Scans), NEW scan \in Scans
    PROVE  /\ Append(found, scan) \in Seq(Scans)
           /\ Len(Append(found, scan)) = Len(found) + 1
           /\ \A i \in 1..Len(found) : Append(found, scan)[i] = found[i]
           /\ Append(found, scan)[Len(found) + 1] = scan
           /\ TokensOf(found) \in Seq(Tokens)
           /\ TokensOf(Append(found, scan)) = Append(TokensOf(found), scan.token)
  <1>1. Len(found) \in Nat /\ \A i \in 1..Len(found) : found[i] \in Scans
    OBVIOUS
  <1>2. \A s \in Scans : s.token \in Tokens
    BY DEF Scans
  <1>3. TokensOf(found) = [i \in 1..Len(found) |-> found[i].token]
    BY DEF TokensOf
  <1>4. TokensOf(found) \in Seq(Tokens) /\ Len(TokensOf(found)) = Len(found)
    BY <1>1, <1>2, <1>3
  <1> DEFINE longer == Append(found, scan)
             tokens == Append(TokensOf(found), scan.token)
  <1>5. /\ longer \in Seq(Scans) /\ Len(longer) = Len(found) + 1
        /\ \A i \in 1..Len(found) : longer[i] = found[i]
        /\ longer[Len(found) + 1] = scan
    BY <1>1
  <1>6. /\ tokens \in Seq(Tokens) /\ Len(tokens) = Len(found) + 1
        /\ \A i \in 1..Len(found) : tokens[i] = found[i].token
        /\ tokens[Len(found) + 1] = scan.token
    BY <1>1, <1>2, <1>3, <1>4
  <1> HIDE DEF longer, tokens
  <1>7. TokensOf(longer) = [i \in 1..Len(found) + 1 |-> longer[i].token]
    BY <1>5 DEF TokensOf
  <1>8. tokens = [i \in 1..Len(found) + 1 |-> tokens[i]]
    BY <1>6
  <1>9. \A i \in 1..Len(found) + 1 : tokens[i] = longer[i].token
    <2> SUFFICES ASSUME NEW i \in 1..Len(found) + 1
                 PROVE  tokens[i] = longer[i].token
      OBVIOUS
    <2>1. i \in 1..Len(found) \/ i = Len(found) + 1
      BY <1>1
    <2> QED
      BY <1>5, <1>6, <2>1
  <1>10. TokensOf(longer) = tokens
    BY <1>7, <1>8, <1>9
  <1> QED
    BY <1>4, <1>5, <1>10 DEF longer, tokens

LEMMA TextStays ==
    ASSUME UNCHANGED data
    PROVE  /\ Code' = Code
           /\ \A n : Between(n)' <=> Between(n)
           /\ \A n, l, c : Placed(n, l, c)' <=> Placed(n, l, c)
           /\ \A s : AsWritten(s)' <=> AsWritten(s)
  <1>1. \A n : InComment(n)' <=> InComment(n)
    BY DEF InComment, StartsComment, IsSpace
  <1>2. Code' = Code
    BY DEF Code, InComment, StartsComment, IsSpace
  <1>3. \A n : Between(n)' <=> Between(n)
    BY DEF Between, Edge, InComment, StartsComment, IsSpace
  <1>4. \A n, l, c : Placed(n, l, c)' <=> Placed(n, l, c)
    BY DEF Placed, LineOf, LineStart, Newlines
  <1>5. \A s : AsWritten(s)' <=> AsWritten(s)
    BY DEF AsWritten
  <1> QED
    BY <1>2, <1>3, <1>4, <1>5

(* What next() and peek() do without a token of look-ahead.                *)
LEMMA ScanKeeps ==
    ASSUME LexerInv, lexer.token = {}, UNCHANGED <<data, stale>>,
           scans' = Append(scans, Found),
           \/ lexer' = AfterScan({}) /\ read' = Append(read, Token)
           \/ lexer' = AfterScan({Token}) /\ read' = read
    PROVE  LexerInv'
  <1> DEFINE n == Len(scans)
  <1>1. /\ TypeInv /\ TokensAreTheText /\ Between(lexer.pos)
        /\ Placed(lexer.pos, lexer.line, lexer.col) /\ PositionsExact
        /\ \A i \in stale + 1..n : Behind(scans[i])
    BY DEF LexerInv
  <1>2. PICK s, p : s = Scanned /\ p = TokenStart(lexer.pos)
    OBVIOUS
  <1>3. /\ s.token \in Tokens /\ Token = s.token
        /\ p \in Nat /\ p >= lexer.pos
        /\ s.pos \in 1..Len(data) + 1 /\ s.line \in Nat /\ s.col \in Nat
        /\ s.pos = p + Len(s.token.value)
        /\ s.token.value = [j \in 1..Len(s.token.value) |-> data[p + j - 1]]
        /\ {x \in Code : x < s.pos} = {x \in Code : x < lexer.pos} \cup p..s.pos - 1
        /\ Between(s.pos)
        /\ Placed(s.pos, s.line, s.col)
        /\ s.token.type # "Eof" => Placed(p, s.token.line, s.token.col)
    BY <1>1, <1>2, ScanIs
  <1>4. PICK scan : scan = [token |-> s.token, at |-> p]
    OBVIOUS
  <1>5. /\ scan \in Scans /\ scan.token = s.token /\ scan.at = p
        /\ Found = scan
    BY <1>2, <1>3, <1>4 DEF Scans, Found
  <1>6. /\ data \in Seq(STRING) /\ read \in Seq(Tokens) /\ scans \in Seq(Scans)
        /\ stale \in Nat /\ n \in Nat /\ lexer.pos \in Nat
    BY <1>1 DEF TypeInv
  <1>7. /\ scans' \in Seq(Scans) /\ Len(scans') = n + 1
        /\ \A i \in 1..n : scans'[i] = scans[i]
        /\ scans'[n + 1] = scan
        /\ TokensOf(scans) \in Seq(Tokens)
        /\ TokensOf(scans)' = Append(TokensOf(scans), s.token)
        /\ DOMAIN scans = 1..n /\ DOMAIN scans' = 1..n + 1
    BY <1>5, <1>6, FoundAppended
  <1>8. /\ lexer' = At(s.pos, s.line, s.col, lexer'.token)
        /\ lexer'.pos = s.pos /\ lexer'.line = s.line /\ lexer'.col = s.col
    BY <1>2 DEF AfterScan, At
  <1>9. \/ lexer'.token = {} /\ read' = Append(read, s.token)
        \/ lexer'.token = {s.token} /\ read' = read
    BY <1>2, <1>3 DEF AfterScan, At
  <1>10. \A i \in 1..n + 1 : i \in 1..n \/ i = n + 1
    BY <1>6
  <1> HIDE DEF n
  <1>11. TypeInv'
    <2>1. lexer'.pos \in 1..Len(data') + 1 /\ lexer'.line \in Nat /\ lexer'.col \in Nat
      BY <1>3, <1>8
    <2>2. lexer'.token \subseteq Tokens /\ \A t, u \in lexer'.token : t = u
      BY <1>3, <1>9
    <2>3. read' \in Seq(Tokens)
      <3>1. Append(read, s.token) \in Seq(Tokens)
        BY <1>3, <1>6, AppendRange
      <3> QED
        BY <1>6, <1>9, <3>1
    <2>4. lexer' = At(lexer'.pos, lexer'.line, lexer'.col, lexer'.token)
      BY <1>8
    <2>5. data' \in Seq(STRING) /\ scans' \in Seq(Scans) /\ stale' \in Nat
      BY <1>6, <1>7
    <2> QED
      BY <2>1, <2>2, <2>3, <2>4, <2>5 DEF TypeInv, At
  <1>12. TokensAreReturned'
    <2>1. read \o Ahead = TokensOf(scans) /\ Ahead = <<>>
      BY <1>1 DEF TokensAreTheText, TokensAreReturned, Ahead
    <2>2. read = TokensOf(scans)
      BY <1>6, <2>1
    <2>3. CASE lexer'.token = {} /\ read' = Append(read, s.token)
      <3>1. Ahead' = <<>>
        BY <2>3 DEF Ahead
      <3>2. read' \in Seq(Tokens)
        BY <1>3, <1>6, <2>3
      <3> QED
        BY <1>7, <2>2, <2>3, <3>1, <3>2 DEF TokensAreReturned
    <2>4. CASE lexer'.token = {s.token} /\ read' = read
      <3>1. Token' = s.token
        BY <2>4 DEF Token
      <3>2. Ahead' = <<s.token>>
        BY <2>4, <3>1 DEF Ahead
      <3>3. read \o <<s.token>> = Append(read, s.token)
        BY <1>3, <1>6
      <3> QED
        BY <1>7, <2>2, <2>4, <3>2, <3>3 DEF TokensAreReturned
    <2> QED
      BY <1>9, <2>3, <2>4
  <1>13. stale' <= 1 /\ stale' <= Len(scans') /\ stale <= n
    BY <1>1, <1>6, <1>7 DEF TokensAreTheText, n
  <1>14. ASSUME NEW i \in DOMAIN scans'
         PROVE  AsWritten(scans'[i])
    <2>1. CASE i \in 1..n
      BY <1>1, <1>7, <2>1 DEF TokensAreTheText
    <2>2. CASE i = n + 1
      <3>1. AsWritten(scan)
        BY <1>3, <1>5 DEF AsWritten
      <3>2. scans'[i] = scan
        BY <1>7, <2>2
      <3> QED
        BY <3>1, <3>2
    <2> QED
      BY <1>7, <1>10, <2>1, <2>2
  <1>15. ASSUME NEW i \in stale + 1..n
         PROVE  /\ i \in 1..n /\ scans'[i] = scans[i]
                /\ scans[i].at + Len(scans[i].token.value) <= lexer.pos
                /\ scans[i].at + Len(scans[i].token.value) \in Nat
    <2>1. i \in 1..n /\ scans'[i] = scans[i]
      BY <1>6, <1>7
    <2>2. scans[i].at + Len(scans[i].token.value) <= lexer.pos
      BY <1>1 DEF Behind, n
    <2>3. scans[i] \in Scans
      BY <1>6, <1>7, <2>1
    <2>4. scans[i].at \in Nat /\ scans[i].token.value \in Seq(STRING)
      BY <2>3 DEF Scans, Tokens
    <2>5. scans[i].at + Len(scans[i].token.value) \in Nat
      BY <2>4
    <2> QED
      BY <2>1, <2>2, <2>5
  <1>16. InOrder'
    <2> SUFFICES ASSUME NEW i \in DOMAIN scans', NEW j \in DOMAIN scans', stale < i, i < j
                 PROVE  scans'[i].at + Len(scans'[i].token.value) <= scans'[j].at
      BY DEF InOrder
    <2>1. i \in 1..n /\ i \in stale + 1..n
      BY <1>6, <1>7
    <2>2. CASE j \in 1..n
      <3>1. InOrder
        BY <1>1 DEF TokensAreTheText
      <3> QED
        BY <1>7, <2>1, <2>2, <3>1 DEF InOrder
    <2>3. CASE j = n + 1
      <3>1. scans'[j].at = p /\ scans'[i] = scans[i]
        BY <1>5, <1>7, <2>1, <2>3
      <3>2. scans[i].at + Len(scans[i].token.value) <= lexer.pos
        BY <1>15, <2>1
      <3>3. scans[i].at + Len(scans[i].token.value) \in Nat
        BY <1>15, <2>1
      <3>4. PICK last : last = scans[i].at + Len(scans[i].token.value)
        OBVIOUS
      <3>5. last <= p
        BY <1>3, <1>6, <3>2, <3>3, <3>4
      <3> QED
        BY <3>1, <3>4, <3>5
    <2> QED
      BY <1>7, <1>10, <2>2, <2>3
  <1>17. UNION {Extent(scans'[i]) : i \in stale' + 1..Len(scans')} = {x \in Code' : x < lexer'.pos}
    <2>1. UNION {Extent(scans[i]) : i \in stale + 1..n} = {x \in Code : x < lexer.pos}
      BY <1>1 DEF TokensAreTheText, n
    <2>2. \A i \in stale + 1..n : scans'[i] = scans[i]
      BY <1>15
    <2>3. \A i : i \in stale + 1..n + 1 <=> i \in stale + 1..n \/ i = n + 1
      BY <1>6, <1>13
    <2>4. UNION {Extent(scans'[i]) : i \in stale + 1..n + 1} =
            (UNION {Extent(scans[i]) : i \in stale + 1..n}) \cup Extent(scan)
      <3>1. {scans'[i] : i \in stale + 1..n + 1} = {scans[i] : i \in stale + 1..n} \cup {scan}
        BY <1>7, <2>2, <2>3
      <3>2. \A I : {Extent(scans'[i]) : i \in I} = {Extent(t) : t \in {scans'[i] : i \in I}}
        OBVIOUS
      <3>3. \A I : {Extent(scans[i]) : i \in I} = {Extent(t) : t \in {scans[i] : i \in I}}
        OBVIOUS
      <3>4. PICK old : old = {scans[i] : i \in stale + 1..n}
        OBVIOUS
      <3>5. {Extent(t) : t \in old \cup {scan}} = {Extent(t) : t \in old} \cup {Extent(scan)}
        OBVIOUS
      <3>6. {Extent(scans'[i]) : i \in stale + 1..n + 1} = {Extent(t) : t \in old} \cup {Extent(scan)}
        BY <3>1, <3>2, <3>4, <3>5
      <3>7. {Extent(scans[i]) : i \in stale + 1..n} = {Extent(t) : t \in old}
        BY <3>3, <3>4
      <3> QED
        BY <3>6, <3>7
    <2>5. Extent(scan) = p..s.pos - 1
      BY <1>3, <1>5 DEF Extent
    <2>6. Code' = Code
      BY TextStays
    <2>7. {x \in Code' : x < lexer'.pos} = {x \in Code : x < lexer.pos} \cup p..s.pos - 1
      BY <1>3, <1>8, <2>6
    <2>8. stale' + 1..Len(scans') = stale + 1..n + 1
      BY <1>7
    <2> QED
      BY <2>1, <2>4, <2>5, <2>7, <2>8
  <1>18. TokensAreTheText'
    BY <1>12, <1>13, <1>14, <1>16, <1>17, TextStays DEF TokensAreTheText, Extent
  <1>19. \A i \in stale' + 1..Len(scans') : Behind(scans[i])'
    <2> SUFFICES ASSUME NEW i \in stale + 1..n + 1
                 PROVE  scans'[i].at + Len(scans'[i].token.value) <= lexer'.pos
      BY <1>7 DEF Behind
    <2>1. CASE i = n + 1
      <3>1. s.pos \in Nat /\ lexer'.pos = s.pos
        BY <1>3, <1>6, <1>8
      <3>2. scans'[i].at + Len(scans'[i].token.value) = s.pos
        BY <1>3, <1>5, <1>7, <2>1
      <3>3. s.pos <= s.pos
        BY ONLY <3>1
      <3> QED
        BY <3>1, <3>2, <3>3
    <2>2. CASE i \in stale + 1..n
      <3>1. s.pos \in Nat /\ s.pos >= lexer.pos
        <4>1. s.token.value \in Seq(STRING)
          BY <1>3 DEF Tokens
        <4>2. Len(s.token.value) \in Nat
          BY <4>1
        <4> QED
          BY <1>3, <1>6, <4>2
      <3>2. PICK last : last = scans[i].at + Len(scans[i].token.value)
        OBVIOUS
      <3>3. last \in Nat /\ last <= lexer.pos /\ scans'[i] = scans[i]
        BY <1>15, <2>2, <3>2
      <3>4. last <= s.pos
        BY <1>6, <3>1, <3>3
      <3> QED
        BY <1>8, <3>2, <3>3, <3>4
    <2>3. i = n + 1 \/ i \in stale + 1..n
      BY <1>6, <1>13
    <2> QED
      BY <2>1, <2>2, <2>3
  <1>20. Between(lexer.pos)'
    <2>1. Between(s.pos)'
      BY <1>3, TextStays
    <2> QED
      BY <1>8, <2>1 DEF Between, Edge, InComment, StartsComment, IsSpace
  <1>21. Placed(lexer.pos, lexer.line, lexer.col)'
    <2>1. Placed(s.pos, s.line, s.col)'
      BY <1>3, TextStays
    <2> QED
      BY <1>8, <2>1 DEF Placed, LineOf, LineStart, Newlines
  <1>22. PositionsExact'
    <2>1. ASSUME NEW i \in DOMAIN scans', scans'[i].token.type # "Eof"
          PROVE  Placed(scans'[i].at, scans'[i].token.line, scans'[i].token.col)
      <3>1. CASE i \in 1..n
        BY <1>1, <1>7, <2>1, <3>1 DEF PositionsExact
      <3>2. CASE i = n + 1
        BY <1>3, <1>5, <1>7, <2>1, <3>2
      <3> QED
        BY <1>7, <1>10, <3>1, <3>2
    <2>2. data' = data
      OBVIOUS
    <2> QED
      BY ONLY <2>1, <2>2 DEF PositionsExact, Placed, LineOf, LineStart, Newlines
  <1> QED
    BY <1>11, <1>18, <1>19, <1>20, <1>21, <1>22 DEF LexerInv

(* next() and peek() with a token of look-ahead.                           *)
LEMMA AheadKeeps ==
    ASSUME LexerInv, lexer.token # {}, UNCHANGED <<data, scans, stale>>,
           \/ lexer' = [lexer EXCEPT !.token = {}] /\ read' = Append(read, Token)
           \/ lexer' = lexer /\ read' = read
    PROVE  LexerInv'
  <1>1. TypeInv /\ TokensAreTheText /\ Between(lexer.pos)
    BY DEF LexerInv
  <1>2. PICK t : t = Token
    OBVIOUS
  <1>3. t \in Tokens /\ lexer.token = {t}
    BY <1>1, <1>2, TokenAhead
  <1>4. /\ lexer = At(lexer.pos, lexer.line, lexer.col, lexer.token)
        /\ read \in Seq(Tokens)
    BY <1>1 DEF TypeInv
  <1>5. /\ lexer' = At(lexer.pos, lexer.line, lexer.col, lexer'.token)
        /\ lexer'.pos = lexer.pos /\ lexer'.line = lexer.line /\ lexer'.col = lexer.col
    BY <1>4 DEF At
  <1>6. \/ lexer'.token = {} /\ read' = Append(read, t)
        \/ lexer'.token = {t} /\ read' = read
    BY <1>2, <1>3, <1>4 DEF At
  <1>7. TypeInv'
    <2>1. read' \in Seq(Tokens)
      <3>1. Append(read, t) \in Seq(Tokens)
        BY <1>3, <1>4, AppendRange
      <3> QED
        BY <1>4, <1>6, <3>1
    <2>2. lexer'.token \subseteq Tokens /\ \A a, b \in lexer'.token : a = b
      BY <1>3, <1>6
    <2> QED
      BY <1>1, <1>5, <2>1, <2>2 DEF TypeInv, At
  <1>8. TokensAreReturned'
    <2>1. Ahead = <<t>>
      BY <1>2, <1>3 DEF Ahead
    <2>2. TokensOf(scans) = Append(read, t)
      <3>1. read \o <<t>> = Append(read, t)
        BY <1>3, <1>4
      <3> QED
        BY <1>1, <2>1, <3>1 DEF TokensAreTheText, TokensAreReturned
    <2>3. TokensOf(scans)' = TokensOf(scans)
      BY DEF TokensOf
    <2>4. CASE lexer'.token = {} /\ read' = Append(read, t)
      <3>1. Ahead' = <<>>
        BY <2>4 DEF Ahead
      <3>2. Append(read, t) \in Seq(Tokens)
        BY <1>3, <1>4, AppendRange
      <3>3. Append(read, t) \o <<>> = Append(read, t)
        BY <3>2
      <3> QED
        BY <2>2, <2>3, <2>4, <3>1, <3>3 DEF TokensAreReturned
    <2>5. CASE lexer'.token = {t} /\ read' = read
      <3>1. Token' = t
        BY <2>5 DEF Token
      <3>2. Ahead' = <<t>>
        BY <2>5, <3>1 DEF Ahead
      <3>3. read' \o Ahead' = read \o <<t>>
        BY <2>5, <3>2
      <3> QED
        BY <1>1, <2>1, <2>3, <3>3 DEF TokensAreReturned, TokensAreTheText
    <2> QED
      BY <1>6, <2>4, <2>5
  <1>9. TokensAreTheText'
    <2>1. UNION {Extent(scans'[i]) : i \in stale' + 1..Len(scans')} = {x \in Code' : x < lexer'.pos}
      BY <1>1, <1>5, TextStays DEF TokensAreTheText
    <2>2. InOrder'
      BY <1>1 DEF TokensAreTheText, InOrder
    <2> QED
      BY <1>1, <1>8, <2>1, <2>2, TextStays DEF TokensAreTheText, Extent
  <1>10. \A i \in stale' + 1..Len(scans') : Behind(scans[i])'
    BY <1>5 DEF LexerInv, Behind
  <1>11. Between(lexer.pos)'
    BY <1>1, <1>5 DEF Between, Edge, InComment, StartsComment, IsSpace
  <1>12. Placed(lexer.pos, lexer.line, lexer.col)'
    BY <1>5 DEF LexerInv, Placed, LineOf, LineStart, Newlines
  <1>13. PositionsExact'
    BY DEF LexerInv, PositionsExact, Placed, LineOf, LineStart, Newlines
  <1> QED
    BY <1>7, <1>9, <1>10, <1>11, <1>12, <1>13 DEF LexerInv

-----------------------------------------------------------------------------
(* A text's start.                                                         *)

(* The lexer is at the start of a text, with at most a token of before.    *)
AtStart ==
    /\ data \in Seq(STRING)
    /\ lexer = At(1, 1, 1, lexer.token)
    /\ lexer.token \subseteq Tokens /\ \A t, u \in lexer.token : t = u
    /\ read = <<>> /\ scans \in Seq(Scans)
    /\ stale = Len(scans) /\ stale <= 1
    /\ TokensAreReturned
    /\ \A i \in DOMAIN scans : AsWritten(scans[i])
    /\ PositionsExact

LEMMA StartPlaced ==
    ASSUME data \in Seq(STRING)
    PROVE  Between(1) /\ Placed(1, 1, 1) /\ {x \in Code : x < 1} = {}
  <1>1. Between(1)
    BY DEF Between, Edge
  <1>2. Newlines(1, 1) = {}
    BY DEF Newlines
  <1>3. LineOf(1) = 1
    <2>1. Cardinality(Newlines(1, 1)) = 0
      BY <1>2, FS_EmptySet
    <2> QED
      BY <2>1 DEF LineOf
  <1>4. LineStart(1) = 1
    <2>1. LineStart(1) \in 1..1
      BY LineStartIs
    <2> QED
      BY <2>1
  <1>5. {x \in Code : x < 1} = {}
    BY DEF Code
  <1> QED
    BY <1>1, <1>3, <1>4, <1>5 DEF Placed

LEMMA StartsWell == AtStart => LexerInv
  <1> SUFFICES ASSUME AtStart
               PROVE  LexerInv
    OBVIOUS
  <1>1. /\ data \in Seq(STRING) /\ lexer = At(1, 1, 1, lexer.token)
        /\ read = <<>> /\ scans \in Seq(Scans)
        /\ stale = Len(scans) /\ stale <= 1
    BY DEF AtStart
  <1>2. lexer.pos = 1 /\ lexer.line = 1 /\ lexer.col = 1
    BY <1>1, AtIs
  <1>3. Len(data) \in Nat /\ stale \in Nat /\ stale + 1..Len(scans) = {}
    BY <1>1
  <1>4. TypeInv
    <2>1. read \in Seq(Tokens)
      BY <1>1
    <2> QED
      BY <1>1, <1>2, <1>3, <2>1 DEF AtStart, TypeInv, At
  <1>5. InOrder
    BY <1>1, <1>3 DEF InOrder
  <1>6. UNION {Extent(scans[i]) : i \in stale + 1..Len(scans)} = {x \in Code : x < lexer.pos}
    <2>1. UNION {Extent(scans[i]) : i \in stale + 1..Len(scans)} = {}
      BY <1>3
    <2>2. {x \in Code : x < 1} = {}
      BY <1>1, StartPlaced
    <2> QED
      BY <1>2, <2>1, <2>2
  <1>7. TokensAreTheText
    BY <1>1, <1>3, <1>5, <1>6 DEF AtStart, TokensAreTheText
  <1>8. Between(lexer.pos) /\ Placed(lexer.pos, lexer.line, lexer.col)
    BY <1>1, <1>2, StartPlaced
  <1> QED
    BY <1>3, <1>4, <1>7, <1>8 DEF AtStart, LexerInv

LEMMA FirstText == LexerInit => LexerInv
  <1>1. LexerInit => AtStart
    <2> SUFFICES ASSUME LexerInit
                 PROVE  AtStart
      OBVIOUS
    <2>1. lexer = At(1, 1, 1, lexer.token) /\ lexer.token = {}
      BY DEF LexerInit, LexerStart, At
    <2>2. TokensAreReturned
      BY <2>1 DEF LexerInit, TokensAreReturned, Ahead, TokensOf
    <2>3. PositionsExact
      BY DEF LexerInit, PositionsExact
    <2> QED
      BY <2>1, <2>2, <2>3 DEF LexerInit, AtStart
  <1> QED
    BY <1>1, StartsWell

LEMMA NextText ==
    ASSUME NEW text \in Seq(STRING), Opens(text)
    PROVE  AtStart'
  <1>1. lexer' = At(1, 1, 1, lexer'.token) /\ lexer'.token = {}
    BY DEF Opens, LexerStart, At
  <1>2. TokensAreReturned'
    BY <1>1 DEF Opens, TokensAreReturned, Ahead, TokensOf
  <1>3. PositionsExact'
    BY DEF Opens, PositionsExact
  <1> QED
    BY <1>1, <1>2, <1>3 DEF Opens, AtStart

(* reset() keeps a token of look-ahead, and the lexer starts with it.      *)
LEMMA Restarts ==
    ASSUME LexerInv, Reset
    PROVE  AtStart'
  <1>1. TypeInv /\ TokensAreTheText /\ PositionsExact
    BY DEF LexerInv
  <1>2. /\ lexer' = At(1, 1, 1, lexer.token) /\ lexer'.token = lexer.token
        /\ lexer' = At(1, 1, 1, lexer'.token)
    BY AtIs DEF Reset, Restarted
  <1>3. read' = <<>> /\ data' = data /\ stale' = Len(scans')
    BY DEF Reset
  <1>4. /\ data \in Seq(STRING) /\ read \in Seq(Tokens) /\ scans \in Seq(Scans)
        /\ lexer.token \subseteq Tokens /\ \A t, u \in lexer.token : t = u
    BY <1>1 DEF TypeInv
  <1>5. CASE lexer.token = {}
    <2>1. scans' = <<>>
      BY <1>5 DEF Reset
    <2>2. TokensAreReturned'
      BY <1>2, <1>3, <1>5, <2>1 DEF TokensAreReturned, Ahead, TokensOf
    <2>3. PositionsExact'
      BY <2>1 DEF PositionsExact
    <2> QED
      BY <1>2, <1>3, <1>4, <2>1, <2>2, <2>3 DEF AtStart
  <1>6. CASE lexer.token # {}
    <2>1. PICK t : t = Token
      OBVIOUS
    <2>2. t \in Tokens /\ lexer.token = {t}
      BY <1>1, <1>6, <2>1, TokenAhead
    <2>3. Ahead = <<t>>
      BY <1>6, <2>1 DEF Ahead
    <2>4. TokensOf(scans) = Append(read, t)
      <3>1. read \o <<t>> = Append(read, t)
        BY <1>4, <2>2
      <3> QED
        BY <1>1, <2>3, <3>1 DEF TokensAreTheText, TokensAreReturned
    <2> DEFINE n == Len(scans)
    <2>5. n \in Nat /\ n > 0 /\ scans[n].token = t /\ n \in DOMAIN scans
      <3>1. /\ Append(read, t) \in Seq(Tokens) /\ Len(Append(read, t)) = Len(read) + 1
            /\ Len(read) \in Nat /\ Append(read, t)[Len(read) + 1] = t
        BY <1>4, <2>2
      <3>2. TokensOf(scans) = [i \in 1..n |-> scans[i].token] /\ n \in Nat /\ DOMAIN scans = 1..n
        BY <1>4 DEF TokensOf
      <3>3. DOMAIN TokensOf(scans) = 1..n
        BY <3>2
      <3>4. DOMAIN Append(read, t) = 1..Len(read) + 1
        BY <3>1
      <3>5. n = Len(read) + 1
        <4> HIDE DEF n
        <4>1. 1..n = 1..Len(read) + 1 /\ n \in Nat /\ Len(read) \in Nat
          BY <2>4, <3>1, <3>2, <3>3, <3>4
        <4> QED
          BY <4>1
      <3>6. n \in 1..n
        BY <3>1, <3>2, <3>5
      <3>7. scans[n].token = Append(read, t)[n]
        BY <2>4, <3>2, <3>6
      <3> QED
        BY <3>1, <3>2, <3>5, <3>6, <3>7
    <2>6. PICK last : last = scans[n]
      OBVIOUS
    <2>7. last \in Scans /\ last.token = t
      BY <1>4, <2>5, <2>6
    <2>8. scans' = <<last>>
      BY <1>6, <2>6 DEF Reset
    <2>9. /\ scans' \in Seq(Scans) /\ Len(scans') = 1 /\ DOMAIN scans' = {1} /\ scans'[1] = last
      BY <2>7, <2>8
    <2>10. TokensAreReturned'
      <3>1. Token' = t
        BY <1>2, <2>2 DEF Token
      <3>2. Ahead' = <<t>>
        BY <1>2, <2>2, <3>1 DEF Ahead
      <3>3. TokensOf(scans)' = <<t>>
        <4>1. TokensOf(scans)' = [i \in {1} |-> t]
          BY <2>7, <2>9 DEF TokensOf
        <4> QED
          BY <4>1
      <3>4. <<>> \o <<t>> = <<t>>
        BY <2>2
      <3> QED
        BY <1>3, <3>2, <3>3, <3>4 DEF TokensAreReturned
    <2>11. \A i \in DOMAIN scans' : AsWritten(scans'[i])
      BY <1>1, <2>5, <2>6, <2>9 DEF TokensAreTheText
    <2>12. PositionsExact'
      <3>1. last.token.type # "Eof" => Placed(last.at, last.token.line, last.token.col)
        BY <1>1, <2>5, <2>6 DEF PositionsExact
      <3>2. last.token.type # "Eof" => Placed(last.at, last.token.line, last.token.col)'
        BY <1>3, <3>1, TextStays
      <3> QED
        BY <2>9, <3>2 DEF PositionsExact, Placed, LineOf, LineStart, Newlines
    <2>13. stale' <= 1
      BY <1>3, <2>9
    <2> QED
      BY <1>2, <1>3, <1>4, <2>9, <2>10, <2>11, <2>12, <2>13, TextStays DEF AtStart
  <1> QED
    BY <1>5, <1>6

-----------------------------------------------------------------------------
(* Every step.                                                             *)

LEMMA NothingRead ==
    ASSUME LexerInv, UNCHANGED lexerVars
    PROVE  LexerInv'
  <1>1. data' = data /\ lexer' = lexer /\ read' = read /\ scans' = scans /\ stale' = stale
    BY DEF lexerVars, history
  <1>2. CASE lexer.token # {}
    BY <1>1, <1>2, AheadKeeps
  <1>3. CASE lexer.token = {}
    <2>1. TypeInv'
      BY <1>1 DEF LexerInv, TypeInv, At
    <2>2. TokensAreReturned'
      BY <1>1, <1>3 DEF LexerInv, TokensAreTheText, TokensAreReturned, Ahead, TokensOf
    <2>3. InOrder'
      BY <1>1 DEF LexerInv, TokensAreTheText, InOrder
    <2>4. TokensAreTheText'
      BY <1>1, <2>2, <2>3, TextStays DEF LexerInv, TokensAreTheText, Extent
    <2>5. \A i \in stale' + 1..Len(scans') : Behind(scans[i])'
      BY <1>1 DEF LexerInv, Behind
    <2>6. Between(lexer.pos)'
      BY <1>1 DEF LexerInv, Between, Edge, InComment, StartsComment, IsSpace
    <2>7. Placed(lexer.pos, lexer.line, lexer.col)'
      BY <1>1 DEF LexerInv, Placed, LineOf, LineStart, Newlines
    <2>8. PositionsExact'
      BY <1>1 DEF LexerInv, PositionsExact, Placed, LineOf, LineStart, Newlines
    <2> QED
      BY <2>1, <2>4, <2>5, <2>6, <2>7, <2>8 DEF LexerInv
  <1> QED
    BY <1>2, <1>3

LEMMA LexerInvKept == LexerInv /\ [LexerNext]_lexerVars => LexerInv'
  <1> SUFFICES ASSUME LexerInv, [LexerNext]_lexerVars
               PROVE  LexerInv'
    OBVIOUS
  <1>0. AtStart' => LexerInv'
    BY StartsWell, PTL
  <1>1. CASE NextToken
    <2>1. CASE lexer.token = {}
      BY <1>1, <2>1, ScanKeeps DEF NextToken, Finds
    <2>2. CASE lexer.token # {}
      BY <1>1, <2>2, AheadKeeps DEF NextToken, Finds
    <2> QED
      BY <2>1, <2>2
  <1>2. CASE PeekToken
    <2>1. CASE lexer.token = {}
      BY <1>2, <2>1, ScanKeeps DEF PeekToken, Finds
    <2>2. CASE lexer.token # {}
      BY <1>2, <2>2, AheadKeeps DEF PeekToken, Finds
    <2> QED
      BY <2>1, <2>2
  <1>3. CASE Reset
    BY <1>0, <1>3, Restarts
  <1>4. CASE \E text \in Seq(STRING) : Opens(text)
    BY <1>0, <1>4, NextText
  <1>5. CASE UNCHANGED lexerVars
    BY <1>5, NothingRead
  <1> QED
    BY <1>1, <1>2, <1>3, <1>4, <1>5 DEF LexerNext

(* What the lexer has read so far, with the positions, is what the text    *)
(* says, and the next scan may start where the lexer stands.               *)
THEOREM AlwaysLexed == LexerSpec => []LexerInv
  BY FirstText, LexerInvKept, PTL DEF LexerSpec

(* The tokens returned and the one of look-ahead are the text up to the    *)
(* lexer's position, less blanks and comments, in order: whatever next(),  *)
(* peek() and reset() a program calls, on any text and any tables.         *)
THEOREM TextIsTokenized == LexerSpec => []TokensAreTheText
  <1>1. LexerInv => TokensAreTheText
    BY DEF LexerInv
  <1> QED
    BY <1>1, AlwaysLexed, PTL

(* Every token carries the line and the column it starts at, but where     *)
(* blanks the lexer does not count precede it on its line.                 *)
THEOREM PositionsAreExact == LexerSpec => []PositionsExact
  <1>1. LexerInv => PositionsExact
    BY DEF LexerInv
  <1> QED
    BY <1>1, AlwaysLexed, PTL

(* The parser does not change the lexer but by next() and peek(), so this  *)
(* is so of what it reads.                                                 *)
LEMMA ParserReads == Step => [LexerNext]_lexerVars
  <1>1. ASSUME NEW rule \in Rules, Apply(rule)
        PROVE  NextToken \/ PeekToken
    BY <1>1 DEF Apply
  <1>2. MethodEnds => UNCHANGED lexerVars
    BY DEF MethodEnds
  <1>3. Raise => NextToken \/ PeekToken
    BY DEF Raise
  <1> QED
    BY <1>1, <1>2, <1>3 DEF Step, LexerNext

COROLLARY ParserKeeps == LexerInv /\ Step => LexerInv'
  BY ParserReads, LexerInvKept

-----------------------------------------------------------------------------
(* Sequences made of pieces.                                               *)

(* FlattenSeq and the pieces it joins, by the function that defines it.    *)
LEMMA FlattenNone == FlattenSeq(<<>>) = <<>>
  BY DEF FlattenSeq

(* The function by which FlattenSeq is defined.                            *)
Flattens(f, s) ==
    f = [i \in 1..Len(s) |-> IF i = 1 THEN s[i] ELSE f[i - 1] \o s[i]]

(* There is one such function,                                             *)
LEMMA FlattensOne ==
    ASSUME NEW S, NEW s \in Seq(Seq(S)), NEW f, NEW g, Flattens(f, s), Flattens(g, s)
    PROVE  f = g
  <1> DEFINE Bad == {i \in 1..Len(s) : f[i] # g[i]}
  <1>1. Len(s) \in Nat
    OBVIOUS
  <1>2. /\ f = [i \in 1..Len(s) |-> f[i]] /\ g = [i \in 1..Len(s) |-> g[i]]
        /\ \A i \in 1..Len(s) : /\ f[i] = IF i = 1 THEN s[i] ELSE f[i - 1] \o s[i]
                                /\ g[i] = IF i = 1 THEN s[i] ELSE g[i - 1] \o s[i]
    BY DEF Flattens
  <1>3. Bad = {}
    <2> SUFFICES ASSUME Bad # {}
                 PROVE  FALSE
      OBVIOUS
    <2>1. Bad \in SUBSET Nat
      BY <1>1
    <2>2. PICK n \in Bad : \A m \in Bad : n <= m
      BY <2>1, Least
    <2>3. n \in 1..Len(s) /\ f[n] # g[n]
      BY <2>2
    <2>4. n # 1
      BY <1>2, <2>3
    <2>5. n - 1 \in 1..Len(s) /\ ~(n <= n - 1)
      BY <1>1, <2>3, <2>4
    <2>6. f[n - 1] = g[n - 1]
      BY <2>2, <2>5
    <2>7. f[n] = f[n - 1] \o s[n] /\ g[n] = g[n - 1] \o s[n]
      BY <1>2, <2>3, <2>4
    <2> QED
      BY <2>3, <2>6, <2>7
  <1> QED
    BY <1>2, <1>3

(* which grows with the pieces,                                            *)
LEMMA FlattensAppend ==
    ASSUME NEW S, NEW s \in Seq(Seq(S)), NEW e \in Seq(S), NEW f, Flattens(f, s)
    PROVE  \E g : /\ Flattens(g, Append(s, e))
                  /\ g[Len(s) + 1] = IF Len(s) = 0 THEN e ELSE f[Len(s)] \o e
                  /\ \A i \in 1..Len(s) : g[i] = f[i]
  <1> DEFINE n == Len(s) + 1
             last == IF Len(s) = 0 THEN e ELSE f[Len(s)] \o e
             g == [i \in 1..n |-> IF i = n THEN last ELSE f[i]]
  <1>1. /\ Len(s) \in Nat /\ Len(Append(s, e)) = n /\ Append(s, e)[n] = e
        /\ \A i \in 1..Len(s) : Append(s, e)[i] = s[i]
    OBVIOUS
  <1>2. \A i \in 1..n : i = n \/ (i \in 1..Len(s) /\ i # n)
    BY <1>1
  <1>3. n \in 1..n /\ \A i \in 1..Len(s) : i \in 1..n /\ i # n /\ (i = 1 \/ i - 1 \in 1..Len(s))
    BY <1>1
  <1>4. \A i \in 1..Len(s) : f[i] = IF i = 1 THEN s[i] ELSE f[i - 1] \o s[i]
    BY DEF Flattens
  <1>5. n - 1 = Len(s) /\ (n = 1 <=> Len(s) = 0) /\ (n # 1 => n - 1 \in 1..Len(s))
    BY <1>1
  <1> HIDE DEF n
  <1>6. \A i \in 1..n : g[i] = IF i = 1 THEN Append(s, e)[i] ELSE g[i - 1] \o Append(s, e)[i]
    <2> SUFFICES ASSUME NEW i \in 1..n
                 PROVE  g[i] = IF i = 1 THEN Append(s, e)[i] ELSE g[i - 1] \o Append(s, e)[i]
      OBVIOUS
    <2>1. CASE i = n
      <3>1. g[i] = last
        BY <1>3, <2>1
      <3>2. n # 1 => g[n - 1] = f[n - 1]
        BY <1>3, <1>5
      <3> QED
        BY <1>1, <1>5, <2>1, <3>1, <3>2
    <2>2. CASE i \in 1..Len(s) /\ i # n
      <3>1. g[i] = f[i]
        BY <2>2
      <3>2. i # 1 => g[i - 1] = f[i - 1]
        BY <1>3, <2>2
      <3> QED
        BY <1>1, <1>4, <2>2, <3>1, <3>2
    <2> QED
      BY <1>2, <2>1, <2>2
  <1>7. Flattens(g, Append(s, e))
    BY <1>1, <1>6 DEF Flattens
  <1>8. g[n] = last /\ \A i \in 1..Len(s) : g[i] = f[i]
    BY <1>3
  <1> QED
    BY <1>7, <1>8 DEF n

(* and so there is one for all pieces.                                     *)
LEMMA FlattensExists ==
    ASSUME NEW S, NEW s \in Seq(Seq(S))
    PROVE  \E f : Flattens(f, s) /\ \A i \in 1..Len(s) : f[i] \in Seq(S)
  <1> DEFINE Good(r) == \E f : Flattens(f, r) /\ \A i \in 1..Len(r) : f[i] \in Seq(S)
             Bad == {n \in Nat : \E r \in Seq(Seq(S)) : Len(r) = n /\ ~Good(r)}
  <1> SUFFICES ASSUME Bad # {}
               PROVE  FALSE
    <2>1. Len(s) \in Nat
      OBVIOUS
    <2> QED
      BY <2>1
  <1>1. PICK n \in Bad : \A m \in Bad : n <= m
    BY Least
  <1>2. PICK r \in Seq(Seq(S)) : Len(r) = n /\ ~Good(r)
    BY <1>1
  <1>3. n # 0
    <2> SUFFICES ASSUME n = 0
                 PROVE  FALSE
      OBVIOUS
    <2>1. 1..Len(r) = {}
      BY <1>2
    <2>2. Flattens([i \in {} |-> 0], r)
      BY <2>1 DEF Flattens
    <2> QED
      BY <1>2, <2>1, <2>2
  <1> DEFINE p == SubSeq(r, 1, n - 1)
             e == r[n]
  <1>4. /\ n \in Nat /\ n - 1 \in Nat /\ p \in Seq(Seq(S)) /\ e \in Seq(S)
        /\ Len(p) = n - 1 /\ r = Append(p, e) /\ n = Len(p) + 1
    BY <1>1, <1>2, <1>3
  <1>5. Good(p)
    <2>1. n - 1 \notin Bad
      BY <1>1, <1>4
    <2> QED
      BY <1>4, <2>1
  <1> HIDE DEF p, e
  <1>6. PICK f : Flattens(f, p) /\ \A i \in 1..Len(p) : f[i] \in Seq(S)
    BY <1>5
  <1>7. PICK g : /\ Flattens(g, Append(p, e))
                 /\ g[Len(p) + 1] = IF Len(p) = 0 THEN e ELSE f[Len(p)] \o e
                 /\ \A i \in 1..Len(p) : g[i] = f[i]
    <2>1. p \in Seq(Seq(S)) /\ e \in Seq(S) /\ Flattens(f, p)
      BY <1>4, <1>6
    <2> QED
      BY ONLY <2>1, FlattensAppend
  <1>8. Len(p) # 0 => Len(p) \in 1..Len(p)
    BY <1>4
  <1>9. g[n] \in Seq(S)
    BY <1>4, <1>6, <1>7, <1>8
  <1>10. \A i \in 1..Len(r) : i = n \/ i \in 1..Len(p)
    BY <1>2, <1>4
  <1>11. \A i \in 1..Len(r) : g[i] \in Seq(S)
    BY <1>6, <1>7, <1>9, <1>10
  <1> QED
    <2>1. Flattens(g, r)
      BY <1>4, <1>7
    <2> QED
      BY <1>2, <1>11, <2>1

(* FlattenSeq is its last value.                                           *)
LEMMA FlattenIs ==
    ASSUME NEW S, NEW s \in Seq(Seq(S)), NEW f, Flattens(f, s)
    PROVE  FlattenSeq(s) = IF Len(s) = 0 THEN s ELSE f[Len(s)]
  <1> DEFINE c == CHOOSE g : Flattens(g, s)
  <1>1. FlattenSeq(s) = IF Len(s) = 0 THEN s ELSE c[Len(s)]
    BY DEF FlattenSeq, Flattens
  <1>2. Flattens(c, s)
    OBVIOUS
  <1>3. c = f
    BY <1>2, FlattensOne
  <1> QED
    BY <1>1, <1>3

(* One piece more adds itself.                                             *)
LEMMA FlattenAdds ==
    ASSUME NEW S, NEW s \in Seq(Seq(S)), NEW e \in Seq(S)
    PROVE  /\ FlattenSeq(s) \in Seq(S)
           /\ FlattenSeq(Append(s, e)) = FlattenSeq(s) \o e
  <1>1. PICK f : Flattens(f, s) /\ \A i \in 1..Len(s) : f[i] \in Seq(S)
    BY FlattensExists
  <1> DEFINE n == Len(s) + 1
  <1>2. PICK g : /\ Flattens(g, Append(s, e))
                 /\ g[Len(s) + 1] = IF Len(s) = 0 THEN e ELSE f[Len(s)] \o e
    BY <1>1, FlattensAppend
  <1>3. /\ Append(s, e) \in Seq(Seq(S)) /\ Len(Append(s, e)) = n
        /\ Len(s) \in Nat /\ n # 0 /\ n - 1 = Len(s)
    OBVIOUS
  <1>4. FlattenSeq(s) = IF Len(s) = 0 THEN s ELSE f[Len(s)]
    BY <1>1, FlattenIs
  <1>5. FlattenSeq(Append(s, e)) = g[n]
    <2>1. Append(s, e) \in Seq(Seq(S)) /\ Flattens(g, Append(s, e))
      BY <1>2, <1>3
    <2>2. FlattenSeq(Append(s, e)) =
            IF Len(Append(s, e)) = 0 THEN Append(s, e) ELSE g[Len(Append(s, e))]
      BY <2>1, FlattenIs
    <2> QED
      BY <1>3, <2>2
  <1>6. CASE Len(s) = 0
    <2>1. s = <<>> /\ n = 1
      BY <1>6
    <2>2. <<>> \o e = e /\ <<>> \in Seq(S)
      OBVIOUS
    <2> QED
      BY <1>2, <1>4, <1>5, <2>1, <2>2
  <1>7. CASE Len(s) # 0
    <2>1. n # 1 /\ Len(s) \in 1..Len(s)
      BY <1>3, <1>7
    <2> QED
      BY <1>1, <1>2, <1>3, <1>4, <1>5, <1>7, <2>1
  <1> QED
    BY <1>6, <1>7

-----------------------------------------------------------------------------
(* What trees stand for.                                                   *)

(* The first m levels of Yield.                                            *)
Levels(f, m) == f = [n \in 0..m |-> IF n = 0 THEN <<>> ELSE OneMore(f[n - 1])]

(* Yield is made level by level.                                           *)
LEMMA LevelsAre ==
    ASSUME NEW m \in Nat, NEW f, Levels(f, m), NEW n \in 0..m
    PROVE  f[n] = IF n = 0 THEN <<>> ELSE OneMore(f[n - 1])
  BY DEF Levels

(* No two functions differ at a level that both have.                      *)
LEMMA LevelsAgree ==
    ASSUME NEW m \in Nat, NEW k \in Nat, NEW f, NEW g, Levels(f, m), Levels(g, k),
           NEW i \in Nat, i <= m, i <= k
    PROVE  f[i] = g[i]
  <1> DEFINE Bad == {n \in Nat : n <= m /\ n <= k /\ f[n] # g[n]}
  <1> SUFFICES ASSUME Bad # {}
               PROVE  FALSE
    OBVIOUS
  <1>1. PICK n \in Bad : \A j \in Bad : n <= j
    BY Least
  <1>2. n \in 0..m /\ n \in 0..k /\ f[n] # g[n]
    BY <1>1
  <1>3. /\ f[n] = IF n = 0 THEN <<>> ELSE OneMore(f[n - 1])
        /\ g[n] = IF n = 0 THEN <<>> ELSE OneMore(g[n - 1])
    BY <1>2, LevelsAre
  <1>4. n # 0
    BY <1>2, <1>3
  <1>5. n - 1 \in Nat /\ n - 1 <= m /\ n - 1 <= k /\ ~(n <= n - 1)
    BY <1>2, <1>4
  <1>6. f[n - 1] = g[n - 1]
    BY <1>1, <1>5
  <1> QED
    BY <1>2, <1>3, <1>4, <1>6

(* There is one for each number of levels.                                 *)
LEMMA LevelsExist ==
    ASSUME NEW m \in Nat
    PROVE  \E f : Levels(f, m)
  <1> DEFINE Bad == {n \in Nat : ~\E f : Levels(f, n)}
  <1> SUFFICES ASSUME Bad # {}
               PROVE  FALSE
    OBVIOUS
  <1>1. PICK n \in Bad : \A j \in Bad : n <= j
    BY Least
  <1>2. n # 0
    <2> SUFFICES ASSUME n = 0
                 PROVE  FALSE
      OBVIOUS
    <2>1. 0..0 = {0}
      OBVIOUS
    <2>2. Levels([k \in {0} |-> <<>>], 0)
      BY <2>1 DEF Levels
    <2> QED
      BY <1>1, <2>2
  <1>3. n - 1 \in Nat /\ ~(n <= n - 1) /\ n \in Nat
    BY <1>1, <1>2
  <1>4. PICK f : Levels(f, n - 1)
    BY <1>1, <1>3
  <1> DEFINE g == [k \in 0..n |-> IF k = n THEN OneMore(f[n - 1]) ELSE f[k]]
  <1>5. /\ n \in 0..n /\ n - 1 \in 0..n /\ n - 1 # n
        /\ \A k \in 0..n : k = n \/ (k # n /\ k \in 0..n - 1)
        /\ \A k \in 0..n - 1 : k = 0 \/ (k - 1 \in 0..n /\ k - 1 # n)
    BY <1>3
  <1>6. ASSUME NEW k \in 0..n
        PROVE  g[k] = IF k = 0 THEN <<>> ELSE OneMore(g[k - 1])
    <2>1. CASE k = n
      <3>1. g[k] = OneMore(f[n - 1]) /\ g[n - 1] = f[n - 1]
        BY <1>5, <2>1
      <3> QED
        BY <1>2, <2>1, <3>1
    <2>2. CASE k # n /\ k \in 0..n - 1
      <3>1. g[k] = f[k] /\ (k # 0 => g[k - 1] = f[k - 1])
        BY <1>5, <2>2
      <3>2. f[k] = IF k = 0 THEN <<>> ELSE OneMore(f[k - 1])
        BY <1>3, <1>4, <2>2, LevelsAre
      <3> QED
        BY <3>1, <3>2
    <2> QED
      BY <1>5, <2>1, <2>2
  <1>7. Levels(g, n)
    BY <1>6 DEF Levels
  <1> QED
    BY <1>1, <1>7

(* So Yield is what its definition says.                                   *)
LEMMA YieldIs ==
    /\ Yield[0] = <<>>
    /\ \A n \in Nat : Yield[n + 1] = OneMore(Yield[n])
  <1> DEFINE IsYield(f) == f = [n \in Nat |-> IF n = 0 THEN <<>> ELSE OneMore(f[n - 1])]
             at[n \in Nat] == CHOOSE f : Levels(f, n)
             all == [n \in Nat |-> at[n][n]]
  <1>1. \A n \in Nat : Levels(at[n], n)
    BY LevelsExist
  <1> HIDE DEF at
  <1>2. ASSUME NEW n \in Nat
        PROVE  all[n] = IF n = 0 THEN <<>> ELSE OneMore(all[n - 1])
    <2>1. all[n] = at[n][n] /\ n \in 0..n
      OBVIOUS
    <2>2. at[n][n] = IF n = 0 THEN <<>> ELSE OneMore(at[n][n - 1])
      BY <1>1, <2>1, LevelsAre
    <2>3. ASSUME n # 0
          PROVE  all[n - 1] = at[n][n - 1]
      <3>1. n - 1 \in Nat /\ n - 1 <= n /\ n - 1 <= n - 1
        BY <2>3
      <3>2. at[n - 1][n - 1] = at[n][n - 1]
        BY <1>1, <3>1, LevelsAgree
      <3> QED
        BY <3>1, <3>2
    <2> QED
      BY <2>1, <2>2, <2>3
  <1>3. IsYield(all)
    BY <1>2
  <1> HIDE DEF all
  <1>4. Yield = CHOOSE f : IsYield(f)
    BY DEF Yield
  <1>5. IsYield(Yield)
    BY <1>3, <1>4
  <1>6. \A n \in Nat : Yield[n] = IF n = 0 THEN <<>> ELSE OneMore(Yield[n - 1])
    BY <1>5
  <1>7. \A n \in Nat : n + 1 \in Nat /\ n + 1 # 0 /\ (n + 1) - 1 = n
    OBVIOUS
  <1> QED
    BY <1>6, <1>7

Word == {Mark(type) : type \in TokenType} \cup {Name(value) : value \in Seq(STRING)}

(* What is left of a token is a word.                                      *)
LEMMA WordsAre ==
    /\ \A type \in TokenType : Mark(type) \in Word
    /\ \A value \in Seq(STRING) : Name(value) \in Word
  BY DEF Word

Kind == {"type", "variable", "arguments", "returns", "method", "struct", "interface", "namespace"}

(* A node has words before, between and after its kids.                    *)
LEMMA EndsAre ==
    ASSUME NEW node, node.value \in Seq(STRING), NEW i
    PROVE  /\ Opening(node) \in Seq(Word) /\ Closing(node) \in Seq(Word)
           /\ Before(node.kind, i) \in Seq(Word) /\ After(node.kind) \in Seq(Word)
  <1> DEFINE name == Name(node.value)
  <1>1. name \in Word
    BY WordsAre
  <1>2. /\ Mark("LGeneric") \in Word /\ Mark("RGeneric") \in Word
        /\ Mark("LParen") \in Word /\ Mark("RParen") \in Word
        /\ Mark("LBrack") \in Word /\ Mark("RBrack") \in Word
        /\ Mark("Arrow") \in Word /\ Mark("Semicolon") \in Word
    BY WordsAre DEF TokenType
  <1>3. Keyword(node.kind) \in Word
    BY WordsAre DEF Keyword, TokenType
  <1> HIDE DEF name
  <1>4. /\ <<>> \in Seq(Word)
        /\ \A w \in Word : <<w>> \in Seq(Word) /\ <<w>> \o <<>> \in Seq(Word)
        /\ \A v, w \in Word : <<v>> \o <<w>> \in Seq(Word)
        /\ \A u, v, w \in Word : <<u, v, w>> \in Seq(Word)
    OBVIOUS
  <1>5. Opening(node) \in Seq(Word)
    <2>1. CASE node.kind = "type"
      BY <1>1, <1>2, <1>4, <2>1 DEF Opening, name
    <2>2. CASE node.kind \in {"variable", "arguments", "returns", "method"}
      BY <1>1, <1>2, <1>4, <2>2 DEF Opening, name
    <2>3. CASE node.kind \notin {"type", "variable", "arguments", "returns", "method"}
      BY <1>1, <1>2, <1>3, <1>4, <2>3 DEF Opening, name
    <2> QED
      BY <2>1, <2>2, <2>3
  <1>6. Closing(node) \in Seq(Word)
    BY <1>1, <1>2, <1>4 DEF Closing, name
  <1>7. Before(node.kind, i) \in Seq(Word) /\ After(node.kind) \in Seq(Word)
    BY <1>2, <1>4 DEF Before, After
  <1> QED
    BY <1>5, <1>6, <1>7

Piece(node, yield, i) == Before(node.kind, i) \o yield[node.kids[i]] \o After(node.kind)

(* The kids of a node, one piece for each.                                 *)
LEMMA PartsAre ==
    ASSUME NEW kids, NEW yield \in [kids -> Seq(Word)], NEW node \in NodesOver(kids)
    PROVE  /\ [i \in DOMAIN node.kids |-> Piece(node, yield, i)] \in Seq(Seq(Word))
           /\ Parts(node, yield) = FlattenSeq([i \in DOMAIN node.kids |-> Piece(node, yield, i)])
           /\ Parts(node, yield) \in Seq(Word)
  <1>1. node.kids \in Seq(kids) /\ node.value \in Seq(STRING)
    BY DEF NodesOver
  <1>2. \A i \in DOMAIN node.kids : Piece(node, yield, i) \in Seq(Word)
    <2> SUFFICES ASSUME NEW i \in DOMAIN node.kids
                 PROVE  Piece(node, yield, i) \in Seq(Word)
      OBVIOUS
    <2>1. yield[node.kids[i]] \in Seq(Word)
      BY <1>1
    <2>2. Before(node.kind, i) \in Seq(Word) /\ After(node.kind) \in Seq(Word)
      BY <1>1, EndsAre
    <2> QED
      BY <2>1, <2>2 DEF Piece
  <1> DEFINE pieces == [i \in DOMAIN node.kids |-> Piece(node, yield, i)]
  <1>3. DOMAIN node.kids = 1..Len(node.kids) /\ Len(node.kids) \in Nat
    BY <1>1
  <1>4. pieces \in Seq(Seq(Word))
    BY <1>2, <1>3
  <1>5. Parts(node, yield) = FlattenSeq(pieces)
    BY DEF Parts, Piece
  <1> HIDE DEF pieces
  <1>6. <<>> \in Seq(Word)
    OBVIOUS
  <1>7. FlattenSeq(pieces) \in Seq(Word)
    BY <1>4, <1>6, FlattenAdds
  <1> QED
    BY <1>4, <1>5, <1>7 DEF pieces

Tree(n) == DOMAIN Yield[n]

(* Trees of one level more are nodes over trees.                           *)
LEMMA TreesAre ==
    ASSUME NEW n \in Nat
    PROVE  /\ Tree(0) = {}
           /\ Tree(n + 1) = NodesOver(Tree(n))
           /\ \A node \in NodesOver(Tree(n)) :
                Yield[n + 1][node] = Opening(node) \o Parts(node, Yield[n]) \o Closing(node)
  <1>1. Yield[n + 1] = [node \in NodesOver(Tree(n)) |->
                          Opening(node) \o Parts(node, Yield[n]) \o Closing(node)]
    BY YieldIs DEF Tree, OneMore
  <1>2. Tree(0) = {}
    BY YieldIs DEF Tree
  <1>3. Tree(n + 1) = NodesOver(Tree(n))
    BY <1>1 DEF Tree
  <1> QED
    BY <1>1, <1>2, <1>3

(* Trees stand for tokens, and for the same at every level they are of.    *)
LEMMA YieldGrows ==
    \A n \in Nat :
        /\ Yield[n] \in [Tree(n) -> Seq(Word)]
        /\ Tree(n) \subseteq Tree(n + 1)
        /\ \A node \in Tree(n) : Yield[n + 1][node] = Yield[n][node]
  <1> DEFINE Good(n) == /\ Yield[n] \in [Tree(n) -> Seq(Word)]
                        /\ Tree(n) \subseteq Tree(n + 1)
                        /\ \A node \in Tree(n) : Yield[n + 1][node] = Yield[n][node]
             Bad == {n \in Nat : ~Good(n)}
  <1> SUFFICES ASSUME Bad # {}
               PROVE  FALSE
    OBVIOUS
  <1>1. PICK n \in Bad : \A j \in Bad : n <= j
    BY Least
  <1>2. n # 0
    <2> SUFFICES ASSUME n = 0
                 PROVE  FALSE
      OBVIOUS
    <2>1. Yield[0] \in [Tree(0) -> Seq(Word)] /\ Tree(0) = {}
      BY YieldIs, TreesAre
    <2>2. Good(0)
      BY <2>1
    <2> QED
      BY <1>1, <2>2
  <1> DEFINE m == n - 1
  <1>3. m \in Nat /\ ~(n <= m) /\ n \in Nat /\ m + 1 = n
    BY <1>1, <1>2
  <1> HIDE DEF m
  <1>4. Good(m)
    BY <1>1, <1>3
  <1>5. Tree(n) = NodesOver(Tree(m)) /\ Tree(n + 1) = NodesOver(Tree(n))
    BY <1>3, TreesAre
  <1>6. Tree(m) \subseteq Tree(n)
    BY <1>3, <1>4
  <1>7. Yield[m] \in [Tree(m) -> Seq(Word)]
    BY <1>4
  <1>8. ASSUME NEW node \in Tree(n)
        PROVE  /\ Yield[n][node] = Opening(node) \o Parts(node, Yield[m]) \o Closing(node)
               /\ Yield[n][node] \in Seq(Word)
    <2>1. Yield[n][node] = Opening(node) \o Parts(node, Yield[m]) \o Closing(node)
      BY <1>3, <1>5, TreesAre
    <2>2. node.value \in Seq(STRING)
      BY <1>5 DEF NodesOver
    <2>3. Opening(node) \in Seq(Word) /\ Closing(node) \in Seq(Word)
      BY <2>2, EndsAre
    <2>4. Parts(node, Yield[m]) \in Seq(Word)
      BY <1>5, <1>7, PartsAre
    <2> QED
      BY <2>1, <2>3, <2>4
  <1>9. Yield[n] \in [Tree(n) -> Seq(Word)]
    <2>1. Yield[n] = OneMore(Yield[m])
      BY <1>3, YieldIs
    <2>2. Yield[n] = [node \in Tree(n) |-> Yield[n][node]]
      BY <2>1 DEF OneMore, Tree
    <2> QED
      BY <1>8, <2>2
  <1>10. Tree(n) \subseteq Tree(n + 1)
    <2>1. Seq(Tree(m)) \subseteq Seq(Tree(n))
      BY <1>6
    <2>2. NodesOver(Tree(m)) \subseteq NodesOver(Tree(n))
      BY ONLY <2>1 DEF NodesOver
    <2> QED
      BY <1>5, <2>2
  <1>11. ASSUME NEW node \in Tree(n)
         PROVE  Yield[n + 1][node] = Yield[n][node]
    <2>1. node \in NodesOver(Tree(m)) /\ node \in NodesOver(Tree(n))
      BY <1>5, <1>10
    <2>2. Yield[n + 1][node] = Opening(node) \o Parts(node, Yield[n]) \o Closing(node)
      BY <1>3, <2>1, TreesAre
    <2>3. node.kids \in Seq(Tree(m))
      BY <2>1 DEF NodesOver
    <2>4. \A i \in DOMAIN node.kids : node.kids[i] \in Tree(m)
      BY <2>3
    <2>5. \A i \in DOMAIN node.kids : Yield[n][node.kids[i]] = Yield[m][node.kids[i]]
      BY <1>3, <1>4, <2>4
    <2>6. Parts(node, Yield[n]) = Parts(node, Yield[m])
      BY <2>5 DEF Parts
    <2> QED
      BY <1>8, <2>2, <2>6
  <1>12. Good(n)
    BY <1>9, <1>10, <1>11
  <1> QED
    BY <1>1, <1>12

(* So a tree stands for the same at any higher level.                      *)
LEMMA YieldStays ==
    ASSUME NEW n \in Nat, NEW k \in Nat
    PROVE  /\ Tree(n) \subseteq Tree(n + k)
           /\ \A node \in Tree(n) : Yield[n + k][node] = Yield[n][node]
  <1> DEFINE Good(j) == /\ Tree(n) \subseteq Tree(n + j)
                        /\ \A node \in Tree(n) : Yield[n + j][node] = Yield[n][node]
             Bad == {j \in Nat : ~Good(j)}
  <1> SUFFICES ASSUME Bad # {}
               PROVE  FALSE
    OBVIOUS
  <1>1. PICK j \in Bad : \A i \in Bad : j <= i
    BY Least
  <1>2. n + 0 = n
    OBVIOUS
  <1>3. Good(0)
    BY <1>2
  <1>4. j # 0
    BY <1>1, <1>3
  <1>5. j - 1 \in Nat /\ ~(j <= j - 1) /\ n + (j - 1) \in Nat /\ (n + (j - 1)) + 1 = n + j
    BY <1>1, <1>4
  <1>6. Good(j - 1)
    BY <1>1, <1>5
  <1>7. Good(j)
    BY <1>5, <1>6, YieldGrows
  <1> QED
    BY <1>1, <1>7

(* What a tree stands for, at any level.                                   *)
Trees == UNION {Tree(n) : n \in Nat}

Stands == [node \in Trees |-> Yield[CHOOSE n \in Nat : node \in Tree(n)][node]]

(* What Stands says of a tree is what Yield does at its level.             *)
LEMMA StandsAs ==
    ASSUME NEW n \in Nat, NEW node \in Tree(n)
    PROVE  node \in Trees /\ Stands[node] = Yield[n][node] /\ Stands[node] \in Seq(Word)
  <1> DEFINE m == CHOOSE k \in Nat : node \in Tree(k)
  <1>1. m \in Nat /\ node \in Tree(m)
    OBVIOUS
  <1>2. node \in Trees
    BY DEF Trees
  <1>3. Stands[node] = Yield[m][node]
    BY <1>2 DEF Stands
  <1> HIDE DEF m
  <1>4. CASE n <= m
    <2>1. PICK k \in Nat : m = n + k
      <3>1. m - n \in Nat /\ m = n + (m - n)
        BY <1>1, <1>4
      <3> QED
        BY <3>1
    <2>2. Yield[m][node] = Yield[n][node] /\ Yield[n][node] \in Seq(Word)
      BY <2>1, YieldGrows, YieldStays
    <2> QED
      BY <1>2, <1>3, <2>2
  <1>5. CASE m <= n
    <2>1. PICK k \in Nat : n = m + k
      <3>1. n - m \in Nat /\ n = m + (n - m)
        BY <1>1, <1>5
      <3> QED
        BY <3>1
    <2>2. Yield[m][node] = Yield[n][node] /\ Yield[n][node] \in Seq(Word)
      BY <1>1, <2>1, YieldGrows, YieldStays
    <2> QED
      BY <1>2, <1>3, <2>2
  <1> QED
    BY <1>1, <1>4, <1>5

(* A tree stands for words.                                                *)
LEMMA StandsTyped == Stands \in [Trees -> Seq(Word)]
  <1>1. \A node \in Trees : Stands[node] \in Seq(Word)
    BY StandsAs DEF Trees
  <1> QED
    BY <1>1 DEF Stands

(* A node over trees is a tree, and stands for what its kids do.           *)
LEMMA StandsFor ==
    ASSUME NEW n \in Nat, NEW node \in NodesOver(Tree(n))
    PROVE  /\ node \in Tree(n + 1)
           /\ node \in NodesOver(Trees)
           /\ Stands[node] = Opening(node) \o Parts(node, Stands) \o Closing(node)
  <1>1. node \in Tree(n + 1) /\ n + 1 \in Nat
    BY TreesAre
  <1>2. Stands[node] = Opening(node) \o Parts(node, Yield[n]) \o Closing(node)
    BY <1>1, StandsAs, TreesAre
  <1>3. node.kids \in Seq(Tree(n))
    BY DEF NodesOver
  <1>4. \A i \in DOMAIN node.kids : node.kids[i] \in Tree(n)
    BY <1>3
  <1>5. \A i \in DOMAIN node.kids : Stands[node.kids[i]] = Yield[n][node.kids[i]]
    BY <1>4, StandsAs
  <1>6. Parts(node, Stands) = Parts(node, Yield[n])
    BY <1>5 DEF Parts
  <1>7. Tree(n) \subseteq Trees
    BY DEF Trees
  <1>8. Seq(Tree(n)) \subseteq Seq(Trees)
    BY <1>7
  <1>9. node \in NodesOver(Trees)
    BY <1>8 DEF NodesOver
  <1> QED
    BY <1>1, <1>2, <1>6, <1>9

(* A kid more.                                                             *)
LEMMA KidAdds ==
    ASSUME NEW node \in NodesOver(Trees), NEW kid \in Trees
    PROVE  LET more == [node EXCEPT !.kids = Append(@, kid)] IN
           /\ more \in NodesOver(Trees)
           /\ Parts(more, Stands) = Parts(node, Stands)
                \o (Before(node.kind, Len(node.kids) + 1) \o Stands[kid] \o After(node.kind))
  <1> DEFINE more == [node EXCEPT !.kids = Append(@, kid)]
             n == Len(node.kids) + 1
             pieces == [i \in DOMAIN node.kids |-> Piece(node, Stands, i)]
             piece == Piece(node, Stands, n)
  <1>1. node.kids \in Seq(Trees) /\ node.value \in Seq(STRING) /\ node.kind \in Kind
    BY DEF NodesOver, Kind
  <1>2. node = [kind |-> node.kind, value |-> node.value, kids |-> node.kids]
    BY DEF NodesOver
  <1>3. more = [kind |-> node.kind, value |-> node.value, kids |-> Append(node.kids, kid)]
    BY <1>2
  <1>4. more \in NodesOver(Trees)
    BY <1>1, <1>3 DEF NodesOver, Kind
  <1>5. more.kind = node.kind /\ more.kids = Append(node.kids, kid)
    BY <1>3
  <1>6. /\ Len(node.kids) \in Nat /\ DOMAIN node.kids = 1..Len(node.kids)
        /\ DOMAIN more.kids = 1..n /\ more.kids[n] = kid
        /\ \A i \in DOMAIN node.kids : more.kids[i] = node.kids[i]
    BY <1>1, <1>5
  <1> HIDE DEF more
  <1> DEFINE last == Piece(more, Stands, n)
  <1>7. last = Before(node.kind, n) \o Stands[kid] \o After(node.kind)
    BY <1>5, <1>6 DEF Piece
  <1>8. \A i \in DOMAIN node.kids : Piece(more, Stands, i) = Piece(node, Stands, i)
    BY <1>5, <1>6 DEF Piece
  <1>9. /\ pieces \in Seq(Seq(Word)) /\ Parts(node, Stands) = FlattenSeq(pieces)
        /\ Parts(more, Stands) = FlattenSeq([i \in DOMAIN more.kids |-> Piece(more, Stands, i)])
        /\ [i \in DOMAIN more.kids |-> Piece(more, Stands, i)] \in Seq(Seq(Word))
    BY <1>4, PartsAre, StandsTyped
  <1>10. last \in Seq(Word)
    BY <1>6, <1>9
  <1>11. Len(pieces) = Len(node.kids)
    BY <1>6, <1>9
  <1> DEFINE grown == [i \in DOMAIN more.kids |-> Piece(more, Stands, i)]
  <1>12. grown = Append(pieces, last)
    <2>1. \A i \in 1..n : i = n \/ i \in DOMAIN node.kids
      BY <1>6
    <2>2. Append(pieces, last) \in Seq(Seq(Word)) /\ Len(Append(pieces, last)) = n
      BY <1>9, <1>10, <1>11
    <2>3. DOMAIN Append(pieces, last) = 1..n
      BY <2>2
    <2>4. n \in 1..n /\ n \notin DOMAIN node.kids
      BY <1>6
    <2>5. Append(pieces, last)[n] = last
      BY <1>9, <1>10, <1>11
    <2>6. \A i \in DOMAIN node.kids : Append(pieces, last)[i] = pieces[i]
      BY <1>6, <1>9, <1>10, <1>11
    <2>7. \A i \in 1..n : grown[i] = Append(pieces, last)[i]
      BY <1>6, <1>8, <2>1, <2>5, <2>6
    <2>8. Append(pieces, last) = [i \in 1..n |-> Append(pieces, last)[i]]
      BY <2>2, <2>3
    <2>9. grown = [i \in 1..n |-> grown[i]]
      BY <1>6
    <2> QED
      BY <2>7, <2>8, <2>9
  <1> HIDE DEF pieces, last, grown
  <1>13. FlattenSeq(Append(pieces, last)) = FlattenSeq(pieces) \o last
    BY <1>9, <1>10, FlattenAdds
  <1> QED
    BY <1>4, <1>7, <1>9, <1>12, <1>13 DEF more, grown

(* A node without kids has no parts.                                       *)
LEMMA NoParts ==
    ASSUME NEW node, node.kids = <<>>
    PROVE  Parts(node, Stands) = <<>>
  BY FlattenNone DEF Parts

-----------------------------------------------------------------------------
(* What is left of the tokens read.                                        *)

(* A sequence that is one longer than another.                             *)
LEMMA AppendIs ==
    ASSUME NEW S, NEW s \in Seq(S), NEW f, f \in [1..Len(s) + 1 -> S],
           \A i \in 1..Len(s) : f[i] = s[i]
    PROVE  f = Append(s, f[Len(s) + 1])
  <1> DEFINE n == Len(s) + 1
             g == Append(s, f[n])
  <1>1. Len(s) \in Nat /\ n \in 1..n /\ \A i \in 1..n : i = n \/ i \in 1..Len(s)
    OBVIOUS
  <1>2. f[n] \in S
    BY <1>1
  <1>3. g \in Seq(S) /\ Len(g) = n /\ g[n] = f[n] /\ \A i \in 1..Len(s) : g[i] = s[i]
    BY <1>1, <1>2
  <1>4. \A i \in 1..n : f[i] = g[i]
    BY <1>1, <1>3
  <1>5. g = [i \in 1..n |-> g[i]]
    BY <1>3
  <1> QED
    BY <1>4, <1>5

Dropped(tokens) ==
    {i \in DOMAIN tokens : tokens[i].type = "Comma"}
      \cup EmptyBrackets(tokens) \cup {i + 1 : i \in EmptyBrackets(tokens)}

Pieces(tokens) ==
    [i \in DOMAIN tokens |-> IF i \in Dropped(tokens) THEN <<>> ELSE <<Said(tokens[i])>>]

(* What a token says is a word.                                            *)
LEMMA SaidTyped ==
    ASSUME NEW t \in Tokens
    PROVE  Said(t) \in Word
  <1>1. t.type \in TokenType /\ t.value \in Seq(STRING)
    BY DEF Tokens
  <1> QED
    BY <1>1, WordsAre DEF Said

(* What is kept of tokens, token by token.                                 *)
LEMMA KeptIs ==
    ASSUME NEW tokens \in Seq(Tokens)
    PROVE  /\ Pieces(tokens) \in Seq(Seq(Word)) /\ Len(Pieces(tokens)) = Len(tokens)
           /\ Kept(tokens) = FlattenSeq(Pieces(tokens)) /\ Kept(tokens) \in Seq(Word)
  <1>1. DOMAIN tokens = 1..Len(tokens) /\ Len(tokens) \in Nat
    OBVIOUS
  <1>2. \A i \in DOMAIN tokens : Said(tokens[i]) \in Word
    BY SaidTyped
  <1>3. Pieces(tokens) \in [1..Len(tokens) -> Seq(Word)]
    BY <1>1, <1>2 DEF Pieces
  <1>4. Pieces(tokens) \in Seq(Seq(Word)) /\ Len(Pieces(tokens)) = Len(tokens)
    BY <1>1, <1>3
  <1>5. Kept(tokens) = FlattenSeq(Pieces(tokens))
    BY DEF Kept, Pieces, Dropped
  <1>6. <<>> \in Seq(Word)
    OBVIOUS
  <1> QED
    BY <1>4, <1>5, <1>6, FlattenAdds

OpenBracket(tokens) == tokens # <<>> /\ tokens[Len(tokens)].type = "LGeneric"

(* A token more: which are dropped.                                        *)
LEMMA DroppedGrows ==
    ASSUME NEW tokens \in Seq(Tokens), NEW t \in Tokens
    PROVE  LET more == Append(tokens, t)
               n == Len(tokens)
           IN  IF OpenBracket(tokens) /\ t.type = "RGeneric"
               THEN /\ n \in 1..n /\ n \notin Dropped(tokens)
                    /\ Dropped(more) = Dropped(tokens) \cup {n, n + 1}
               ELSE Dropped(more) = Dropped(tokens) \cup (IF t.type = "Comma" THEN {n + 1} ELSE {})
  <1> DEFINE more == Append(tokens, t)
             n == Len(tokens)
  <1>1. /\ n \in Nat /\ more \in Seq(Tokens) /\ Len(more) = n + 1 /\ more[n + 1] = t
        /\ \A i \in 1..n : more[i] = tokens[i]
        /\ DOMAIN tokens = 1..n /\ DOMAIN more = 1..n + 1
    OBVIOUS
  <1> HIDE DEF more
  <1>2. \A i \in 1..n + 1 : i \in 1..n \/ i = n + 1
    BY <1>1
  <1>3. \A i \in 1..n : i \in 1..n + 1 /\ i < n + 1 /\ i # n + 1 /\ (i < n => i + 1 \in 1..n)
    BY <1>1
  <1>4. ~(n + 1 < n + 1) /\ n + 1 \in 1..n + 1 /\ n + 1 \notin 1..n
    BY <1>1
  <1>5. EmptyBrackets(more) =
          EmptyBrackets(tokens) \cup (IF OpenBracket(tokens) /\ t.type = "RGeneric" THEN {n} ELSE {})
    <2>1. ASSUME NEW i \in 1..n, i < n
          PROVE  i \in EmptyBrackets(more) <=> i \in EmptyBrackets(tokens)
      BY <1>1, <1>3, <2>1 DEF EmptyBrackets
    <2>2. n \notin EmptyBrackets(tokens)
      BY <1>1 DEF EmptyBrackets
    <2>3. n \in EmptyBrackets(more) <=> OpenBracket(tokens) /\ t.type = "RGeneric"
      <3>1. CASE tokens = <<>>
        <4>1. n = 0 /\ 0 \notin 1..n + 1
          BY <3>1
        <4> QED
          BY <1>1, <3>1, <4>1 DEF EmptyBrackets, OpenBracket
      <3>2. CASE tokens # <<>>
        <4>1. n \in 1..n /\ n < n + 1 /\ n \in 1..n + 1
          BY <1>1, <3>2
        <4> QED
          BY <1>1, <3>2, <4>1 DEF EmptyBrackets, OpenBracket
      <3> QED
        BY <3>1, <3>2
    <2>4. \A i \in EmptyBrackets(more) : (i \in 1..n /\ i < n) \/ i = n
      <3>1. \A i \in EmptyBrackets(more) : i \in 1..n + 1 /\ i < n + 1
        BY <1>1 DEF EmptyBrackets
      <3> QED
        BY <1>1, <3>1
    <2>5. \A i \in EmptyBrackets(tokens) : i \in 1..n /\ i < n
      BY <1>1 DEF EmptyBrackets
    <2> QED
      BY <2>1, <2>2, <2>3, <2>4, <2>5
  <1>6. {i \in DOMAIN more : more[i].type = "Comma"} =
          {i \in DOMAIN tokens : tokens[i].type = "Comma"}
            \cup (IF t.type = "Comma" THEN {n + 1} ELSE {})
    BY <1>1, <1>2, <1>3, <1>4
  <1>7. CASE OpenBracket(tokens) /\ t.type = "RGeneric"
    <2>1. n \in 1..n /\ tokens[n].type = "LGeneric"
      BY <1>1, <1>7 DEF OpenBracket
    <2>2. n \notin Dropped(tokens)
      <3>1. n \notin EmptyBrackets(tokens)
        BY <1>1 DEF EmptyBrackets
      <3>2. \A i \in EmptyBrackets(tokens) : i + 1 # n
        BY <2>1 DEF EmptyBrackets
      <3> QED
        BY <2>1, <3>1, <3>2 DEF Dropped
    <2>3. Dropped(more) = Dropped(tokens) \cup {n, n + 1}
      BY <1>5, <1>6, <1>7 DEF Dropped
    <2> QED
      BY <1>7, <2>1, <2>2, <2>3 DEF more
  <1>8. CASE ~(OpenBracket(tokens) /\ t.type = "RGeneric")
    <2>1. Dropped(more) = Dropped(tokens) \cup (IF t.type = "Comma" THEN {n + 1} ELSE {})
      BY <1>5, <1>6, <1>8 DEF Dropped
    <2> QED
      BY <1>8, <2>1 DEF more
  <1> QED
    BY <1>7, <1>8

(* A token more: what it adds, or takes away when it closes empty brackets. *)
LEMMA KeptGrows ==
    ASSUME NEW tokens \in Seq(Tokens), NEW t \in Tokens
    PROVE  LET more == Append(tokens, t) IN
           IF OpenBracket(tokens) /\ t.type = "RGeneric"
           THEN Kept(tokens) = Kept(more) \o <<Mark("LGeneric")>>
           ELSE Kept(more) = Kept(tokens) \o (IF t.type = "Comma" THEN <<>> ELSE <<Said(t)>>)
  <1> DEFINE more == Append(tokens, t)
             n == Len(tokens)
  <1>1. /\ n \in Nat /\ more \in Seq(Tokens) /\ Len(more) = n + 1 /\ more[n + 1] = t
        /\ \A i \in 1..n : more[i] = tokens[i]
        /\ DOMAIN tokens = 1..n /\ DOMAIN more = 1..n + 1
    OBVIOUS
  <1> HIDE DEF more
  <1>2. /\ Pieces(tokens) \in Seq(Seq(Word)) /\ Len(Pieces(tokens)) = n
        /\ Kept(tokens) = FlattenSeq(Pieces(tokens)) /\ Kept(tokens) \in Seq(Word)
        /\ Pieces(more) \in Seq(Seq(Word)) /\ Len(Pieces(more)) = n + 1
        /\ Kept(more) = FlattenSeq(Pieces(more)) /\ Kept(more) \in Seq(Word)
    BY <1>1, KeptIs
  <1>3. /\ \A i \in 1..n : i \in 1..n + 1 /\ i # n + 1
        /\ n + 1 \in 1..n + 1
    BY <1>1
  <1>4. Dropped(tokens) \subseteq 1..n
    <2>1. \A i \in EmptyBrackets(tokens) : i \in 1..n /\ i + 1 \in 1..n
      BY <1>1 DEF EmptyBrackets
    <2> QED
      BY <1>1, <2>1 DEF Dropped
  <1>5. CASE OpenBracket(tokens) /\ t.type = "RGeneric"
    <2>1. /\ n \in 1..n /\ n \notin Dropped(tokens)
          /\ Dropped(more) = Dropped(tokens) \cup {n, n + 1}
      BY <1>5, DroppedGrows DEF more
    <2>2. PICK m \in Nat : n = m + 1
      <3>1. n - 1 \in Nat /\ n = (n - 1) + 1
        BY <1>1, <2>1
      <3> QED
        BY <3>1
    <2> DEFINE g == SubSeq(Pieces(tokens), 1, m)
               mark == <<Mark("LGeneric")>>
    <2>3. g \in Seq(Seq(Word)) /\ Len(g) = m /\ \A i \in 1..m : g[i] = Pieces(tokens)[i]
      BY <1>2, <2>2
    <2>4. Pieces(tokens)[n] = mark
      <3>1. tokens[n].type = "LGeneric"
        BY <1>5 DEF OpenBracket
      <3> QED
        BY <1>1, <2>1, <3>1 DEF Pieces, Said
    <2>5. mark \in Seq(Word) /\ <<>> \in Seq(Word)
      BY WordsAre DEF TokenType
    <2> HIDE DEF mark, g
    <2>6. Pieces(tokens) \in [1..Len(g) + 1 -> Seq(Word)]
      BY <1>2, <2>2, <2>3
    <2>7. Pieces(tokens) = Append(g, mark)
      <3>1. Pieces(tokens) = Append(g, Pieces(tokens)[Len(g) + 1])
        BY <2>3, <2>6, AppendIs
      <3> QED
        BY <2>2, <2>3, <2>4, <3>1
    <2>8. Pieces(more) = Append(Append(g, <<>>), <<>>)
      <3> DEFINE h == Append(g, <<>>)
      <3>1. /\ h \in Seq(Seq(Word)) /\ Len(h) = n /\ h[n] = <<>>
            /\ \A i \in 1..m : h[i] = Pieces(tokens)[i]
        BY <2>2, <2>3, <2>5
      <3> HIDE DEF h
      <3>2. Pieces(more)[n] = <<>> /\ Pieces(more)[n + 1] = <<>>
        BY <1>1, <1>3, <2>1 DEF Pieces
      <3>3. \A i \in 1..m : i \in 1..n /\ i # n /\ i \in 1..n + 1 /\ i # n + 1
        BY <2>2
      <3>4. \A i \in 1..m : Pieces(more)[i] = Pieces(tokens)[i]
        BY <1>1, <2>1, <3>3 DEF Pieces
      <3>5. \A i \in 1..n : i = n \/ i \in 1..m
        BY <2>2
      <3>6. \A i \in 1..n : Pieces(more)[i] = h[i]
        BY <3>1, <3>2, <3>4, <3>5
      <3>7. Pieces(more) \in [1..Len(h) + 1 -> Seq(Word)]
        BY <1>2, <3>1
      <3>8. Pieces(more) = Append(h, Pieces(more)[Len(h) + 1])
        BY <3>1, <3>6, <3>7, AppendIs
      <3> QED
        BY <3>1, <3>2, <3>8 DEF h
    <2>9. /\ Append(g, <<>>) \in Seq(Seq(Word))
          /\ FlattenSeq(g) \in Seq(Word)
          /\ FlattenSeq(Append(g, mark)) = FlattenSeq(g) \o mark
          /\ FlattenSeq(Append(g, <<>>)) = FlattenSeq(g) \o <<>>
      <3>1. g \in Seq(Seq(Word))
        BY <2>3
      <3>2. Append(g, <<>>) \in Seq(Seq(Word))
        BY <2>5, <3>1
      <3>3. FlattenSeq(g) \in Seq(Word) /\ FlattenSeq(Append(g, mark)) = FlattenSeq(g) \o mark
        BY ONLY <2>5, <3>1, FlattenAdds
      <3>4. FlattenSeq(Append(g, <<>>)) = FlattenSeq(g) \o <<>>
        BY ONLY <2>5, <3>1, FlattenAdds
      <3> QED
        BY <3>2, <3>3, <3>4
    <2>10. FlattenSeq(Append(Append(g, <<>>), <<>>)) = FlattenSeq(Append(g, <<>>)) \o <<>>
      BY <2>5, <2>9, FlattenAdds
    <2>11. \A w \in Seq(Word) : w \o <<>> = w
      OBVIOUS
    <2>12. Kept(more) = FlattenSeq(g) /\ Kept(tokens) = FlattenSeq(g) \o mark
      BY <1>2, <2>7, <2>8, <2>9, <2>10, <2>11
    <2> QED
      BY <1>5, <2>12 DEF more, mark
  <1>6. CASE ~(OpenBracket(tokens) /\ t.type = "RGeneric")
    <2> DEFINE last == IF t.type = "Comma" THEN <<>> ELSE <<Said(t)>>
    <2>1. Dropped(more) = Dropped(tokens) \cup (IF t.type = "Comma" THEN {n + 1} ELSE {})
      BY <1>6, DroppedGrows DEF more
    <2>2. n + 1 \notin Dropped(tokens)
      BY <1>3, <1>4
    <2>3. Pieces(more)[n + 1] = last
      BY <1>1, <1>3, <2>1, <2>2 DEF Pieces
    <2>4. \A i \in 1..n : Pieces(more)[i] = Pieces(tokens)[i]
      BY <1>1, <1>3, <2>1 DEF Pieces
    <2>5. last \in Seq(Word)
      <3>1. Said(t) \in Word
        BY SaidTyped
      <3> QED
        BY <3>1
    <2> HIDE DEF last
    <2>6. Pieces(more) = Append(Pieces(tokens), last)
      <3>1. Pieces(more) \in [1..Len(Pieces(tokens)) + 1 -> Seq(Word)]
        BY <1>2
      <3>2. Pieces(more) = Append(Pieces(tokens), Pieces(more)[Len(Pieces(tokens)) + 1])
        BY <1>2, <2>4, <3>1, AppendIs
      <3> QED
        BY <1>2, <2>3, <3>2
    <2>7. Kept(more) = Kept(tokens) \o last
      BY <1>2, <2>5, <2>6, FlattenAdds
    <2> QED
      BY <1>6, <2>7 DEF more, last
  <1> QED
    BY <1>5, <1>6

-----------------------------------------------------------------------------
(* What the parser has taken.                                              *)

(* A call waits for another one, at one of these places.                   *)
WaitingPlaces ==
    {<<"type", "after">>, <<"variable", "name">>, <<"pack", "after">>, <<"method", "arrow">>,
     <<"method", "end">>, <<"struct", "semicolon">>, <<"interface", "semicolon">>,
     <<"namespace", "body">>}

(* It has no kid yet, at these.                                            *)
EarlyPlaces ==
    {<<"type", p>> : p \in {"name", "generics", "first"}}
      \cup {<<"pack", "open">>, <<"method", "name">>}
      \cup {<<r, p>> : r \in {"struct", "interface", "namespace"}, p \in {"keyword", "name", "open"}}

Places ==
    WaitingPlaces \cup EarlyPlaces
      \cup {<<"type", "more">>, <<"pack", "item">>, <<"struct", "body">>, <<"interface", "body">>}

Standing(role) == IF role = "waiting" THEN WaitingPlaces ELSE Places

(* A call at its place, waiting for another one or running.               *)
KidsFit(frame, role) ==
    /\ frame.at \in EarlyPlaces => frame.node.kids = <<>>
    /\ frame.at[1] = "type" /\ role = "running" /\ frame.at \notin EarlyPlaces => frame.node.kids # <<>>
    /\ frame.at = <<"method", "arrow">> => Len(frame.node.kids) = IF role = "waiting" THEN 0 ELSE 1
    /\ frame.at = <<"method", "end">> => Len(frame.node.kids) = IF role = "waiting" THEN 1 ELSE 2

FrameFits(frame, role, level) ==
    /\ frame = [at |-> frame.at, node |-> frame.node]
    /\ frame.node \in NodesOver(Tree(level))
    /\ frame.at \in Standing(role)
    /\ IF frame.at[1] = "pack" THEN frame.node.kind \in {"arguments", "returns"}
       ELSE frame.node.kind = frame.at[1]
    /\ KidsFit(frame, role)

(* What a call has taken, with those that it made and that have returned.  *)
Begun(at, node) ==
    CASE at \in {<<"type", "generics">>, <<"method", "arrow">>, <<"method", "end">>} ->
           <<Name(node.value)>>
      [] at \in {<<"type", "first">>, <<"type", "after">>, <<"type", "more">>} ->
           <<Name(node.value), Mark("LGeneric")>>
      [] at \in {<<"pack", "item">>, <<"pack", "after">>} -> <<Mark("LParen")>>
      [] at[1] \in {"struct", "interface", "namespace"} /\ at[2] = "name" -> <<Keyword(node.kind)>>
      [] at[1] \in {"struct", "interface", "namespace"} /\ at[2] = "open" ->
           <<Keyword(node.kind), Name(node.value)>>
      [] at[2] \in {"body", "semicolon"} ->
           <<Keyword(node.kind), Name(node.value), Mark("LBrack")>>
      [] OTHER -> <<>>

Pending(at, kids) ==
    IF at = <<"method", "end">> /\ Len(kids) = 1 THEN <<Mark("Arrow")>> ELSE <<>>

Taken(frame) ==
    Begun(frame.at, frame.node) \o Parts(frame.node, Stands) \o Pending(frame.at, frame.node.kids)

(* Nodes over low trees are nodes over trees.                              *)
LEMMA TreesOver ==
    ASSUME NEW level \in Nat
    PROVE  NodesOver(Tree(level)) \subseteq NodesOver(Trees)
  BY StandsFor

(* What a call has begun with is words.                                    *)
LEMMA BegunTyped ==
    ASSUME NEW at, NEW node, node.value \in Seq(STRING)
    PROVE  Begun(at, node) \in Seq(Word)
  <1> DEFINE name == Name(node.value)
             keyword == Keyword(node.kind)
  <1>1. name \in Word
    BY WordsAre
  <1>2. Mark("LGeneric") \in Word /\ Mark("LParen") \in Word /\ Mark("LBrack") \in Word
    BY WordsAre DEF TokenType
  <1>3. keyword \in Word
    BY WordsAre DEF Keyword, TokenType
  <1> HIDE DEF name, keyword
  <1>4. /\ <<>> \in Seq(Word)
        /\ \A w \in Word : <<w>> \in Seq(Word)
        /\ \A v, w \in Word : <<v, w>> \in Seq(Word)
        /\ \A u, v, w \in Word : <<u, v, w>> \in Seq(Word)
    OBVIOUS
  <1>5. Begun(at, node) \in {<<>>, <<name>>, <<name, Mark("LGeneric")>>, <<Mark("LParen")>>,
                             <<keyword>>, <<keyword, name>>, <<keyword, name, Mark("LBrack")>>}
    BY DEF Begun, name, keyword
  <1> QED
    BY <1>1, <1>2, <1>3, <1>4, <1>5

(* What a call has taken, at most places.                                  *)
LEMMA TakenIs ==
    ASSUME NEW level \in Nat, NEW frame, NEW role, FrameFits(frame, role, level)
    PROVE  LET node == frame.node
               begun == Begun(frame.at, node)
           IN
           /\ begun \in Seq(Word) /\ Parts(node, Stands) \in Seq(Word) /\ Taken(frame) \in Seq(Word)
           /\ node.kids = <<>> /\ frame.at # <<"method", "end">> => Taken(frame) = begun
           /\ frame.at # <<"method", "end">> \/ Len(node.kids) # 1 =>
                Taken(frame) = begun \o Parts(node, Stands)
  <1> DEFINE node == frame.node
             begun == Begun(frame.at, node)
             parts == Parts(node, Stands)
             pending == Pending(frame.at, node.kids)
  <1>1. node \in NodesOver(Trees) /\ node.value \in Seq(STRING)
    BY TreesOver DEF FrameFits, NodesOver
  <1>2. begun \in Seq(Word)
    BY <1>1, BegunTyped
  <1>3. parts \in Seq(Word)
    BY <1>1, PartsAre, StandsTyped
  <1>4. /\ pending \in Seq(Word)
        /\ frame.at # <<"method", "end">> \/ Len(node.kids) # 1 => pending = <<>>
    <2>1. Mark("Arrow") \in Word
      BY WordsAre DEF TokenType
    <2> QED
      BY <2>1 DEF Pending
  <1>5. node.kids = <<>> => parts = <<>>
    BY NoParts
  <1>6. Taken(frame) = begun \o parts \o pending
    BY DEF Taken
  <1> HIDE DEF node, begun, parts, pending
  <1>7. \A u, v, w \in Seq(Word) :
          /\ u \o v \o w \in Seq(Word) /\ u \o v \o <<>> = u \o v /\ u \o <<>> = u
    OBVIOUS
  <1>8. <<>> \in Seq(Word)
    OBVIOUS
  <1>9. frame.at # <<"method", "end">> \/ Len(node.kids) # 1 => Taken(frame) = begun \o parts
    BY <1>2, <1>3, <1>4, <1>6, <1>7
  <1>10. begun \o <<>> = begun
    BY <1>2
  <1>11. ASSUME node.kids = <<>>, frame.at # <<"method", "end">>
         PROVE  Taken(frame) = begun
    BY <1>5, <1>9, <1>10, <1>11
  <1>12. Taken(frame) \in Seq(Word)
    BY <1>2, <1>3, <1>4, <1>6, <1>7
  <1> QED
    BY <1>2, <1>3, <1>9, <1>11, <1>12 DEF node, begun, parts

Adds(token) == IF token.type = "Comma" THEN <<>> ELSE <<Said(token)>>

NamedBy(frame, token) ==
    IF frame.at[2] = "name" THEN [frame.node EXCEPT !.value = token.value] ELSE frame.node

Moved(frame, token, then) == [at |-> <<frame.at[1], then>>, node |-> NamedBy(frame, token)]

(* Short sequences joined.                                                 *)
LEMMA JoinOnes ==
    ASSUME NEW a, NEW b
    PROVE  <<a>> \o <<b>> = <<a, b>>
  <1> DEFINE S == {a, b}
  <1>1. <<a>> \in Seq(S) /\ <<b>> \in Seq(S) /\ <<a, b>> \in Seq(S)
    OBVIOUS
  <1>2. <<a>> \o <<b>> \in Seq(S) /\ Len(<<a>> \o <<b>>) = 2
    BY <1>1
  <1>3. (<<a>> \o <<b>>)[1] = a /\ (<<a>> \o <<b>>)[2] = b
    BY <1>1
  <1> DEFINE ab == <<a>> \o <<b>>
  <1>4. ab = [i \in 1..2 |-> ab[i]]
    BY <1>2
  <1>5. <<a, b>> = [i \in 1..2 |-> <<a, b>>[i]]
    BY <1>1
  <1>6. \A i \in 1..2 : i = 1 \/ i = 2
    OBVIOUS
  <1> HIDE DEF ab
  <1>7. \A i \in 1..2 : ab[i] = <<a, b>>[i]
    BY <1>3, <1>6 DEF ab
  <1> QED
    BY <1>4, <1>5, <1>7 DEF ab

(* What calls a rule makes, and how they go with the brackets of a type.   *)
Shaped(rule, type) ==
    /\ rule.at \in Places \ {<<"method", "end">>}
    /\ rule.calls \in {<<>>, CallType, CallVariable, CallMethod}
         \cup {CallPack(kind) : kind \in {"arguments", "returns"}}
         \cup {CallBlock(kind) : kind \in {"struct", "interface", "namespace"}}
    /\ rule.take \/ rule.at[2] \notin {"name", "open", "keyword"}
    /\ Len(rule.calls) <= IF rule.take THEN 1 ELSE 2
    /\ rule.then = "semicolon" => rule.calls # <<>>
    /\ rule.then \in {"first", Return} => rule.calls = <<>>
    /\ rule.take => (type = "LGeneric" <=> rule.then = "first")
    /\ ~rule.take => rule.then # "first"
    /\ rule.at = <<"type", "first">> =>
         IF rule.take THEN rule.then = Return /\ type = "RGeneric" ELSE rule.calls = CallType
    /\ rule.at[2] = "name" => type # "RGeneric"

(* The calls, one by one.                                                  *)
LEMMA CallsAre ==
    /\ CallVariable = <<Call("variable", "name", "variable"), Call("type", "name", "type")>>
    /\ Len(CallType) = 1 /\ Len(CallVariable) = 2 /\ Len(CallMethod) = 1
    /\ \A kind : Len(CallPack(kind)) = 1 /\ Len(CallBlock(kind)) = 1
    /\ CallType # <<>> /\ CallVariable # <<>> /\ CallMethod # <<>>
    /\ \A kind : CallPack(kind) # <<>> /\ CallBlock(kind) # <<>>
  <1>1. CallVariable = <<Call("variable", "name", "variable"), Call("type", "name", "type")>>
    BY JoinOnes DEF CallVariable, CallType
  <1>2. Len(CallVariable) = 2
    BY <1>1
  <1>3. Len(CallType) = 1 /\ Len(CallMethod) = 1
    BY DEF CallType, CallMethod
  <1>4. \A kind : Len(CallPack(kind)) = 1 /\ Len(CallBlock(kind)) = 1
    BY DEF CallPack, CallBlock
  <1>5. Len(<<>>) = 0
    OBVIOUS
  <1> QED
    BY <1>1, <1>2, <1>3, <1>4, <1>5

(* The places, one by one.                                                 *)
LEMMA PlacesAre ==
    /\ WaitingPlaces \subseteq Places /\ EarlyPlaces \subseteq Places
    /\ \A p \in {"name", "generics", "first"} : <<"type", p>> \in EarlyPlaces
    /\ <<"type", "after">> \in WaitingPlaces /\ <<"type", "more">> \in Places
    /\ <<"variable", "name">> \in WaitingPlaces
    /\ <<"pack", "open">> \in EarlyPlaces /\ <<"pack", "item">> \in Places
    /\ <<"pack", "after">> \in WaitingPlaces
    /\ <<"method", "name">> \in EarlyPlaces
    /\ <<"method", "arrow">> \in WaitingPlaces /\ <<"method", "end">> \in WaitingPlaces
    /\ \A r \in {"struct", "interface", "namespace"} :
         /\ \A p \in {"keyword", "name", "open"} : <<r, p>> \in EarlyPlaces
         /\ <<r, "body">> \in Places
    /\ \A r \in {"struct", "interface"} : <<r, "semicolon">> \in WaitingPlaces
    /\ <<"namespace", "body">> \in WaitingPlaces
  BY DEF Places, WaitingPlaces, EarlyPlaces

(* The rules, one by one.                                                  *)
Does(rule, at, take, calls, then) ==
    rule.at = at /\ rule.take = take /\ rule.calls = calls /\ rule.then = then

(* parse_variable's rule,                                                  *)
LEMMA VariableRulesAre ==
    ASSUME NEW rule \in VariableRules, NEW type \in rule.on
    PROVE  \/ Does(rule, <<"variable", "name">>, TRUE, <<>>, Return) /\ type = "Symbol"
  BY DEF Does, VariableRules, Take, Rule

(* parse_type's rules,                                                     *)
LEMMA TypeRulesAre ==
    ASSUME NEW rule \in TypeRules, NEW type \in rule.on
    PROVE  \/ Does(rule, <<"type", "name">>, TRUE, <<>>, "generics") /\ type = "Symbol"
           \/ Does(rule, <<"type", "generics">>, TRUE, <<>>, "first") /\ type = "LGeneric"
           \/ Does(rule, <<"type", "generics">>, FALSE, <<>>, Return) /\ type # "LGeneric"
           \/ Does(rule, <<"type", "first">>, TRUE, <<>>, Return) /\ type = "RGeneric"
           \/ Does(rule, <<"type", "first">>, FALSE, CallType, "after") /\ type # "RGeneric"
           \/ Does(rule, <<"type", "after">>, TRUE, <<>>, "more") /\ type = "Comma"
           \/ Does(rule, <<"type", "after">>, TRUE, <<>>, Return) /\ type = "RGeneric"
           \/ Does(rule, <<"type", "more">>, FALSE, CallType, "after") /\ type # "RGeneric"
  BY DEF Does, TypeRules, Take, Others, Rule

(* parse_pack's,                                                           *)
LEMMA PackRulesAre ==
    ASSUME NEW rule \in PackRules, NEW type \in rule.on
    PROVE  \/ Does(rule, <<"pack", "open">>, TRUE, <<>>, "item") /\ type = "LParen"
           \/ Does(rule, <<"pack", "item">>, TRUE, <<>>, Return) /\ type = "RParen"
           \/ Does(rule, <<"pack", "item">>, FALSE, CallVariable, "after") /\ type # "RParen"
           \/ Does(rule, <<"pack", "after">>, TRUE, <<>>, "item") /\ type = "Comma"
           \/ Does(rule, <<"pack", "after">>, TRUE, <<>>, Return) /\ type = "RParen"
           \/ Does(rule, <<"pack", "after">>, FALSE, <<>>, "item") /\ type # "RParen"
  BY DEF Does, PackRules, Take, Others, Rule

(* parse_method's,                                                         *)
LEMMA MethodRulesAre ==
    ASSUME NEW rule \in MethodRules, NEW type \in rule.on
    PROVE  \/ Does(rule, <<"method", "name">>, TRUE, CallPack("arguments"), "arrow") /\ type = "Symbol"
           \/ Does(rule, <<"method", "arrow">>, TRUE, CallPack("returns"), "end") /\ type = "Arrow"
           \/ Does(rule, <<"method", "arrow">>, FALSE, <<>>, Return) /\ type # "Arrow"
  BY DEF Does, MethodRules, Rule

(* those that a struct, an interface and a namespace share,                *)
LEMMA HeadRulesAre ==
    ASSUME NEW routine, NEW keyword, NEW rule \in HeadRules(routine, keyword), NEW type \in rule.on
    PROVE  \/ Does(rule, <<routine, "keyword">>, TRUE, <<>>, "name") /\ type = keyword
           \/ Does(rule, <<routine, "name">>, TRUE, <<>>, "open") /\ type = "Symbol"
           \/ Does(rule, <<routine, "open">>, TRUE, <<>>, "body") /\ type = "LBrack"
           \/ Does(rule, <<routine, "body">>, TRUE, <<>>, Return) /\ type = "RBrack"
  BY DEF Does, HeadRules, Take, Rule

(* and those of their bodies.                                              *)
LEMMA BodyRulesAre ==
    ASSUME NEW rule \in StructRules \cup InterfaceRules \cup NamespaceRules, NEW type \in rule.on
    PROVE  \/ rule \in HeadRules("struct", "Struct") \cup HeadRules("interface", "Interface")
                      \cup HeadRules("namespace", "Namespace")
           \/ Does(rule, <<"struct", "body">>, FALSE, CallVariable, "semicolon") /\ type # "RBrack"
           \/ Does(rule, <<"struct", "semicolon">>, TRUE, <<>>, "body") /\ type = "Semicolon"
           \/ Does(rule, <<"interface", "body">>, FALSE, CallMethod, "semicolon") /\ type # "RBrack"
           \/ Does(rule, <<"interface", "semicolon">>, TRUE, <<>>, "body") /\ type = "Semicolon"
           \/ \E kind \in {"struct", "interface", "namespace"} :
                Does(rule, <<"namespace", "body">>, FALSE, CallBlock(kind), "body")
  BY DEF Does, StructRules, InterfaceRules, NamespaceRules, Take, Others, Rule

(* A rule keeps its promise to a call at its place, for a token that it is *)
(* for: the call goes on, and what is taken is added to what it has taken; *)
Taking(rule, token) == IF rule.take THEN Adds(token) ELSE <<>>

RoleAfter(rule) == IF rule.calls = <<>> THEN "running" ELSE "waiting"

GoesOn(frame, token, adds, role, then, level) ==
    LET moved == Moved(frame, token, then) IN
    /\ FrameFits(moved, role, level)
    /\ IF frame.at[2] = "semicolon"
       THEN adds = <<Mark("Semicolon")>> /\ Taken(moved) = Taken(frame)
       ELSE Taken(moved) = Taken(frame) \o adds

(* or it returns, and has taken what its node stands for, but for a pair   *)
(* of brackets.                                                            *)
Complete(node) == Opening(node) \o Parts(node, Stands) \o Closing(node)

GivesBack(frame, token, adds, level) ==
    LET node == NamedBy(frame, token) IN
    /\ node \in NodesOver(Tree(level))
    /\ frame.at[2] # "semicolon"
    /\ IF frame.at = <<"type", "first">>
       THEN Taken(frame) = Complete(node) \o <<Mark("LGeneric")>>
       ELSE Complete(node) = Taken(frame) \o adds

Obeys(frame, token, rule, level) ==
    IF rule.then = Return THEN GivesBack(frame, token, Taking(rule, token), level)
    ELSE GoesOn(frame, token, Taking(rule, token), RoleAfter(rule), rule.then, level)

(* A call's node, with the name it may have read.                          *)
LEMMA NamedIs ==
    ASSUME NEW level \in Nat, NEW frame, NEW role, FrameFits(frame, role, level),
           NEW token \in Tokens
    PROVE  LET node == NamedBy(frame, token) IN
           /\ node \in NodesOver(Tree(level)) /\ node \in NodesOver(Trees)
           /\ node.kind = frame.node.kind /\ node.kids = frame.node.kids
           /\ node.value = IF frame.at[2] = "name" THEN token.value ELSE frame.node.value
           /\ frame.at[2] # "name" => node = frame.node
           /\ Parts(node, Stands) = Parts(frame.node, Stands)
  <1>1. frame.node \in NodesOver(Tree(level)) /\ token.value \in Seq(STRING)
    BY DEF FrameFits, Tokens
  <1>2. NamedBy(frame, token) \in NodesOver(Tree(level))
    BY <1>1 DEF NamedBy, NodesOver
  <1>3. /\ NamedBy(frame, token).kind = frame.node.kind
        /\ NamedBy(frame, token).kids = frame.node.kids
        /\ NamedBy(frame, token).value =
             IF frame.at[2] = "name" THEN token.value ELSE frame.node.value
    BY <1>1 DEF NamedBy, NodesOver
  <1>4. Parts(NamedBy(frame, token), Stands) = Parts(frame.node, Stands)
    BY <1>3 DEF Parts
  <1> QED
    BY <1>2, <1>3, <1>4, TreesOver DEF NamedBy

(* A call that has gone on fits where it is.                               *)
LEMMA MovedFits ==
    ASSUME NEW level \in Nat, NEW frame, FrameFits(frame, "running", level), NEW token \in Tokens,
           NEW then, NEW role,
           <<frame.at[1], then>> \in Standing(role),
           KidsFit(Moved(frame, token, then), role)
    PROVE  FrameFits(Moved(frame, token, then), role, level)
  <1> DEFINE moved == Moved(frame, token, then)
  <1>1. /\ moved.at = <<frame.at[1], then>> /\ moved.node = NamedBy(frame, token)
        /\ moved = [at |-> moved.at, node |-> moved.node] /\ moved.at[1] = frame.at[1]
    BY DEF Moved
  <1>2. moved.node \in NodesOver(Tree(level)) /\ moved.node.kind = frame.node.kind
    BY <1>1, NamedIs
  <1>3. IF frame.at[1] = "pack" THEN frame.node.kind \in {"arguments", "returns"}
        ELSE frame.node.kind = frame.at[1]
    BY DEF FrameFits
  <1> HIDE DEF moved
  <1>4. FrameFits(moved, role, level)
    BY <1>1, <1>2, <1>3 DEF FrameFits, moved
  <1> QED
    BY <1>4 DEF moved

(* What a call has begun with, place by place.                             *)
LEMMA BegunAt ==
    ASSUME NEW node
    PROVE  LET name == Name(node.value)
               keyword == Keyword(node.kind)
           IN
           /\ Begun(<<"type", "name">>, node) = <<>>
           /\ Begun(<<"type", "generics">>, node) = <<name>>
           /\ \A p \in {"first", "after", "more"} :
                Begun(<<"type", p>>, node) = <<name, Mark("LGeneric")>>
           /\ Begun(<<"variable", "name">>, node) = <<>>
           /\ Begun(<<"pack", "open">>, node) = <<>>
           /\ Begun(<<"pack", "item">>, node) = <<Mark("LParen")>>
           /\ Begun(<<"pack", "after">>, node) = <<Mark("LParen")>>
           /\ Begun(<<"method", "name">>, node) = <<>>
           /\ Begun(<<"method", "arrow">>, node) = <<name>>
           /\ Begun(<<"method", "end">>, node) = <<name>>
           /\ \A r \in {"struct", "interface", "namespace"} :
                /\ Begun(<<r, "keyword">>, node) = <<>>
                /\ Begun(<<r, "name">>, node) = <<keyword>>
                /\ Begun(<<r, "open">>, node) = <<keyword, name>>
                /\ Begun(<<r, "body">>, node) = <<keyword, name, Mark("LBrack")>>
                /\ Begun(<<r, "semicolon">>, node) = <<keyword, name, Mark("LBrack")>>
  BY DEF Begun

(* A call without kids goes on;                                            *)
LEMMA EarlyGoesOn ==
    ASSUME NEW level \in Nat, NEW frame, FrameFits(frame, "running", level), NEW token \in Tokens,
           NEW adds, NEW role, NEW then, NEW at, at = <<frame.at[1], then>>,
           at \in Standing(role),
           KidsFit(Moved(frame, token, then), role),
           frame.node.kids = <<>>, frame.at[2] \notin {"end", "semicolon"}, then # "end",
           Begun(at, NamedBy(frame, token)) = Begun(frame.at, frame.node) \o adds
    PROVE  GoesOn(frame, token, adds, role, then, level)
  <1> DEFINE moved == Moved(frame, token, then)
  <1>1. moved.at = at /\ moved.node = NamedBy(frame, token)
    BY DEF Moved
  <1>2. FrameFits(moved, role, level)
    BY MovedFits
  <1>3. moved.node.kids = <<>>
    BY <1>1, NamedIs
  <1>4. moved.at # <<"method", "end">> /\ frame.at # <<"method", "end">>
    BY <1>1
  <1> HIDE DEF moved
  <1>5. Taken(moved) = Begun(moved.at, moved.node)
    BY <1>2, <1>3, <1>4, TakenIs
  <1>6. Taken(frame) = Begun(frame.at, frame.node)
    BY <1>4, TakenIs
  <1>7. Taken(moved) = Taken(frame) \o adds
    BY <1>1, <1>5, <1>6
  <1> QED
    BY <1>2, <1>7 DEF GoesOn, moved

(* and one that goes on to where it has taken as much.                     *)
LEMMA LateGoesOn ==
    ASSUME NEW level \in Nat, NEW frame, FrameFits(frame, "running", level), NEW token \in Tokens,
           NEW adds, NEW role, NEW then, NEW at, at = <<frame.at[1], then>>,
           at \in Standing(role),
           KidsFit(Moved(frame, token, then), role),
           frame.at[2] \notin {"name", "end"}, then # "end",
           Begun(at, frame.node) = Begun(frame.at, frame.node),
           adds = IF frame.at[2] = "semicolon" THEN <<Mark("Semicolon")>> ELSE <<>>
    PROVE  GoesOn(frame, token, adds, role, then, level)
  <1> DEFINE moved == Moved(frame, token, then)
  <1>1. moved.at = at /\ moved.node = frame.node
    BY NamedIs DEF Moved
  <1>2. FrameFits(moved, role, level)
    BY MovedFits
  <1>3. moved.at # <<"method", "end">> /\ frame.at # <<"method", "end">>
    BY <1>1
  <1> HIDE DEF moved
  <1>4. Taken(moved) = Begun(moved.at, moved.node) \o Parts(moved.node, Stands)
    BY <1>2, <1>3, TakenIs
  <1>5. Taken(frame) = Begun(frame.at, frame.node) \o Parts(frame.node, Stands)
    BY <1>3, TakenIs
  <1>6. Taken(moved) = Taken(frame)
    BY <1>1, <1>4, <1>5
  <1>7. Taken(frame) \o <<>> = Taken(frame)
    <2>1. Taken(frame) \in Seq(Word)
      BY TakenIs
    <2> QED
      BY <2>1
  <1> QED
    BY <1>2, <1>6, <1>7 DEF GoesOn, moved

(* A call returns what it has taken and one more token.                    *)
LEMMA LateGivesBack ==
    ASSUME NEW level \in Nat, NEW frame, FrameFits(frame, "running", level), NEW token \in Tokens,
           NEW adds,
           frame.at \notin {<<"type", "first">>, <<"method", "end">>}, frame.at[2] # "semicolon",
           Opening(NamedBy(frame, token)) = Begun(frame.at, frame.node),
           Closing(NamedBy(frame, token)) = adds
    PROVE  GivesBack(frame, token, adds, level)
  <1> DEFINE node == NamedBy(frame, token)
  <1>1. node \in NodesOver(Tree(level)) /\ Parts(node, Stands) = Parts(frame.node, Stands)
    BY NamedIs
  <1>2. Taken(frame) = Begun(frame.at, frame.node) \o Parts(frame.node, Stands)
    BY TakenIs
  <1> HIDE DEF node
  <1>3. Complete(node) = Taken(frame) \o adds
    BY <1>1, <1>2 DEF Complete, node
  <1> QED
    BY <1>1, <1>3 DEF GivesBack, node

(* Two words and one more,                                                 *)
LEMMA JoinTwo ==
    ASSUME NEW a, NEW b, NEW c
    PROVE  <<a, b>> \o <<c>> = <<a, b, c>>
  <1> DEFINE S == {a, b, c}
             abc == <<a, b>> \o <<c>>
  <1>1. <<a, b>> \in Seq(S) /\ <<c>> \in Seq(S) /\ <<a, b, c>> \in Seq(S)
    OBVIOUS
  <1>2. abc \in Seq(S) /\ Len(abc) = 3
    BY <1>1
  <1>3. abc[1] = a /\ abc[2] = b /\ abc[3] = c
    BY <1>1
  <1>4. abc = [i \in 1..3 |-> abc[i]]
    BY <1>2
  <1>5. <<a, b, c>> = [i \in 1..3 |-> <<a, b, c>>[i]]
    BY <1>1
  <1>6. \A i \in 1..3 : i = 1 \/ i = 2 \/ i = 3
    OBVIOUS
  <1> HIDE DEF abc
  <1>7. \A i \in 1..3 : abc[i] = <<a, b, c>>[i]
    BY <1>3, <1>6
  <1> QED
    BY <1>4, <1>5, <1>7 DEF abc

(* and nothing more.                                                       *)
LEMMA Joins ==
    ASSUME NEW s \in Seq(Word)
    PROVE  s \o <<>> = s /\ <<>> \o s = s
  OBVIOUS

(* parse_type's rules keep their promise,                                  *)
LEMMA TypeObeys ==
    ASSUME NEW level \in Nat, NEW frame, FrameFits(frame, "running", level), NEW token \in Tokens,
           NEW rule \in TypeRules, rule.at = frame.at, token.type \in rule.on
    PROVE  Obeys(frame, token, rule, level)
  <1> DEFINE node == NamedBy(frame, token)
             name == Name(node.value)
             generic == Mark("LGeneric")
  <1>0. level \in Nat /\ FrameFits(frame, "running", level) /\ token \in Tokens
    OBVIOUS
  <1>1. frame.at[1] = "type"
    <2>1. \E p : rule.at = <<"type", p>>
      BY TypeRulesAre DEF Does
    <2> QED
      BY <2>1
  <1>2. frame.node.kind = "type" /\ KidsFit(frame, "running")
    BY <1>1 DEF FrameFits
  <1>3. /\ node \in NodesOver(Tree(level)) /\ node.kind = "type" /\ node.kids = frame.node.kids
        /\ node.value = IF frame.at[2] = "name" THEN token.value ELSE frame.node.value
        /\ frame.at[2] # "name" => node = frame.node
    BY <1>2, NamedIs
  <1>4. name \in Word /\ generic \in Word
    BY <1>3, WordsAre DEF NodesOver, TokenType
  <1>5. \A p : <<"type", p>> \in EarlyPlaces <=> p \in {"name", "generics", "first"}
    BY DEF EarlyPlaces
  <1>6. ASSUME NEW then, NEW role,
               then \in {"generics", "first"} => frame.node.kids = <<>>,
               then = "more" => frame.node.kids # <<>> /\ role = "running",
               then = "after" => role = "waiting",
               then \in {"generics", "first", "more", "after"}
        PROVE  KidsFit(Moved(frame, token, then), role)
    <2>1. Moved(frame, token, then).at = <<"type", then>> /\ Moved(frame, token, then).node = node
      BY <1>1 DEF Moved
    <2> HIDE DEF node
    <2> QED
      BY <1>3, <1>5, <1>6, <2>1 DEF KidsFit
  <1>7. /\ frame.at \in EarlyPlaces => frame.node.kids = <<>>
        /\ frame.at \notin EarlyPlaces => frame.node.kids # <<>>
    BY <1>1, <1>2 DEF KidsFit
  <1>8. /\ <<>> \o <<name>> = <<name>> /\ <<name>> \o <<generic>> = <<name, generic>>
        /\ <<name>> \o <<>> = <<name>>
    <2>1. <<name>> \in Seq(Word)
      BY <1>4
    <2> QED
      BY <2>1, JoinOnes, Joins
  <1>9. /\ Opening(node) = IF node.kids = <<>> THEN <<name>> ELSE <<name, generic>>
        /\ Closing(node) = IF node.kids = <<>> THEN <<>> ELSE <<Mark("RGeneric")>>
    BY <1>3, <1>8 DEF Opening, Closing
  <1>10. Begun(<<"type", "generics">>, node) = <<name>>
    BY BegunAt
  <1>11. Begun(<<"type", "first">>, node) = <<name, generic>>
    BY BegunAt
  <1>12. Begun(<<"type", "after">>, node) = <<name, generic>>
    BY BegunAt
  <1>13. Begun(<<"type", "more">>, node) = <<name, generic>>
    BY BegunAt
  <1> HIDE DEF node, name, generic
  <1>14. CASE Does(rule, <<"type", "name">>, TRUE, <<>>, "generics") /\ token.type = "Symbol"
    <2>1. frame.at = <<"type", "name">> /\ frame.node.kids = <<>>
      BY <1>5, <1>7, <1>14 DEF Does
    <2>2. Begun(frame.at, frame.node) = <<>>
      BY <2>1, BegunAt
    <2>3. Taking(rule, token) = <<name>>
      BY <1>3, <1>14, <2>1 DEF Taking, Adds, Said, Does, name
    <2>4. KidsFit(Moved(frame, token, "generics"), "running")
      BY <1>6, <2>1
    <2>5. Begun(<<"type", "generics">>, node) = Begun(frame.at, frame.node) \o Taking(rule, token)
      BY <1>8, <1>10, <2>2, <2>3
    <2>6. <<"type", "generics">> = <<frame.at[1], "generics">> /\ <<"type", "generics">> \in Standing("running")
      BY <2>1, PlacesAre DEF Standing
    <2>7. frame.at[2] \notin {"end", "semicolon"} /\ "generics" # "end"
      BY <2>1
    <2>8. frame.node.kids = <<>>
      BY <2>1
    <2>9. GoesOn(frame, token, Taking(rule, token), "running", "generics", level)
      BY ONLY <1>0, <2>4, <2>5, <2>6, <2>7, <2>8, EarlyGoesOn, Zenon DEF node
    <2> QED
      BY <1>14, <2>9 DEF Obeys, RoleAfter, Does, Return
  <1>15. CASE Does(rule, <<"type", "generics">>, TRUE, <<>>, "first") /\ token.type = "LGeneric"
    <2>1. frame.at = <<"type", "generics">> /\ frame.node.kids = <<>> /\ node = frame.node
      BY <1>3, <1>5, <1>7, <1>15 DEF Does
    <2>2. Taking(rule, token) = <<generic>>
      BY <1>15 DEF Taking, Adds, Said, Does, generic
    <2>3. KidsFit(Moved(frame, token, "first"), "running")
      BY <1>6, <2>1
    <2>4. Begun(<<"type", "first">>, node) = Begun(frame.at, frame.node) \o Taking(rule, token)
      BY <1>8, <1>10, <1>11, <2>1, <2>2
    <2>5. <<"type", "first">> = <<frame.at[1], "first">> /\ <<"type", "first">> \in Standing("running")
      BY <2>1, PlacesAre DEF Standing
    <2>6. frame.at[2] \notin {"end", "semicolon"} /\ "first" # "end"
      BY <2>1
    <2>7. frame.node.kids = <<>>
      BY <2>1
    <2>8. GoesOn(frame, token, Taking(rule, token), "running", "first", level)
      BY ONLY <1>0, <2>3, <2>4, <2>5, <2>6, <2>7, EarlyGoesOn, Zenon DEF node
    <2> QED
      BY <1>15, <2>8 DEF Obeys, RoleAfter, Does, Return
  <1>16. CASE Does(rule, <<"type", "generics">>, FALSE, <<>>, Return)
    <2>1. frame.at = <<"type", "generics">> /\ frame.node.kids = <<>> /\ node = frame.node
      BY <1>3, <1>5, <1>7, <1>16 DEF Does
    <2>2. Opening(node) = Begun(frame.at, frame.node) /\ Closing(node) = Taking(rule, token)
      BY <1>3, <1>9, <1>10, <1>16, <2>1 DEF Taking, Does
    <2>3. frame.at \notin {<<"type", "first">>, <<"method", "end">>} /\ frame.at[2] # "semicolon"
      BY <2>1
    <2>4. GivesBack(frame, token, Taking(rule, token), level)
      BY ONLY <1>0, <2>2, <2>3, LateGivesBack DEF node
    <2> QED
      BY <1>16, <2>4 DEF Obeys, RoleAfter, Does
  <1>17. CASE Does(rule, <<"type", "first">>, TRUE, <<>>, Return)
    <2>1. frame.at = <<"type", "first">> /\ frame.node.kids = <<>> /\ node = frame.node
      BY <1>3, <1>5, <1>7, <1>17 DEF Does
    <2>2. Complete(node) = <<name>>
      BY <1>8, <1>9, <2>1, NoParts DEF Complete
    <2>3. Taken(frame) = Begun(frame.at, frame.node)
      <3>1. frame.at # <<"method", "end">>
        BY <2>1
      <3> QED
        BY ONLY <1>0, <2>1, <3>1, TakenIs
    <2>4. Taken(frame) = <<name, generic>>
      BY <1>11, <2>1, <2>3
    <2>5. GivesBack(frame, token, Taking(rule, token), level)
      BY <1>3, <1>8, <2>1, <2>2, <2>4 DEF GivesBack, node, generic
    <2> QED
      BY <1>17, <2>5 DEF Obeys, RoleAfter, Does
  <1>18. CASE Does(rule, <<"type", "after">>, TRUE, <<>>, "more") /\ token.type = "Comma"
    <2>1. frame.at = <<"type", "after">> /\ frame.node.kids # <<>> /\ node = frame.node
      BY <1>3, <1>5, <1>7, <1>18 DEF Does
    <2>2. Taking(rule, token) = <<>>
      BY <1>18 DEF Taking, Adds, Does
    <2>3. KidsFit(Moved(frame, token, "more"), "running")
      BY <1>6, <2>1
    <2>4. Begun(<<"type", "more">>, frame.node) = Begun(frame.at, frame.node)
      BY <1>12, <1>13, <2>1
    <2>5. <<"type", "more">> = <<frame.at[1], "more">> /\ <<"type", "more">> \in Standing("running")
      BY <2>1, PlacesAre DEF Standing
    <2>6. GoesOn(frame, token, Taking(rule, token), "running", "more", level)
      BY ONLY <1>0, <2>1, <2>2, <2>3, <2>4, <2>5, LateGoesOn
    <2> QED
      BY <1>18, <2>6 DEF Obeys, RoleAfter, Does, Return
  <1>19. CASE Does(rule, <<"type", "after">>, TRUE, <<>>, Return) /\ token.type = "RGeneric"
    <2>1. frame.at = <<"type", "after">> /\ frame.node.kids # <<>> /\ node = frame.node
      BY <1>3, <1>5, <1>7, <1>19 DEF Does
    <2>2. Taking(rule, token) = <<Mark("RGeneric")>>
      BY <1>19 DEF Taking, Adds, Said, Does
    <2>3. Opening(node) = Begun(frame.at, frame.node) /\ Closing(node) = Taking(rule, token)
      BY <1>3, <1>9, <1>12, <2>1, <2>2
    <2>4. frame.at \notin {<<"type", "first">>, <<"method", "end">>} /\ frame.at[2] # "semicolon"
      BY <2>1
    <2>5. GivesBack(frame, token, Taking(rule, token), level)
      BY ONLY <1>0, <2>3, <2>4, LateGivesBack DEF node
    <2> QED
      BY <1>19, <2>5 DEF Obeys, RoleAfter, Does
  <1>20. CASE \E p \in {"first", "more"} : Does(rule, <<"type", p>>, FALSE, CallType, "after")
    <2>1. /\ frame.at \in {<<"type", "first">>, <<"type", "more">>} /\ node = frame.node
          /\ rule.take = FALSE /\ rule.calls # <<>> /\ rule.then = "after"
      BY <1>3, <1>20, CallsAre DEF Does
    <2>2. Taking(rule, token) = <<>>
      BY <1>20 DEF Taking, Does
    <2>3. KidsFit(Moved(frame, token, "after"), "waiting")
      BY <1>6
    <2>4. Begun(<<"type", "after">>, frame.node) = Begun(frame.at, frame.node)
      BY <1>11, <1>12, <1>13, <2>1
    <2>5. <<"type", "after">> = <<frame.at[1], "after">> /\ <<"type", "after">> \in Standing("waiting")
      BY <2>1, PlacesAre DEF Standing
    <2>6. GoesOn(frame, token, Taking(rule, token), "waiting", "after", level)
      BY ONLY <1>0, <2>1, <2>2, <2>3, <2>4, <2>5, LateGoesOn
    <2> QED
      BY <2>1, <2>6 DEF Obeys, RoleAfter, Return
  <1> QED
    BY <1>14, <1>15, <1>16, <1>17, <1>18, <1>19, <1>20, TypeRulesAre

(* parse_variable's,                                                       *)
LEMMA VariableObeys ==
    ASSUME NEW level \in Nat, NEW frame, FrameFits(frame, "running", level), NEW token \in Tokens,
           NEW rule \in VariableRules, rule.at = frame.at, token.type \in rule.on
    PROVE  Obeys(frame, token, rule, level)
  <1> DEFINE node == NamedBy(frame, token)
  <1>0. level \in Nat /\ FrameFits(frame, "running", level) /\ token \in Tokens
    OBVIOUS
  <1>1. Does(rule, <<"variable", "name">>, TRUE, <<>>, Return) /\ token.type = "Symbol"
    BY VariableRulesAre
  <1>2. frame.at = <<"variable", "name">>
    BY <1>1 DEF Does
  <1>3. node.kind = "variable" /\ node.value = token.value
    BY <1>0, <1>2, NamedIs DEF FrameFits
  <1>4. Taking(rule, token) = <<Name(token.value)>>
    BY <1>1 DEF Taking, Adds, Said, Does
  <1>5. Begun(frame.at, frame.node) = <<>>
    BY <1>2, BegunAt
  <1> HIDE DEF node
  <1>6. Opening(node) = Begun(frame.at, frame.node) /\ Closing(node) = Taking(rule, token)
    BY <1>3, <1>4, <1>5 DEF Opening, Closing
  <1>7. frame.at \notin {<<"type", "first">>, <<"method", "end">>} /\ frame.at[2] # "semicolon"
    BY <1>2
  <1>8. GivesBack(frame, token, Taking(rule, token), level)
    BY ONLY <1>0, <1>6, <1>7, LateGivesBack DEF node
  <1> QED
    BY <1>1, <1>8 DEF Obeys, Does

(* parse_pack's,                                                           *)
LEMMA PackObeys ==
    ASSUME NEW level \in Nat, NEW frame, FrameFits(frame, "running", level), NEW token \in Tokens,
           NEW rule \in PackRules, rule.at = frame.at, token.type \in rule.on
    PROVE  Obeys(frame, token, rule, level)
  <1> DEFINE node == NamedBy(frame, token)
             paren == Mark("LParen")
  <1>0. level \in Nat /\ FrameFits(frame, "running", level) /\ token \in Tokens
    OBVIOUS
  <1>1. frame.at \in {<<"pack", "open">>, <<"pack", "item">>, <<"pack", "after">>}
    <2>1. rule.at \in {<<"pack", "open">>, <<"pack", "item">>, <<"pack", "after">>}
      BY PackRulesAre DEF Does
    <2> QED
      BY <2>1
  <1>2. frame.node.kind \in {"arguments", "returns"} /\ KidsFit(frame, "running")
    BY <1>1 DEF FrameFits
  <1>3. node = frame.node
    BY <1>0, <1>1, NamedIs
  <1>4. \A p : <<"pack", p>> \in EarlyPlaces <=> p = "open"
    BY DEF EarlyPlaces
  <1>5. ASSUME NEW then \in {"item", "after"}, NEW role
        PROVE  KidsFit(Moved(frame, token, then), role)
    <2>1. Moved(frame, token, then).at = <<"pack", then>>
      BY <1>1 DEF Moved
    <2> QED
      BY <1>4, <1>5, <2>1 DEF KidsFit
  <1>6. /\ Begun(<<"pack", "open">>, node) = <<>>
        /\ Begun(<<"pack", "item">>, node) = <<paren>>
        /\ Begun(<<"pack", "after">>, node) = <<paren>>
    BY BegunAt
  <1>7. Opening(node) = <<paren>> /\ Closing(node) = <<Mark("RParen")>>
    BY <1>2, <1>3 DEF Opening, Closing
  <1>8. <<>> \o <<paren>> = <<paren>>
    <2>1. paren \in Word
      BY WordsAre DEF TokenType
    <2> QED
      BY <2>1, Joins
  <1> HIDE DEF node, paren
  <1>9. CASE Does(rule, <<"pack", "open">>, TRUE, <<>>, "item") /\ token.type = "LParen"
    <2>1. frame.at = <<"pack", "open">> /\ frame.node.kids = <<>>
      BY <1>2, <1>4, <1>9 DEF Does, KidsFit
    <2>2. Taking(rule, token) = <<paren>>
      BY <1>9 DEF Taking, Adds, Said, Does, paren
    <2>3. KidsFit(Moved(frame, token, "item"), "running")
      BY <1>5
    <2>4. Begun(<<"pack", "item">>, node) = Begun(frame.at, frame.node) \o Taking(rule, token)
      BY <1>3, <1>6, <1>8, <2>1, <2>2
    <2>5. <<"pack", "item">> = <<frame.at[1], "item">> /\ <<"pack", "item">> \in Standing("running")
      BY <2>1, PlacesAre DEF Standing
    <2>6. frame.at[2] \notin {"end", "semicolon"} /\ "item" # "end"
      BY <2>1
    <2>7. frame.node.kids = <<>>
      BY <2>1
    <2>8. GoesOn(frame, token, Taking(rule, token), "running", "item", level)
      BY ONLY <1>0, <2>3, <2>4, <2>5, <2>6, <2>7, EarlyGoesOn, Zenon DEF node
    <2> QED
      BY <1>9, <2>8 DEF Obeys, RoleAfter, Does, Return
  <1>10. CASE \E p \in {"item", "after"} :
                Does(rule, <<"pack", p>>, TRUE, <<>>, Return) /\ token.type = "RParen"
    <2>1. frame.at \in {<<"pack", "item">>, <<"pack", "after">>} /\ rule.then = Return
      BY <1>10 DEF Does
    <2>2. Taking(rule, token) = <<Mark("RParen")>>
      BY <1>10 DEF Taking, Adds, Said, Does
    <2>3. Opening(node) = Begun(frame.at, frame.node) /\ Closing(node) = Taking(rule, token)
      BY <1>3, <1>6, <1>7, <2>1, <2>2
    <2>4. frame.at \notin {<<"type", "first">>, <<"method", "end">>} /\ frame.at[2] # "semicolon"
      BY <2>1
    <2>5. GivesBack(frame, token, Taking(rule, token), level)
      BY ONLY <1>0, <2>3, <2>4, LateGivesBack DEF node
    <2> QED
      BY <2>1, <2>5 DEF Obeys
  <1>11. CASE Does(rule, <<"pack", "item">>, FALSE, CallVariable, "after")
    <2>1. frame.at = <<"pack", "item">>
      BY <1>11 DEF Does
    <2>2. Taking(rule, token) = <<>>
      BY <1>11 DEF Taking, Does
    <2>3. KidsFit(Moved(frame, token, "after"), "waiting")
      BY <1>5
    <2>4. Begun(<<"pack", "after">>, frame.node) = Begun(frame.at, frame.node)
      BY <1>3, <1>6, <2>1
    <2>5. <<"pack", "after">> = <<frame.at[1], "after">> /\ <<"pack", "after">> \in Standing("waiting")
      BY <2>1, PlacesAre DEF Standing
    <2>6. GoesOn(frame, token, Taking(rule, token), "waiting", "after", level)
      BY ONLY <1>0, <2>1, <2>2, <2>3, <2>4, <2>5, LateGoesOn
    <2> QED
      BY <1>11, <2>6, CallsAre DEF Obeys, RoleAfter, Does, Return
  <1>12. CASE \/ Does(rule, <<"pack", "after">>, TRUE, <<>>, "item") /\ token.type = "Comma"
              \/ Does(rule, <<"pack", "after">>, FALSE, <<>>, "item")
    <2>1. frame.at = <<"pack", "after">> /\ rule.then = "item" /\ rule.calls = <<>>
      BY <1>12 DEF Does
    <2>2. Taking(rule, token) = <<>>
      BY <1>12 DEF Taking, Adds, Does
    <2>3. KidsFit(Moved(frame, token, "item"), "running")
      BY <1>5
    <2>4. Begun(<<"pack", "item">>, frame.node) = Begun(frame.at, frame.node)
      BY <1>3, <1>6, <2>1
    <2>5. <<"pack", "item">> = <<frame.at[1], "item">> /\ <<"pack", "item">> \in Standing("running")
      BY <2>1, PlacesAre DEF Standing
    <2>6. GoesOn(frame, token, Taking(rule, token), "running", "item", level)
      BY ONLY <1>0, <2>1, <2>2, <2>3, <2>4, <2>5, LateGoesOn
    <2> QED
      BY <2>1, <2>6 DEF Obeys, RoleAfter, Return
  <1> QED
    BY <1>9, <1>10, <1>11, <1>12, PackRulesAre

(* parse_method's,                                                         *)
LEMMA MethodObeys ==
    ASSUME NEW level \in Nat, NEW frame, FrameFits(frame, "running", level), NEW token \in Tokens,
           NEW rule \in MethodRules, rule.at = frame.at, token.type \in rule.on
    PROVE  Obeys(frame, token, rule, level)
  <1> DEFINE node == NamedBy(frame, token)
             name == Name(node.value)
  <1>0. level \in Nat /\ FrameFits(frame, "running", level) /\ token \in Tokens
    OBVIOUS
  <1>1. frame.at \in {<<"method", "name">>, <<"method", "arrow">>}
    <2>1. rule.at \in {<<"method", "name">>, <<"method", "arrow">>}
      BY MethodRulesAre DEF Does
    <2> QED
      BY <2>1
  <1>2. frame.node.kind = "method" /\ KidsFit(frame, "running")
    BY <1>1 DEF FrameFits
  <1>3. /\ node \in NodesOver(Tree(level)) /\ node.kind = "method" /\ node.kids = frame.node.kids
        /\ node.value = IF frame.at[2] = "name" THEN token.value ELSE frame.node.value
        /\ frame.at[2] # "name" => node = frame.node
    BY <1>2, NamedIs
  <1>4. name \in Word
    BY <1>3, WordsAre DEF NodesOver
  <1>5. \A p : <<"method", p>> \in EarlyPlaces <=> p = "name"
    BY DEF EarlyPlaces
  <1>6. /\ Begun(<<"method", "arrow">>, node) = <<name>>
        /\ Begun(<<"method", "end">>, node) = <<name>>
    BY BegunAt
  <1>7. Opening(node) = <<name>> /\ Closing(node) = <<>>
    BY <1>3 DEF Opening, Closing
  <1>8. <<>> \o <<name>> = <<name>>
    BY <1>4, Joins
  <1> HIDE DEF node, name
  <1>9. CASE Does(rule, <<"method", "name">>, TRUE, CallPack("arguments"), "arrow")
             /\ token.type = "Symbol"
    <2>1. frame.at = <<"method", "name">> /\ frame.node.kids = <<>>
      BY <1>2, <1>5, <1>9 DEF Does, KidsFit
    <2>2. Taking(rule, token) = <<name>>
      BY <1>3, <1>9, <2>1 DEF Taking, Adds, Said, Does, name
    <2>3. Begun(frame.at, frame.node) = <<>>
      BY <2>1, BegunAt
    <2>4. KidsFit(Moved(frame, token, "arrow"), "waiting")
      <3>1. /\ Moved(frame, token, "arrow").at = <<"method", "arrow">>
            /\ Moved(frame, token, "arrow").node = node
        BY <2>1 DEF Moved, node
      <3> QED
        BY <1>3, <1>5, <2>1, <3>1 DEF KidsFit
    <2>5. Begun(<<"method", "arrow">>, node) = Begun(frame.at, frame.node) \o Taking(rule, token)
      BY <1>6, <1>8, <2>2, <2>3
    <2>6. /\ <<"method", "arrow">> = <<frame.at[1], "arrow">>
          /\ <<"method", "arrow">> \in Standing("waiting")
      BY <2>1, PlacesAre DEF Standing
    <2>7. frame.at[2] \notin {"end", "semicolon"} /\ "arrow" # "end"
      BY <2>1
    <2>8. frame.node.kids = <<>>
      BY <2>1
    <2>9. GoesOn(frame, token, Taking(rule, token), "waiting", "arrow", level)
      BY ONLY <1>0, <2>4, <2>5, <2>6, <2>7, <2>8, EarlyGoesOn, Zenon DEF node
    <2> QED
      BY <1>9, <2>9, CallsAre DEF Obeys, RoleAfter, Does, Return
  <1>10. CASE Does(rule, <<"method", "arrow">>, TRUE, CallPack("returns"), "end")
              /\ token.type = "Arrow"
    <2> DEFINE moved == Moved(frame, token, "end")
               arrow == <<Mark("Arrow")>>
    <2>1. frame.at = <<"method", "arrow">> /\ node = frame.node
      BY <1>3, <1>10 DEF Does
    <2>2. Taking(rule, token) = arrow
      BY <1>10 DEF Taking, Adds, Said, Does
    <2>3. Len(frame.node.kids) = 1
      BY <1>2, <2>1 DEF KidsFit
    <2>4. moved.at = <<"method", "end">> /\ moved.node = frame.node /\ moved.at = <<frame.at[1], "end">>
      BY <2>1 DEF Moved, node
    <2> HIDE DEF moved
    <2>5. KidsFit(moved, "waiting")
      BY <1>5, <2>3, <2>4 DEF KidsFit
    <2>6. <<frame.at[1], "end">> \in Standing("waiting")
      BY <2>1, PlacesAre DEF Standing
    <2>7. FrameFits(moved, "waiting", level)
      BY ONLY <1>0, <2>5, <2>6, MovedFits DEF moved
    <2>8. Taken(moved) = Taken(frame) \o arrow
      <3>1. Taken(frame) = Begun(frame.at, frame.node) \o Parts(frame.node, Stands)
        <4>1. frame.at # <<"method", "end">>
          BY <2>1
        <4> QED
          BY ONLY <1>0, <4>1, TakenIs
      <3>2. Begun(moved.at, moved.node) = Begun(frame.at, frame.node)
        BY <1>6, <2>1, <2>4
      <3>3. Pending(moved.at, moved.node.kids) = arrow
        BY <2>3, <2>4 DEF Pending
      <3>4. Taken(moved) = Begun(moved.at, moved.node) \o Parts(moved.node, Stands) \o arrow
        BY <3>3 DEF Taken
      <3> QED
        BY <2>4, <3>1, <3>2, <3>4
    <2>9. GoesOn(frame, token, Taking(rule, token), "waiting", "end", level)
      <3>1. frame.at[2] # "semicolon"
        BY <2>1
      <3> QED
        BY ONLY <2>2, <2>7, <2>8, <3>1 DEF GoesOn, moved
    <2> QED
      BY <1>10, <2>9, CallsAre DEF Obeys, RoleAfter, Does, Return
  <1>11. CASE Does(rule, <<"method", "arrow">>, FALSE, <<>>, Return)
    <2>1. frame.at = <<"method", "arrow">> /\ node = frame.node
      BY <1>3, <1>11 DEF Does
    <2>2. Taking(rule, token) = <<>>
      BY <1>11 DEF Taking, Does
    <2>3. Opening(node) = Begun(frame.at, frame.node) /\ Closing(node) = Taking(rule, token)
      BY <1>6, <1>7, <2>1, <2>2
    <2>4. frame.at \notin {<<"type", "first">>, <<"method", "end">>} /\ frame.at[2] # "semicolon"
      BY <2>1
    <2>5. GivesBack(frame, token, Taking(rule, token), level)
      BY ONLY <1>0, <2>3, <2>4, LateGivesBack DEF node
    <2> QED
      BY <1>11, <2>5 DEF Obeys, Does
  <1> QED
    BY <1>9, <1>10, <1>11, MethodRulesAre

(* those of the heads of declarations,                                     *)
LEMMA HeadObeys ==
    ASSUME NEW level \in Nat, NEW frame, FrameFits(frame, "running", level), NEW token \in Tokens,
           NEW routine \in {"struct", "interface", "namespace"},
           NEW keyword \in TokenType \ {"Comma", "Symbol"}, Keyword(routine) = Mark(keyword),
           NEW rule \in HeadRules(routine, keyword), rule.at = frame.at, token.type \in rule.on
    PROVE  Obeys(frame, token, rule, level)
  <1> DEFINE node == NamedBy(frame, token)
             name == Name(node.value)
             word == Keyword(routine)
             bracket == Mark("LBrack")
  <1>0. level \in Nat /\ FrameFits(frame, "running", level) /\ token \in Tokens
    OBVIOUS
  <1>16. \/ Does(rule, <<routine, "keyword">>, TRUE, <<>>, "name") /\ token.type = keyword
         \/ Does(rule, <<routine, "name">>, TRUE, <<>>, "open") /\ token.type = "Symbol"
         \/ Does(rule, <<routine, "open">>, TRUE, <<>>, "body") /\ token.type = "LBrack"
         \/ Does(rule, <<routine, "body">>, TRUE, <<>>, Return) /\ token.type = "RBrack"
    <2>1. rule \in HeadRules(routine, keyword) /\ token.type \in rule.on
      OBVIOUS
    <2> QED
      BY ONLY <2>1, HeadRulesAre, Zenon
  <1>1. frame.at \in {<<routine, p>> : p \in {"keyword", "name", "open", "body"}}
    <2>1. \/ rule.at = <<routine, "keyword">> \/ rule.at = <<routine, "name">>
          \/ rule.at = <<routine, "open">> \/ rule.at = <<routine, "body">>
      BY ONLY <1>16 DEF Does
    <2> QED
      BY <2>1
  <1>2. frame.at[1] = routine /\ routine \notin {"pack", "type", "method"}
    BY <1>1
  <1>3. frame.node.kind = routine /\ KidsFit(frame, "running")
    BY <1>0, <1>2 DEF FrameFits
  <1>4. /\ node \in NodesOver(Tree(level)) /\ node.kind = routine /\ node.kids = frame.node.kids
        /\ node.value = IF frame.at[2] = "name" THEN token.value ELSE frame.node.value
        /\ frame.at[2] # "name" => node = frame.node
    BY <1>0, <1>3, NamedIs
  <1>5. \A p : <<routine, p>> \in EarlyPlaces <=> p \in {"keyword", "name", "open"}
    BY <1>2 DEF EarlyPlaces
  <1>6. /\ name \in Word /\ word \in Word /\ bracket \in Word
    BY <1>4, WordsAre DEF NodesOver, TokenType
  <1>7. ASSUME NEW then \in {"name", "open", "body"}, frame.node.kids = <<>>
        PROVE  KidsFit(Moved(frame, token, then), "running")
    <2>1. Moved(frame, token, then).at = <<routine, then>> /\ Moved(frame, token, then).node = node
      BY <1>2 DEF Moved
    <2> HIDE DEF node
    <2> QED
      BY <1>2, <1>4, <1>7, <2>1 DEF KidsFit
  <1>8. /\ Begun(<<routine, "keyword">>, node) = <<>>
        /\ Begun(<<routine, "name">>, node) = <<word>>
        /\ Begun(<<routine, "open">>, node) = <<word, name>>
        /\ Begun(<<routine, "body">>, node) = <<word, name, bracket>>
        /\ Begun(<<routine, "name">>, frame.node) = <<word>>
    <2> HIDE DEF node
    <2>1. Keyword(node.kind) = word /\ Keyword(frame.node.kind) = word
      BY <1>3, <1>4
    <2>2. Begun(<<routine, "keyword">>, node) = <<>>
      BY BegunAt
    <2>3. Begun(<<routine, "name">>, node) = <<Keyword(node.kind)>>
      BY BegunAt
    <2>4. Begun(<<routine, "open">>, node) = <<Keyword(node.kind), name>>
      BY BegunAt
    <2>5. Begun(<<routine, "body">>, node) = <<Keyword(node.kind), name, bracket>>
      BY BegunAt
    <2>6. Begun(<<routine, "name">>, frame.node) = <<Keyword(frame.node.kind)>>
      BY BegunAt
    <2> QED
      BY <2>1, <2>2, <2>3, <2>4, <2>5, <2>6
  <1>9. Opening(node) = <<word, name, bracket>> /\ Closing(node) = <<Mark("RBrack")>>
    <2> HIDE DEF node
    <2> QED
      BY <1>2, <1>4 DEF Opening, Closing
  <1>10. <<>> \o <<word>> = <<word>>
    BY <1>6, Joins
  <1> HIDE DEF node, name, word, bracket
  <1>11. ASSUME frame.at[2] \in {"keyword", "name", "open"}
         PROVE  frame.node.kids = <<>> /\ frame.at[2] \notin {"end", "semicolon"}
    BY <1>1, <1>3, <1>5, <1>11 DEF KidsFit
  <1>12. CASE Does(rule, <<routine, "keyword">>, TRUE, <<>>, "name") /\ token.type = keyword
    <2>1. frame.at = <<routine, "keyword">> /\ node = frame.node
      BY <1>4, <1>12 DEF Does
    <2>2. Taking(rule, token) = <<word>>
      BY <1>12 DEF Taking, Adds, Said, Does, word
    <2>3. frame.node.kids = <<>> /\ frame.at[2] \notin {"end", "semicolon"} /\ "name" # "end"
      BY <1>11, <2>1
    <2>4. KidsFit(Moved(frame, token, "name"), "running")
      BY <1>7, <2>3
    <2>5. Begun(<<routine, "name">>, node) = Begun(frame.at, frame.node) \o Taking(rule, token)
      BY <1>8, <1>10, <2>1, <2>2
    <2>6. <<routine, "name">> = <<frame.at[1], "name">> /\ <<routine, "name">> \in Standing("running")
      BY <2>1, PlacesAre DEF Standing
    <2>7. GoesOn(frame, token, Taking(rule, token), "running", "name", level)
      BY ONLY <1>0, <2>3, <2>4, <2>5, <2>6, EarlyGoesOn, Zenon DEF node
    <2> QED
      BY <1>12, <2>7 DEF Obeys, RoleAfter, Does, Return
  <1>13. CASE Does(rule, <<routine, "name">>, TRUE, <<>>, "open") /\ token.type = "Symbol"
    <2>1. frame.at = <<routine, "name">> /\ node.value = token.value
      BY <1>4, <1>13 DEF Does
    <2>2. Taking(rule, token) = <<name>>
      BY <1>13, <2>1 DEF Taking, Adds, Said, Does, name
    <2>3. frame.node.kids = <<>> /\ frame.at[2] \notin {"end", "semicolon"} /\ "open" # "end"
      BY <1>11, <2>1
    <2>4. KidsFit(Moved(frame, token, "open"), "running")
      BY <1>7, <2>3
    <2>5. Begun(<<routine, "open">>, node) = Begun(frame.at, frame.node) \o Taking(rule, token)
      BY <1>8, <2>1, <2>2, JoinOnes
    <2>6. <<routine, "open">> = <<frame.at[1], "open">> /\ <<routine, "open">> \in Standing("running")
      BY <2>1, PlacesAre DEF Standing
    <2>7. GoesOn(frame, token, Taking(rule, token), "running", "open", level)
      BY ONLY <1>0, <2>3, <2>4, <2>5, <2>6, EarlyGoesOn, Zenon DEF node
    <2> QED
      BY <1>13, <2>7 DEF Obeys, RoleAfter, Does, Return
  <1>14. CASE Does(rule, <<routine, "open">>, TRUE, <<>>, "body") /\ token.type = "LBrack"
    <2>1. frame.at = <<routine, "open">> /\ node = frame.node
      BY <1>4, <1>14 DEF Does
    <2>2. Taking(rule, token) = <<bracket>>
      BY <1>14 DEF Taking, Adds, Said, Does, bracket
    <2>3. frame.node.kids = <<>> /\ frame.at[2] \notin {"end", "semicolon"} /\ "body" # "end"
      BY <1>11, <2>1
    <2>4. KidsFit(Moved(frame, token, "body"), "running")
      BY <1>7, <2>3
    <2>5. Begun(<<routine, "body">>, node) = Begun(frame.at, frame.node) \o Taking(rule, token)
      BY <1>8, <2>1, <2>2, JoinTwo
    <2>6. <<routine, "body">> = <<frame.at[1], "body">> /\ <<routine, "body">> \in Standing("running")
      BY <2>1, PlacesAre DEF Standing
    <2>7. GoesOn(frame, token, Taking(rule, token), "running", "body", level)
      BY ONLY <1>0, <2>3, <2>4, <2>5, <2>6, EarlyGoesOn, Zenon DEF node
    <2> QED
      BY <1>14, <2>7 DEF Obeys, RoleAfter, Does, Return
  <1>15. CASE Does(rule, <<routine, "body">>, TRUE, <<>>, Return) /\ token.type = "RBrack"
    <2>1. frame.at = <<routine, "body">> /\ node = frame.node
      BY <1>4, <1>15 DEF Does
    <2>2. Taking(rule, token) = <<Mark("RBrack")>>
      BY <1>15 DEF Taking, Adds, Said, Does
    <2>3. Opening(node) = Begun(frame.at, frame.node) /\ Closing(node) = Taking(rule, token)
      BY <1>8, <1>9, <2>1, <2>2
    <2>4. frame.at \notin {<<"type", "first">>, <<"method", "end">>} /\ frame.at[2] # "semicolon"
      BY <1>2, <2>1
    <2>5. GivesBack(frame, token, Taking(rule, token), level)
      BY ONLY <1>0, <2>3, <2>4, LateGivesBack DEF node
    <2> QED
      BY <1>15, <2>5 DEF Obeys, Does
  <1> QED
    BY <1>16, <1>12, <1>13, <1>14, <1>15

(* A body goes on to another declaration, and to the semicolon after it.   *)
LEMMA BodyObeys ==
    ASSUME NEW level \in Nat, NEW frame, FrameFits(frame, "running", level), NEW token \in Tokens,
           NEW rule, rule.at = frame.at, NEW from, NEW then,
           from \in {"body", "semicolon"}, then \in {"body", "semicolon"},
           NEW routine \in {"struct", "interface", "namespace"}, frame.at = <<routine, from>>,
           NEW role, role = RoleAfter(rule), <<routine, then>> \in Standing(role),
           rule.then = then,
           Taking(rule, token) = IF frame.at[2] = "semicolon" THEN <<Mark("Semicolon")>> ELSE <<>>
    PROVE  Obeys(frame, token, rule, level)
  <1>0. level \in Nat /\ FrameFits(frame, "running", level) /\ token \in Tokens
    OBVIOUS
  <1>1. /\ from \in {"body", "semicolon"} /\ then \in {"body", "semicolon"}
        /\ frame.at[1] = routine /\ frame.at[2] = from
    OBVIOUS
  <1>2. /\ <<routine, then>> = <<frame.at[1], then>> /\ <<routine, then>> \in Standing(role)
        /\ frame.at[2] \notin {"name", "end"} /\ then # "end"
    BY <1>1
  <1>3. KidsFit(Moved(frame, token, then), role)
    <2>1. Moved(frame, token, then).at = <<routine, then>>
      BY <1>1 DEF Moved
    <2>2. <<routine, then>> \notin EarlyPlaces /\ routine # "type" /\ routine # "method"
      BY <1>1 DEF EarlyPlaces
    <2> QED
      BY <2>1, <2>2 DEF KidsFit
  <1>4. Begun(<<routine, then>>, frame.node) = Begun(frame.at, frame.node)
    <2>1. \A p \in {"body", "semicolon"} :
            Begun(<<routine, p>>, frame.node) =
              <<Keyword(frame.node.kind), Name(frame.node.value), Mark("LBrack")>>
      <3>1. Begun(<<routine, "body">>, frame.node) =
              <<Keyword(frame.node.kind), Name(frame.node.value), Mark("LBrack")>>
        BY BegunAt
      <3>2. Begun(<<routine, "semicolon">>, frame.node) =
              <<Keyword(frame.node.kind), Name(frame.node.value), Mark("LBrack")>>
        BY BegunAt
      <3> QED
        BY <3>1, <3>2
    <2> QED
      BY <1>1, <2>1
  <1>5. Taking(rule, token) = IF frame.at[2] = "semicolon" THEN <<Mark("Semicolon")>> ELSE <<>>
    OBVIOUS
  <1>6. GoesOn(frame, token, Taking(rule, token), role, then, level)
    BY ONLY <1>0, <1>2, <1>3, <1>4, <1>5, LateGoesOn
  <1>7. rule.then # Return
    BY <1>1 DEF Return
  <1> QED
    BY <1>6, <1>7 DEF Obeys

(* and so do all.                                                          *)
LEMMA RuleObeys ==
    ASSUME NEW level \in Nat, NEW frame, FrameFits(frame, "running", level), NEW token \in Tokens,
           NEW rule \in Rules, rule.at = frame.at, token.type \in rule.on
    PROVE  Obeys(frame, token, rule, level)
  <1>0. level \in Nat /\ FrameFits(frame, "running", level) /\ token \in Tokens
    OBVIOUS
  <1>1. CASE rule \in VariableRules
    BY <1>1, VariableObeys
  <1>2. CASE rule \in TypeRules
    BY <1>2, TypeObeys
  <1>3. CASE rule \in PackRules
    BY <1>3, PackObeys
  <1>4. CASE rule \in MethodRules
    BY <1>4, MethodObeys
  <1>5. CASE rule \in HeadRules("struct", "Struct") \cup HeadRules("interface", "Interface")
                      \cup HeadRules("namespace", "Namespace")
    <2>1. /\ {"Struct", "Interface", "Namespace"} \subseteq TokenType \ {"Comma", "Symbol"}
          /\ Keyword("struct") = Mark("Struct") /\ Keyword("interface") = Mark("Interface")
          /\ Keyword("namespace") = Mark("Namespace")
      BY DEF TokenType, Keyword
    <2> QED
      BY <1>5, <2>1, HeadObeys
  <1>6. CASE rule \in StructRules \cup InterfaceRules \cup NamespaceRules
    <2> DEFINE body(routine, calls, then) == Does(rule, <<routine, "body">>, FALSE, calls, then)
    <2>1. ASSUME NEW routine \in {"struct", "interface", "namespace"}, NEW calls, calls # <<>>,
                 NEW then, then = IF routine = "namespace" THEN "body" ELSE "semicolon",
                 body(routine, calls, then)
          PROVE  Obeys(frame, token, rule, level)
      <3>1. rule.at = frame.at /\ frame.at = <<routine, "body">> /\ rule.then = then
        BY <2>1 DEF Does
      <3>2. "waiting" = RoleAfter(rule)
        BY <2>1 DEF Does, RoleAfter
      <3>3. <<routine, then>> \in Standing("waiting")
        BY <2>1, PlacesAre DEF Standing
      <3>4. Taking(rule, token) = IF frame.at[2] = "semicolon" THEN <<Mark("Semicolon")>> ELSE <<>>
        BY <2>1, <3>1 DEF Taking, Does
      <3>5. /\ "body" \in {"body", "semicolon"} /\ then \in {"body", "semicolon"}
            /\ routine \in {"struct", "interface", "namespace"}
        BY <2>1
      <3> QED
        BY ONLY <1>0, <3>1, <3>2, <3>3, <3>4, <3>5, BodyObeys
    <2>2. ASSUME NEW routine \in {"struct", "interface"},
                 Does(rule, <<routine, "semicolon">>, TRUE, <<>>, "body"), token.type = "Semicolon"
          PROVE  Obeys(frame, token, rule, level)
      <3>1. rule.at = frame.at /\ frame.at = <<routine, "semicolon">> /\ rule.then = "body"
        BY <2>2 DEF Does
      <3>2. "running" = RoleAfter(rule)
        BY <2>2 DEF Does, RoleAfter
      <3>3. <<routine, "body">> \in Standing("running")
        BY PlacesAre DEF Standing
      <3>4. Taking(rule, token) = IF frame.at[2] = "semicolon" THEN <<Mark("Semicolon")>> ELSE <<>>
        BY <2>2, <3>1 DEF Taking, Does, Adds, Said
      <3>5. /\ "body" \in {"body", "semicolon"} /\ "semicolon" \in {"body", "semicolon"}
            /\ routine \in {"struct", "interface", "namespace"}
        OBVIOUS
      <3> QED
        BY ONLY <1>0, <3>1, <3>2, <3>3, <3>4, <3>5, BodyObeys
    <2> HIDE DEF body
    <2>3. \/ rule \in HeadRules("struct", "Struct") \cup HeadRules("interface", "Interface")
                        \cup HeadRules("namespace", "Namespace")
          \/ body("struct", CallVariable, "semicolon")
          \/ Does(rule, <<"struct", "semicolon">>, TRUE, <<>>, "body") /\ token.type = "Semicolon"
          \/ body("interface", CallMethod, "semicolon")
          \/ Does(rule, <<"interface", "semicolon">>, TRUE, <<>>, "body") /\ token.type = "Semicolon"
          \/ \E kind \in {"struct", "interface", "namespace"} :
               body("namespace", CallBlock(kind), "body")
      BY <1>6, BodyRulesAre DEF body
    <2> QED
      BY <1>5, <2>1, <2>2, <2>3, CallsAre
  <1> QED
    BY <1>1, <1>2, <1>3, <1>4, <1>6 DEF Rules

(* The rules have the shape that the brackets and the calls need.          *)
LEMMA RuleShaped ==
    ASSUME NEW rule \in Rules, NEW type \in rule.on
    PROVE  Shaped(rule, type)
  <1> DEFINE known == {<<>>, CallType, CallVariable, CallMethod}
                        \cup {CallPack(kind) : kind \in {"arguments", "returns"}}
                        \cup {CallBlock(kind) : kind \in {"struct", "interface", "namespace"}}
  <1>0. /\ <<>> \in known /\ CallType \in known /\ CallVariable \in known /\ CallMethod \in known
        /\ \A kind \in {"arguments", "returns"} : CallPack(kind) \in known
        /\ \A kind \in {"struct", "interface", "namespace"} : CallBlock(kind) \in known
    OBVIOUS
  <1>1. ASSUME rule.take, rule.at \in Places, rule.at # <<"method", "end">>,
               rule.calls = <<>> \/ \E kind \in {"arguments", "returns"} : rule.calls = CallPack(kind),
               rule.then # "semicolon", rule.then \in {"first", Return} => rule.calls = <<>>,
               type = "LGeneric" <=> rule.then = "first",
               rule.at = <<"type", "first">> => rule.then = Return /\ type = "RGeneric",
               rule.at[2] = "name" => type # "RGeneric"
        PROVE  Shaped(rule, type)
    <2>1. rule.calls \in known
      BY <1>0, <1>1
    <2>2. Len(<<>>) <= 1 /\ \A kind : Len(CallPack(kind)) <= 1
      <3>1. Len(<<>>) = 0 /\ 0 <= 1 /\ 1 <= 1
        OBVIOUS
      <3> QED
        BY <3>1, CallsAre
    <2>3. Len(rule.calls) <= 1
      BY <1>1, <2>2
    <2> QED
      BY ONLY <1>1, <2>1, <2>3 DEF Shaped, known
  <1>2. ASSUME ~rule.take, rule.at \in Places, rule.at # <<"method", "end">>,
               rule.at[2] \notin {"name", "open", "keyword"},
               \/ rule.calls \in {<<>>, CallType, CallVariable, CallMethod}
               \/ \E kind \in {"struct", "interface", "namespace"} : rule.calls = CallBlock(kind),
               rule.then = "semicolon" => rule.calls # <<>>,
               rule.then # "first", rule.then = Return => rule.calls = <<>>,
               rule.at = <<"type", "first">> => rule.calls = CallType
        PROVE  Shaped(rule, type)
    <2>1. rule.calls \in known
      BY <1>0, <1>2
    <2>2. /\ Len(<<>>) <= 2 /\ Len(CallType) <= 2 /\ Len(CallVariable) <= 2 /\ Len(CallMethod) <= 2
          /\ \A kind : Len(CallBlock(kind)) <= 2
      <3>1. Len(<<>>) = 0 /\ 0 <= 2 /\ 1 <= 2 /\ 2 <= 2
        OBVIOUS
      <3> QED
        BY <3>1, CallsAre
    <2>3. Len(rule.calls) <= 2
      BY <1>2, <2>2
    <2> QED
      BY ONLY <1>2, <2>1, <2>3 DEF Shaped, known
  <1> HIDE DEF known
  <1>3. CASE rule \in VariableRules
    <2>1. /\ <<"variable", "name">> \in Places
          /\ Return \notin {"semicolon", "first"}
      BY PlacesAre DEF Return
    <2>2. CASE Does(rule, <<"variable", "name">>, TRUE, <<>>, Return) /\ type = "Symbol"
      BY ONLY <1>1, <2>1, <2>2 DEF Does, Return
    <2> QED
      BY <1>3, <2>2, VariableRulesAre
  <1>4. CASE rule \in TypeRules
    <2>1. /\ \A p \in {"name", "generics", "first", "after", "more"} : <<"type", p>> \in Places
          /\ Return \notin {"semicolon", "first"}
      BY PlacesAre DEF Return
    <2>2. CASE Does(rule, <<"type", "name">>, TRUE, <<>>, "generics") /\ type = "Symbol"
      BY ONLY <1>1, <2>1, <2>2 DEF Does, Return
    <2>3. CASE Does(rule, <<"type", "generics">>, TRUE, <<>>, "first") /\ type = "LGeneric"
      BY ONLY <1>1, <2>1, <2>3 DEF Does, Return
    <2>4. CASE Does(rule, <<"type", "generics">>, FALSE, <<>>, Return)
      BY ONLY <1>2, <2>1, <2>4 DEF Does, Return
    <2>5. CASE Does(rule, <<"type", "first">>, TRUE, <<>>, Return) /\ type = "RGeneric"
      BY ONLY <1>1, <2>1, <2>5 DEF Does, Return
    <2>6. CASE Does(rule, <<"type", "first">>, FALSE, CallType, "after")
      BY ONLY <1>2, <2>1, <2>6 DEF Does, Return
    <2>7. CASE Does(rule, <<"type", "after">>, TRUE, <<>>, "more") /\ type = "Comma"
      BY ONLY <1>1, <2>1, <2>7 DEF Does, Return
    <2>8. CASE Does(rule, <<"type", "after">>, TRUE, <<>>, Return) /\ type = "RGeneric"
      BY ONLY <1>1, <2>1, <2>8 DEF Does, Return
    <2>9. CASE Does(rule, <<"type", "more">>, FALSE, CallType, "after")
      BY ONLY <1>2, <2>1, <2>9 DEF Does, Return
    <2> QED
      BY <1>4, <2>2, <2>3, <2>4, <2>5, <2>6, <2>7, <2>8, <2>9, TypeRulesAre
  <1>5. CASE rule \in PackRules
    <2>1. /\ \A p \in {"open", "item", "after"} : <<"pack", p>> \in Places
          /\ Return \notin {"semicolon", "first"}
      BY PlacesAre DEF Return
    <2>2. CASE Does(rule, <<"pack", "open">>, TRUE, <<>>, "item") /\ type = "LParen"
      BY ONLY <1>1, <2>1, <2>2 DEF Does, Return
    <2>3. CASE Does(rule, <<"pack", "item">>, TRUE, <<>>, Return) /\ type = "RParen"
      BY ONLY <1>1, <2>1, <2>3 DEF Does, Return
    <2>4. CASE Does(rule, <<"pack", "item">>, FALSE, CallVariable, "after")
      BY ONLY <1>2, <2>1, <2>4 DEF Does, Return
    <2>5. CASE Does(rule, <<"pack", "after">>, TRUE, <<>>, "item") /\ type = "Comma"
      BY ONLY <1>1, <2>1, <2>5 DEF Does, Return
    <2>6. CASE Does(rule, <<"pack", "after">>, TRUE, <<>>, Return) /\ type = "RParen"
      BY ONLY <1>1, <2>1, <2>6 DEF Does, Return
    <2>7. CASE Does(rule, <<"pack", "after">>, FALSE, <<>>, "item")
      BY ONLY <1>2, <2>1, <2>7 DEF Does, Return
    <2> QED
      BY <1>5, <2>2, <2>3, <2>4, <2>5, <2>6, <2>7, PackRulesAre
  <1>6. CASE rule \in MethodRules
    <2>1. /\ \A p \in {"name", "arrow"} : <<"method", p>> \in Places
          /\ Return \notin {"semicolon", "first"}
      BY PlacesAre DEF Return
    <2>2. CASE Does(rule, <<"method", "name">>, TRUE, CallPack("arguments"), "arrow") /\ type = "Symbol"
      BY ONLY <1>1, <2>1, <2>2 DEF Does, Return
    <2>3. CASE Does(rule, <<"method", "arrow">>, TRUE, CallPack("returns"), "end") /\ type = "Arrow"
      BY ONLY <1>1, <2>1, <2>3 DEF Does, Return
    <2>4. CASE Does(rule, <<"method", "arrow">>, FALSE, <<>>, Return)
      BY ONLY <1>2, <2>1, <2>4 DEF Does, Return
    <2> QED
      BY <1>6, <2>2, <2>3, <2>4, MethodRulesAre
  <1>7. ASSUME NEW routine \in {"struct", "interface", "namespace"},
               NEW keyword \in {"Struct", "Interface", "Namespace"},
               rule \in HeadRules(routine, keyword)
        PROVE  Shaped(rule, type)
    <2>1. /\ \A p \in {"keyword", "name", "open", "body"} : <<routine, p>> \in Places
          /\ Return \notin {"semicolon", "first"} /\ routine \notin {"type", "method"}
      BY PlacesAre DEF Return
    <2>2. \/ Does(rule, <<routine, "keyword">>, TRUE, <<>>, "name") /\ type = keyword
          \/ Does(rule, <<routine, "name">>, TRUE, <<>>, "open") /\ type = "Symbol"
          \/ Does(rule, <<routine, "open">>, TRUE, <<>>, "body") /\ type = "LBrack"
          \/ Does(rule, <<routine, "body">>, TRUE, <<>>, Return) /\ type = "RBrack"
      <3>1. rule \in HeadRules(routine, keyword) /\ type \in rule.on
        BY <1>7
      <3> QED
        BY ONLY <3>1, HeadRulesAre, Zenon
    <2>3. type \notin {"LGeneric", "RGeneric"} /\ rule.take /\ rule.calls = <<>> /\ rule.then # "first"
      BY ONLY <2>1, <2>2, <1>7 DEF Does
    <2>4. rule.then # "semicolon" /\ rule.at # <<"type", "first">> /\ rule.at # <<"method", "end">>
      BY ONLY <2>1, <2>2, <1>7 DEF Does
    <2>5. rule.at \in Places
      BY ONLY <2>1, <2>2 DEF Does
    <2> QED
      BY ONLY <1>1, <2>3, <2>4, <2>5
  <1>8. CASE rule \in StructRules \cup InterfaceRules \cup NamespaceRules
    <2>1. /\ \A r \in {"struct", "interface", "namespace"} : <<r, "body">> \in Places
          /\ \A r \in {"struct", "interface"} : <<r, "semicolon">> \in Places
          /\ CallVariable # <<>> /\ CallMethod # <<>> /\ \A kind : CallBlock(kind) # <<>>
          /\ Return \notin {"semicolon", "body"}
      BY PlacesAre, CallsAre DEF Return
    <2>2. CASE Does(rule, <<"struct", "body">>, FALSE, CallVariable, "semicolon")
      BY ONLY <1>2, <2>1, <2>2 DEF Does, Return
    <2>3. CASE Does(rule, <<"struct", "semicolon">>, TRUE, <<>>, "body") /\ type = "Semicolon"
      BY ONLY <1>1, <2>1, <2>3 DEF Does, Return
    <2>4. CASE Does(rule, <<"interface", "body">>, FALSE, CallMethod, "semicolon")
      BY ONLY <1>2, <2>1, <2>4 DEF Does, Return
    <2>5. CASE Does(rule, <<"interface", "semicolon">>, TRUE, <<>>, "body") /\ type = "Semicolon"
      BY ONLY <1>1, <2>1, <2>5 DEF Does, Return
    <2>6. CASE \E kind \in {"struct", "interface", "namespace"} : Does(rule, <<"namespace", "body">>, FALSE, CallBlock(kind), "body")
      BY ONLY <1>2, <2>1, <2>6 DEF Does, Return
    <2> QED
      BY <1>8, <2>2, <2>3, <2>4, <2>5, <2>6, <1>7, BodyRulesAre
  <1> QED
    BY <1>3, <1>4, <1>5, <1>6, <1>8 DEF Rules

-----------------------------------------------------------------------------
(* The calls that have not returned.                                       *)

Frame == [at : Places, node : NodesOver(Trees)]

Role(i, calls, role) == IF i = Len(calls) THEN role ELSE "waiting"

(* The calls are in order, and the innermost one is waiting or running.    *)
CallsFit(calls, role, height) ==
    /\ calls \in Seq(Frame)
    /\ Len(calls) <= height
    /\ \A i \in 1..Len(calls) : FrameFits(calls[i], Role(i, calls, role), height - i)

AllTaken(calls) == FlattenSeq([i \in DOMAIN calls |-> Taken(calls[i])])

Pop(calls) == SubSeq(calls, 1, Len(calls) - 1)

(* A call that fits is a frame.                                            *)
LEMMA FrameTyped ==
    ASSUME NEW level \in Nat, NEW frame, NEW role, FrameFits(frame, role, level)
    PROVE  frame \in Frame
  <1>1. frame = [at |-> frame.at, node |-> frame.node] /\ frame.node \in NodesOver(Trees)
    BY TreesOver DEF FrameFits
  <1>2. frame.at \in Places
    BY PlacesAre DEF FrameFits, Standing
  <1> QED
    BY <1>1, <1>2 DEF Frame

(* A call still fits when there is room for higher trees.                  *)
LEMMA FitsHigher ==
    ASSUME NEW level \in Nat, NEW higher \in Nat, level <= higher,
           NEW frame, NEW role, FrameFits(frame, role, level)
    PROVE  FrameFits(frame, role, higher)
  <1>1. PICK k \in Nat : higher = level + k
    <2>1. higher - level \in Nat /\ higher = level + (higher - level)
      OBVIOUS
    <2> QED
      BY <2>1
  <1>2. Tree(level) \subseteq Tree(higher)
    BY <1>1, YieldStays
  <1>3. Seq(Tree(level)) \subseteq Seq(Tree(higher))
    BY <1>2
  <1>4. NodesOver(Tree(level)) \subseteq NodesOver(Tree(higher))
    BY ONLY <1>3 DEF NodesOver
  <1> QED
    BY <1>4 DEF FrameFits

(* What calls have taken is words.                                         *)
LEMMA TakenTyped ==
    ASSUME NEW role, NEW height \in Nat, NEW calls, CallsFit(calls, role, height)
    PROVE  /\ [i \in DOMAIN calls |-> Taken(calls[i])] \in Seq(Seq(Word))
           /\ AllTaken(calls) \in Seq(Word)
  <1> DEFINE taken == [i \in DOMAIN calls |-> Taken(calls[i])]
  <1>1. calls \in Seq(Frame) /\ DOMAIN calls = 1..Len(calls) /\ Len(calls) \in Nat /\ Len(calls) <= height
    BY DEF CallsFit
  <1>2. \A i \in 1..Len(calls) : Taken(calls[i]) \in Seq(Word)
    <2> SUFFICES ASSUME NEW i \in 1..Len(calls)
                 PROVE  Taken(calls[i]) \in Seq(Word)
      OBVIOUS
    <2>1. height - i \in Nat
      BY <1>1
    <2>2. FrameFits(calls[i], Role(i, calls, role), height - i)
      BY DEF CallsFit
    <2> QED
      BY <2>1, <2>2, TakenIs
  <1>3. taken \in Seq(Seq(Word))
    BY <1>1, <1>2
  <1> HIDE DEF taken
  <1>4. <<>> \in Seq(Word)
    OBVIOUS
  <1>5. FlattenSeq(taken) \in Seq(Word)
    BY <1>3, <1>4, FlattenAdds
  <1> QED
    BY <1>3, <1>5 DEF AllTaken, taken

(* One call more.                                                          *)
LEMMA CallAdds ==
    ASSUME NEW height \in Nat, NEW calls, CallsFit(calls, "waiting", height), Len(calls) + 1 <= height,
           NEW frame, NEW role, FrameFits(frame, role, height - (Len(calls) + 1))
    PROVE  LET more == Append(calls, frame) IN
           /\ CallsFit(more, role, height)
           /\ Len(more) = Len(calls) + 1 /\ more[Len(more)] = frame
           /\ AllTaken(more) = AllTaken(calls) \o Taken(frame)
  <1> DEFINE more == Append(calls, frame)
             n == Len(calls) + 1
             taken == [i \in DOMAIN calls |-> Taken(calls[i])]
             grown == [i \in DOMAIN more |-> Taken(more[i])]
  <1>1. calls \in Seq(Frame) /\ Len(calls) \in Nat /\ height - n \in Nat /\ DOMAIN calls = 1..Len(calls)
    BY DEF CallsFit
  <1>2. frame \in Frame /\ Taken(frame) \in Seq(Word)
    BY <1>1, FrameTyped, TakenIs
  <1>3. /\ more \in Seq(Frame) /\ Len(more) = n /\ more[n] = frame /\ DOMAIN more = 1..n
        /\ \A i \in 1..Len(calls) : more[i] = calls[i]
    BY <1>1, <1>2
  <1> HIDE DEF more
  <1>4. \A i \in 1..n : i = n \/ (i \in 1..Len(calls) /\ i # n)
    BY <1>1
  <1>5. ASSUME NEW i \in 1..n
        PROVE  FrameFits(more[i], Role(i, more, role), height - i)
    <2>1. CASE i = n
      BY <1>3, <2>1 DEF Role
    <2>2. CASE i \in 1..Len(calls) /\ i # n
      <3>1. FrameFits(calls[i], Role(i, calls, "waiting"), height - i)
        BY <2>2 DEF CallsFit
      <3>2. Role(i, calls, "waiting") = "waiting" /\ Role(i, more, role) = "waiting"
        BY <1>3, <2>2 DEF Role
      <3> QED
        BY <1>3, <2>2, <3>1, <3>2
    <2> QED
      BY <1>4, <2>1, <2>2
  <1>6. CallsFit(more, role, height)
    BY <1>3, <1>5 DEF CallsFit
  <1>7. taken \in Seq(Seq(Word)) /\ Len(taken) = Len(calls)
    <2>1. taken \in Seq(Seq(Word))
      BY TakenTyped
    <2> QED
      BY <1>1, <2>1
  <1>8. grown \in Seq(Seq(Word))
    BY <1>6, TakenTyped
  <1>9. grown = Append(taken, Taken(frame))
    <2>1. grown \in [1..Len(taken) + 1 -> Seq(Word)]
      BY <1>3, <1>7, <1>8
    <2>2. \A i \in 1..Len(taken) : grown[i] = taken[i]
      BY <1>1, <1>3, <1>4, <1>7
    <2>3. grown[Len(taken) + 1] = Taken(frame)
      BY <1>1, <1>3, <1>7
    <2> HIDE DEF grown, taken
    <2>4. grown = Append(taken, grown[Len(taken) + 1])
      BY <1>7, <2>1, <2>2, AppendIs
    <2> QED
      BY <2>3, <2>4
  <1> HIDE DEF grown, taken
  <1>10. FlattenSeq(Append(taken, Taken(frame))) = FlattenSeq(taken) \o Taken(frame)
    BY <1>2, <1>7, FlattenAdds
  <1>11. AllTaken(more) = AllTaken(calls) \o Taken(frame)
    BY <1>9, <1>10 DEF AllTaken, grown, taken
  <1> QED
    BY <1>3, <1>6, <1>11 DEF more

(* One call less.                                                          *)
LEMMA CallPops ==
    ASSUME NEW height \in Nat, NEW higher \in Nat, height <= higher,
           NEW role, NEW calls, CallsFit(calls, role, height), calls # <<>>
    PROVE  LET n == Len(calls) IN
           /\ n \in Nat /\ n # 0 /\ n <= height
           /\ FrameFits(calls[n], role, height - n)
           /\ Pop(calls) \in Seq(Frame) /\ Len(Pop(calls)) = n - 1
           /\ calls = Append(Pop(calls), calls[n])
           /\ CallsFit(Pop(calls), "waiting", height) /\ CallsFit(Pop(calls), "waiting", higher)
           /\ AllTaken(calls) = AllTaken(Pop(calls)) \o Taken(calls[n])
           /\ AllTaken(Pop(calls)) \in Seq(Word) /\ Taken(calls[n]) \in Seq(Word)
  <1> DEFINE n == Len(calls)
             below == Pop(calls)
  <1>1. calls \in Seq(Frame) /\ n \in Nat /\ n # 0 /\ n \in 1..n /\ n <= height
    BY DEF CallsFit
  <1>2. /\ below \in Seq(Frame) /\ Len(below) = n - 1 /\ n - 1 \in Nat
        /\ \A i \in 1..n - 1 : below[i] = calls[i]
    <2>1. PICK m \in Nat : n = m + 1
      <3>1. n - 1 \in Nat /\ n = (n - 1) + 1
        BY <1>1
      <3> QED
        BY <3>1
    <2>2. n - 1 = m /\ m <= n
      BY <2>1
    <2>3. below = SubSeq(calls, 1, m)
      BY <2>2 DEF Pop
    <2> HIDE DEF below
    <2>4. below \in Seq(Frame) /\ Len(below) = m /\ \A i \in 1..m : below[i] = calls[i]
      BY <1>1, <2>1, <2>3
    <2> QED
      BY <2>1, <2>2, <2>4
  <1>3. FrameFits(calls[n], role, height - n)
    BY <1>1 DEF CallsFit, Role
  <1>4. calls = Append(below, calls[n])
    BY <1>1 DEF Pop
  <1> HIDE DEF below, n
  <1>5. ASSUME NEW i \in 1..n - 1
        PROVE  /\ FrameFits(below[i], "waiting", height - i)
               /\ FrameFits(below[i], "waiting", higher - i)
    <2>1. i \in 1..n /\ i # n /\ height - i \in Nat /\ higher - i \in Nat /\ height - i <= higher - i
      BY <1>1
    <2>2. FrameFits(calls[i], "waiting", height - i)
      BY <2>1 DEF CallsFit, Role, n
    <2> QED
      BY <1>2, <2>1, <2>2, FitsHigher
  <1>6. n - 1 <= height /\ n - 1 <= higher
    BY <1>1
  <1>7. CallsFit(below, "waiting", height) /\ CallsFit(below, "waiting", higher)
    BY <1>2, <1>5, <1>6 DEF CallsFit, Role
  <1>8. /\ AllTaken(Append(below, calls[n])) = AllTaken(below) \o Taken(calls[n])
        /\ AllTaken(below) \in Seq(Word) /\ Taken(calls[n]) \in Seq(Word)
    <2>1. Len(below) + 1 = n /\ Len(below) + 1 <= height /\ height - n \in Nat
      BY <1>1, <1>2
    <2>2. FrameFits(calls[n], role, height - (Len(below) + 1))
      BY <1>3, <2>1
    <2>3. AllTaken(Append(below, calls[n])) = AllTaken(below) \o Taken(calls[n])
      <3>1. CallsFit(below, "waiting", height)
        BY <1>7
      <3>2. Len(below) + 1 <= height
        BY <2>1
      <3> QED
        BY ONLY <2>2, <3>1, <3>2, CallAdds, height \in Nat
    <2>4. AllTaken(below) \in Seq(Word)
      BY ONLY <1>7, TakenTyped, height \in Nat
    <2>5. Taken(calls[n]) \in Seq(Word)
      BY <1>3, <2>1, TakenIs
    <2> QED
      BY <2>3, <2>4, <2>5
  <1> QED
    BY <1>1, <1>2, <1>3, <1>4, <1>7, <1>8 DEF n, below

(* A call that has just been made has taken nothing.                       *)
LEMMA CallStarts ==
    ASSUME NEW level \in Nat, NEW role, NEW routine, NEW place, NEW kind \in Kind,
           <<routine, place>> \in Standing(role),
           <<routine, place>> \in EarlyPlaces \cup {<<"variable", "name">>},
           place \in {"name", "open", "keyword"}, routine = "method" => place = "name",
           IF routine = "pack" THEN kind \in {"arguments", "returns"} ELSE kind = routine,
           Begun(<<routine, place>>, Node(kind, <<>>, <<>>)) = <<>>
    PROVE  LET frame == Call(routine, place, kind) IN
           FrameFits(frame, role, level) /\ Taken(frame) = <<>>
  <1> DEFINE frame == Call(routine, place, kind)
  <1>1. /\ frame.at = <<routine, place>> /\ frame.node = Node(kind, <<>>, <<>>)
        /\ frame = [at |-> frame.at, node |-> frame.node]
        /\ frame.node.kind = kind /\ frame.node.kids = <<>>
    BY DEF Call, Node
  <1>2. frame.node \in NodesOver(Tree(level))
    <2>1. <<>> \in Seq(STRING) /\ <<>> \in Seq(Tree(level))
      OBVIOUS
    <2> QED
      BY <2>1 DEF NodesOver, Call, Node, Kind
  <1> HIDE DEF frame
  <1>3. frame.at # <<"method", "end">> /\ frame.at # <<"method", "arrow">> /\ frame.at[1] = routine
    BY <1>1
  <1>4. routine = "type" => <<routine, place>> \in EarlyPlaces
    OBVIOUS
  <1>5. KidsFit(frame, role)
    BY <1>1, <1>3, <1>4 DEF KidsFit
  <1>6. FrameFits(frame, role, level)
    BY <1>1, <1>2, <1>3, <1>5 DEF FrameFits
  <1>7. Taken(frame) = Begun(frame.at, frame.node)
    BY ONLY <1>1, <1>3, <1>6, level \in Nat, TakenIs
  <1> QED
    BY <1>1, <1>6, <1>7 DEF frame

(* A new call takes nothing from what the calls below it have taken.       *)
LEMMA OneCallAdds ==
    ASSUME NEW height \in Nat, NEW below, CallsFit(below, "waiting", height), Len(below) + 1 <= height,
           NEW role, NEW routine, NEW place, NEW kind \in Kind,
           <<routine, place>> \in Standing(role),
           <<routine, place>> \in EarlyPlaces \cup {<<"variable", "name">>},
           place \in {"name", "open", "keyword"}, routine = "method" => place = "name",
           IF routine = "pack" THEN kind \in {"arguments", "returns"} ELSE kind = routine,
           Begun(<<routine, place>>, Node(kind, <<>>, <<>>)) = <<>>
    PROVE  LET more == Append(below, Call(routine, place, kind)) IN
           /\ CallsFit(more, role, height)
           /\ Len(more) = Len(below) + 1
           /\ AllTaken(more) = AllTaken(below)
           /\ more[Len(more)].at = <<routine, place>>
  <1> DEFINE frame == Call(routine, place, kind)
             more == Append(below, frame)
             level == height - (Len(below) + 1)
  <1>1. level \in Nat
    BY DEF CallsFit
  <1> HIDE DEF level
  <1>2. FrameFits(frame, role, level) /\ Taken(frame) = <<>>
    BY <1>1, CallStarts
  <1> HIDE DEF frame
  <1> HIDE DEF more
  <1>3. /\ CallsFit(more, role, height)
        /\ Len(more) = Len(below) + 1 /\ more[Len(more)] = frame
        /\ AllTaken(more) = AllTaken(below) \o Taken(frame)
    <2>1. /\ CallsFit(below, "waiting", height) /\ Len(below) + 1 <= height
          /\ FrameFits(frame, role, height - (Len(below) + 1))
      BY <1>2 DEF level
    <2>2. /\ CallsFit(Append(below, frame), role, height)
          /\ Len(Append(below, frame)) = Len(below) + 1
          /\ Append(below, frame)[Len(Append(below, frame))] = frame
      BY ONLY <2>1, CallAdds, height \in Nat
    <2>3. AllTaken(Append(below, frame)) = AllTaken(below) \o Taken(frame)
      <3>1. Len(below) + 1 \in Nat
        BY DEF CallsFit
      <3>2. PICK n \in Nat : n = Len(below) + 1
        BY <3>1
      <3>3. n <= height /\ FrameFits(frame, role, height - n)
        BY <2>1, <3>2
      <3> QED
        BY ONLY <2>1, <2>2, <3>2, <3>3, CallAdds, height \in Nat
    <2> QED
      BY <2>2, <2>3 DEF more
  <1>4. AllTaken(below) \o <<>> = AllTaken(below)
    BY TakenTyped, Joins
  <1>5. frame.at = <<routine, place>>
    BY DEF frame, Call
  <1> QED
    BY <1>2, <1>3, <1>4, <1>5 DEF more, frame

(* New calls have begun with nothing.                                      *)
LEMMA BegunCalls ==
    ASSUME NEW node
    PROVE  /\ Begun(<<"type", "name">>, node) = <<>> /\ Begun(<<"variable", "name">>, node) = <<>>
           /\ Begun(<<"pack", "open">>, node) = <<>> /\ Begun(<<"method", "name">>, node) = <<>>
           /\ \A r \in {"struct", "interface", "namespace"} : Begun(<<r, "keyword">>, node) = <<>>
  BY BegunAt

(* What calls do to the calls that have not returned.                      *)
LEMMA CallsAdd ==
    ASSUME NEW height \in Nat, NEW below, NEW calls,
           CallsFit(below, "waiting", height),
           calls # <<>>, Len(below) + Len(calls) <= height,
           calls \in {CallType, CallVariable, CallMethod}
             \cup {CallPack(kind) : kind \in {"arguments", "returns"}}
             \cup {CallBlock(kind) : kind \in {"struct", "interface", "namespace"}}
    PROVE  LET more == below \o calls IN
           /\ CallsFit(more, "running", height)
           /\ Len(more) = Len(below) + Len(calls)
           /\ AllTaken(more) = AllTaken(below)
           /\ more[Len(more)].at[2] \in {"name", "open", "keyword"}
           /\ more[Len(more)].at # <<"type", "first">>
           /\ calls = CallType => more[Len(more)].at = <<"type", "name">>
  <1> DEFINE more == below \o calls
             Good == /\ CallsFit(more, "running", height)
                     /\ Len(more) = Len(below) + Len(calls)
                     /\ AllTaken(more) = AllTaken(below)
                     /\ more[Len(more)].at[2] \in {"name", "open", "keyword"}
                     /\ more[Len(more)].at # <<"type", "first">>
                     /\ calls = CallType => more[Len(more)].at = <<"type", "name">>
  <1>1. below \in Seq(Frame) /\ Len(below) \in Nat
    BY DEF CallsFit
  <1>2. ASSUME NEW routine, NEW place, NEW kind, calls = <<Call(routine, place, kind)>>
        PROVE  more = Append(below, Call(routine, place, kind)) /\ Len(calls) = 1
    BY <1>1, <1>2
  <1>3. ASSUME NEW routine, NEW place, NEW kind \in Kind, calls = <<Call(routine, place, kind)>>,
               <<routine, place>> \in EarlyPlaces,
               place \in {"name", "open", "keyword"}, routine = "method" => place = "name",
               IF routine = "pack" THEN kind \in {"arguments", "returns"} ELSE kind = routine,
               Begun(<<routine, place>>, Node(kind, <<>>, <<>>)) = <<>>,
               calls = CallType => routine = "type"
        PROVE  Good
    <2>1. <<routine, place>> \in Standing("running")
      BY <1>3, PlacesAre DEF Standing
    <2>2. more = Append(below, Call(routine, place, kind)) /\ Len(calls) = 1
      BY <1>2, <1>3
    <2>3. Len(below) + 1 <= height
      BY <2>2
    <2>4. <<routine, place>> \in EarlyPlaces \cup {<<"variable", "name">>}
      BY <1>3
    <2> HIDE DEF more
    <2>5. /\ CallsFit(more, "running", height)
          /\ Len(more) = Len(below) + 1
          /\ AllTaken(more) = AllTaken(below)
          /\ more[Len(more)].at = <<routine, place>>
      BY <1>3, <2>1, <2>2, <2>3, <2>4, OneCallAdds
    <2>6. routine = "type" => place = "name"
      BY <1>3 DEF EarlyPlaces
    <2> QED
      BY <1>3, <2>2, <2>5, <2>6
  <1> HIDE DEF Good
  <1>4. ASSUME calls = CallType
        PROVE  Good
    <2>1. calls = <<Call("type", "name", "type")>> /\ "type" \in Kind
      BY <1>4 DEF CallType, Kind
    <2>2. <<"type", "name">> \in EarlyPlaces /\ Begun(<<"type", "name">>, Node("type", <<>>, <<>>)) = <<>>
      BY PlacesAre, BegunCalls
    <2> QED
      BY ONLY <1>3, <2>1, <2>2
  <1>5. ASSUME calls = CallMethod
        PROVE  Good
    <2>1. calls = CallType => FALSE
      BY <1>5 DEF CallType, CallMethod, Call
    <2> QED
      <3>1. calls = <<Call("method", "name", "method")>> /\ "method" \in Kind
        BY <1>5 DEF CallMethod, Kind
      <3>2. /\ <<"method", "name">> \in EarlyPlaces
            /\ Begun(<<"method", "name">>, Node("method", <<>>, <<>>)) = <<>>
        BY PlacesAre, BegunCalls
      <3> QED
        BY ONLY <1>3, <2>1, <3>1, <3>2
  <1>6. ASSUME NEW kind \in {"arguments", "returns"}, calls = CallPack(kind)
        PROVE  Good
    <2>1. calls = CallType => FALSE
      BY <1>6 DEF CallType, CallPack, Call
    <2> QED
      BY <1>3, <1>6, <2>1, PlacesAre, BegunCalls DEF CallPack, Kind
  <1>7. ASSUME NEW kind \in {"struct", "interface", "namespace"}, calls = CallBlock(kind)
        PROVE  Good
    <2>1. calls = CallType => FALSE
      BY <1>7 DEF CallType, CallBlock, Call
    <2> QED
      BY <1>3, <1>7, <2>1, PlacesAre, BegunCalls DEF CallBlock, Kind
  <1>8. ASSUME calls = CallVariable
        PROVE  Good
    <2> DEFINE one == Append(below, Call("variable", "name", "variable"))
               two == Append(one, Call("type", "name", "type"))
    <2>1. Len(calls) = 2 /\ calls # CallType
      BY <1>8, CallsAre
    <2>2. Len(below) + 1 <= height /\ Len(below) + 2 <= height
      BY <1>1, <2>1
    <2>3. more = two
      <3>1. calls = <<Call("variable", "name", "variable"), Call("type", "name", "type")>>
        BY <1>8, CallsAre
      <3> QED
        BY <1>1, <3>1
    <2>4. /\ CallsFit(one, "waiting", height)
          /\ Len(one) = Len(below) + 1
          /\ AllTaken(one) = AllTaken(below)
      <3>0. height \in Nat /\ CallsFit(below, "waiting", height)
        OBVIOUS
      <3>1. /\ <<"variable", "name">> \in Standing("waiting")
            /\ <<"variable", "name">> \in EarlyPlaces \cup {<<"variable", "name">>}
            /\ "variable" \in Kind /\ "name" \in {"name", "open", "keyword"}
            /\ Begun(<<"variable", "name">>, Node("variable", <<>>, <<>>)) = <<>>
        BY PlacesAre, BegunCalls DEF Standing, Kind
      <3> QED
        BY ONLY <2>2, <3>0, <3>1, OneCallAdds
    <2> HIDE DEF one
    <2>5. /\ CallsFit(two, "running", height)
          /\ Len(two) = Len(one) + 1
          /\ AllTaken(two) = AllTaken(one)
          /\ two[Len(two)].at = <<"type", "name">>
      <3>1. /\ <<"type", "name">> \in Standing("running")
            /\ <<"type", "name">> \in EarlyPlaces \cup {<<"variable", "name">>}
            /\ "type" \in Kind /\ "name" \in {"name", "open", "keyword"}
            /\ Begun(<<"type", "name">>, Node("type", <<>>, <<>>)) = <<>>
        BY PlacesAre, BegunCalls DEF Standing, Kind
      <3>2. Len(one) + 1 <= height
        BY <1>1, <2>2, <2>4
      <3> QED
        BY <2>4, <3>1, <3>2, OneCallAdds
    <2> HIDE DEF more, two
    <2>6. Len(two) = Len(below) + Len(calls)
      BY <1>1, <2>1, <2>4, <2>5
    <2> QED
      BY <2>1, <2>3, <2>4, <2>5, <2>6 DEF Good
  <1> QED
    BY <1>4, <1>5, <1>6, <1>7, <1>8 DEF Good

-----------------------------------------------------------------------------
(* What has been read is in its place.                                     *)

(* What stands after a kid in its tree is taken after the kid has returned. *)
Owed(at) == IF at[2] = "semicolon" THEN <<Mark("Semicolon")>> ELSE <<>>

(* A call that is at its first token has made no tree yet.                 *)
Slack(at) == IF at[2] \in {"name", "open", "keyword"} THEN 0 ELSE 2

InPlace(calls, tokens) ==
    LET top == calls[Len(calls)] IN
    /\ calls # <<>>
    /\ CallsFit(calls, "running", Height(tokens))
    /\ Len(calls) + Slack(top.at) <= Height(tokens)
    /\ Kept(tokens) \o Owed(top.at) = AllTaken(calls)
    /\ OpenBracket(tokens) => top.at \in {<<"type", "name">>, <<"type", "first">>}
    /\ top.at = <<"type", "first">> => OpenBracket(tokens)

ReadOn(rule, tokens, t) == IF rule.take THEN Append(tokens, t) ELSE tokens

(* What is owed is words.                                                  *)
LEMMA OwedTyped ==
    \A at : Owed(at) \in Seq(Word)
  <1>1. Mark("Semicolon") \in Word
    BY WordsAre DEF TokenType
  <1> QED
    BY <1>1 DEF Owed

(* Every token read makes room for two more levels.                        *)
LEMMA HeightIs ==
    ASSUME NEW tokens \in Seq(Tokens), NEW t \in Tokens
    PROVE  /\ Height(tokens) \in Nat
           /\ Append(tokens, t) \in Seq(Tokens)
           /\ Height(Append(tokens, t)) = Height(tokens) + 2
           /\ \A rule : LET on == ReadOn(rule, tokens, t) IN
                on \in Seq(Tokens) /\ Height(on) = Height(tokens) + (IF rule.take THEN 2 ELSE 0)
  <1>1. /\ Append(tokens, t) \in Seq(Tokens) /\ Len(Append(tokens, t)) = Len(tokens) + 1
        /\ Len(tokens) \in Nat
    OBVIOUS
  <1>2. Height(tokens) \in Nat /\ Height(Append(tokens, t)) = Height(tokens) + 2
    BY <1>1 DEF Height
  <1> QED
    BY <1>1, <1>2 DEF ReadOn

(* What a rule takes is what is left of the token.                         *)
LEMMA TakingIs ==
    ASSUME NEW tokens \in Seq(Tokens), NEW t \in Tokens, NEW calls, InPlace(calls, tokens),
           NEW rule \in Rules, rule.at = calls[Len(calls)].at, t.type \in rule.on
    PROVE  LET on == ReadOn(rule, tokens, t) IN
           /\ Taking(rule, t) \in Seq(Word)
           /\ IF rule.at = <<"type", "first">> /\ rule.take
              THEN Kept(tokens) = Kept(on) \o <<Mark("LGeneric")>>
              ELSE Kept(on) = Kept(tokens) \o Taking(rule, t)
           /\ OpenBracket(on) => rule.at = <<"type", "first">> \/ rule.take
           /\ rule.take => (OpenBracket(on) <=> rule.then = "first")
  <1> DEFINE more == Append(tokens, t)
  <1>1. Shaped(rule, t.type)
    BY RuleShaped
  <1>2. /\ OpenBracket(tokens) => rule.at \in {<<"type", "name">>, <<"type", "first">>}
        /\ rule.at = <<"type", "first">> => OpenBracket(tokens)
    BY DEF InPlace
  <1>3. Taking(rule, t) \in Seq(Word) /\ Kept(tokens) \in Seq(Word)
    <2>1. Said(t) \in Word
      BY SaidTyped
    <2> QED
      BY <2>1, KeptIs DEF Taking, Adds
  <1>4. CASE ~rule.take
    <2>1. ReadOn(rule, tokens, t) = tokens /\ Taking(rule, t) = <<>>
      BY <1>4 DEF ReadOn, Taking
    <2>2. Kept(tokens) = Kept(tokens) \o <<>>
      BY <1>3, Joins
    <2>3. OpenBracket(tokens) => rule.at = <<"type", "first">>
      BY <1>1, <1>2, <1>4 DEF Shaped
    <2> QED
      BY <1>3, <1>4, <2>1, <2>2, <2>3
  <1>5. CASE rule.take
    <2>1. ReadOn(rule, tokens, t) = more /\ Taking(rule, t) = Adds(t)
      BY <1>5 DEF ReadOn, Taking
    <2>2. OpenBracket(more) <=> t.type = "LGeneric"
      <3>1. more # <<>> /\ more[Len(more)] = t
        OBVIOUS
      <3> QED
        BY <3>1 DEF OpenBracket
    <2>3. t.type = "LGeneric" <=> rule.then = "first"
      BY <1>1, <1>5 DEF Shaped
    <2>4. OpenBracket(tokens) /\ t.type = "RGeneric" <=> rule.at = <<"type", "first">>
      BY <1>1, <1>2, <1>5 DEF Shaped
    <2> HIDE DEF more
    <2>5. IF OpenBracket(tokens) /\ t.type = "RGeneric"
          THEN Kept(tokens) = Kept(more) \o <<Mark("LGeneric")>>
          ELSE Kept(more) = Kept(tokens) \o Adds(t)
      BY KeptGrows DEF more, Adds
    <2>6. IF rule.at = <<"type", "first">>
          THEN Kept(tokens) = Kept(more) \o <<Mark("LGeneric")>>
          ELSE Kept(more) = Kept(tokens) \o Taking(rule, t)
      BY <2>1, <2>4, <2>5
    <2> QED
      BY <1>3, <1>5, <2>1, <2>2, <2>3, <2>6
  <1> QED
    BY <1>4, <1>5

(* Words regrouped: the provers find it hard among other facts.            *)
LEMMA Regroup ==
    ASSUME NEW s \in Seq(Word), NEW u \in Seq(Word), NEW v \in Seq(Word)
    PROVE  s \o (u \o v) = (s \o u) \o v
  OBVIOUS

(* A call goes on, with the calls that it makes.                           *)
LEMMA GoesOnInPlace ==
    ASSUME NEW tokens \in Seq(Tokens), NEW t \in Tokens, NEW calls, InPlace(calls, tokens),
           NEW rule \in Rules, rule.at = calls[Len(calls)].at, t.type \in rule.on,
           rule.then # Return
    PROVE  InPlace(Append(Pop(calls), Moved(calls[Len(calls)], t, rule.then)) \o rule.calls,
                   ReadOn(rule, tokens, t))
  <1> DEFINE n == Len(calls)
             top == calls[n]
             moved == Moved(top, t, rule.then)
             below == Pop(calls)
             one == Append(below, moved)
             on == ReadOn(rule, tokens, t)
             adds == Taking(rule, t)
             h == Height(tokens)
             h2 == Height(on)
  <1>1. h \in Nat /\ on \in Seq(Tokens) /\ h2 = h + (IF rule.take THEN 2 ELSE 0)
    BY HeightIs
  <1>2. h2 \in Nat /\ h <= h2
    BY <1>1
  <1>3. /\ calls # <<>> /\ CallsFit(calls, "running", h)
        /\ n + Slack(top.at) <= h
        /\ Kept(tokens) \o Owed(top.at) = AllTaken(calls)
        /\ OpenBracket(tokens) => top.at \in {<<"type", "name">>, <<"type", "first">>}
    BY DEF InPlace
  <1>4. /\ n \in Nat /\ n # 0 /\ n <= h
        /\ FrameFits(top, "running", h - n)
        /\ below \in Seq(Frame) /\ Len(below) = n - 1
        /\ CallsFit(below, "waiting", h2)
        /\ AllTaken(calls) = AllTaken(below) \o Taken(top)
        /\ AllTaken(below) \in Seq(Word) /\ Taken(top) \in Seq(Word)
    BY <1>1, <1>2, <1>3, CallPops
  <1>5. Shaped(rule, t.type)
    BY RuleShaped
  <1>6. adds \in Seq(Word) /\ Kept(tokens) \in Seq(Word)
    BY TakingIs, KeptIs
  <1>7. Kept(on) = Kept(tokens) \o adds
    <2>1. ~(rule.at = <<"type", "first">> /\ rule.take)
      BY <1>5 DEF Shaped
    <2> QED
      BY <2>1, TakingIs
  <1>8. rule.take => (OpenBracket(on) <=> rule.then = "first")
    BY TakingIs
  <1>9. OpenBracket(on) => rule.at = <<"type", "first">> \/ rule.take
    BY TakingIs
  <1>10. moved.at = <<top.at[1], rule.then>>
    BY DEF Moved
  <1> HIDE DEF moved, below, top, on, adds, h, h2, n
  <1>11. /\ FrameFits(moved, RoleAfter(rule), h - n)
         /\ IF top.at[2] = "semicolon"
            THEN adds = <<Mark("Semicolon")>> /\ Taken(moved) = Taken(top)
            ELSE Taken(moved) = Taken(top) \o adds
    <2>1. h - n \in Nat
      BY <1>1, <1>4
    <2>2. Obeys(top, t, rule, h - n)
      <3>1. rule.at = top.at /\ t.type \in rule.on /\ rule \in Rules /\ t \in Tokens
        BY DEF top, n
      <3> QED
        BY ONLY <1>4, <2>1, <3>1, RuleObeys
    <2>3. GoesOn(top, t, adds, RoleAfter(rule), rule.then, h - n)
      BY <2>2 DEF Obeys, adds
    <2> QED
      BY <2>3 DEF GoesOn, moved
  <1>12. FrameFits(moved, RoleAfter(rule), h2 - n)
    <2>1. h - n \in Nat /\ h2 - n \in Nat /\ h - n <= h2 - n
      BY <1>1, <1>2, <1>4
    <2> QED
      BY <1>11, <2>1, FitsHigher
  <1>13. /\ CallsFit(one, RoleAfter(rule), h2)
         /\ Len(one) = n /\ one[Len(one)] = moved
         /\ AllTaken(one) = AllTaken(below) \o Taken(moved)
    <2>1. Len(below) + 1 = n /\ n <= h2
      BY <1>1, <1>2, <1>4
    <2>2. Len(below) + 1 <= h2 /\ FrameFits(moved, RoleAfter(rule), h2 - (Len(below) + 1))
      BY <1>12, <2>1
    <2>3. /\ CallsFit(one, RoleAfter(rule), h2)
          /\ Len(one) = Len(below) + 1 /\ one[Len(one)] = moved
      BY ONLY <1>2, <1>4, <2>2, CallAdds
    <2>4. AllTaken(one) = AllTaken(below) \o Taken(moved)
      BY ONLY <1>2, <1>4, <1>12, <2>1, <2>2, <2>3, CallAdds
    <2> QED
      BY <2>1, <2>3, <2>4
  <1>14. Kept(on) = AllTaken(one)
    <2>1. CASE top.at[2] = "semicolon"
      BY <1>3, <1>4, <1>7, <1>11, <1>13, <2>1 DEF Owed
    <2>2. CASE top.at[2] # "semicolon"
      <3>1. Kept(tokens) = AllTaken(below) \o Taken(top)
        <4>1. Kept(tokens) \o <<>> = AllTaken(calls)
          BY <1>3, <2>2 DEF Owed
        <4> QED
          BY <1>4, <1>6, <4>1, Joins
      <3> QED
        <4>1. Taken(moved) = Taken(top) \o adds
          BY <1>11, <2>2
        <4>2. AllTaken(below) \o (Taken(top) \o adds) = (AllTaken(below) \o Taken(top)) \o adds
          BY ONLY <1>4, <1>6, Regroup
        <4> QED
          BY ONLY <1>7, <1>13, <3>1, <4>1, <4>2
    <2> QED
      BY <2>1, <2>2
  <1> HIDE DEF one
  <1>15. AllTaken(one) \in Seq(Word)
    BY <1>2, <1>13, TakenTyped
  <1>16. AllTaken(one) \o <<>> = AllTaken(one)
    BY <1>15, Joins
  <1>17. Slack(top.at) \in {0, 2} /\ (~rule.take => Slack(top.at) = 2)
    <2>1. ~rule.take => top.at[2] \notin {"name", "open", "keyword"}
      BY <1>5 DEF Shaped, top, n
    <2> QED
      BY <2>1 DEF Slack
  <1>18. n + 2 <= h2
    BY <1>1, <1>3, <1>4, <1>17
  <1>19. rule.then = "first" => moved.at = <<"type", "first">>
    <2>1. moved.at \in Places
      BY <1>11, PlacesAre DEF FrameFits, Standing
    <2>2. \A at \in Places : at[2] = "first" => at = <<"type", "first">>
      BY DEF Places, EarlyPlaces, WaitingPlaces
    <2> QED
      BY <1>10, <2>1, <2>2
  <1>20. CASE rule.calls = <<>>
    <2>1. one \o rule.calls = one
      <3>1. one \in Seq(Frame)
        BY <1>13 DEF CallsFit
      <3> QED
        BY <1>20, <3>1
    <2>2. RoleAfter(rule) = "running"
      BY <1>20 DEF RoleAfter
    <2>3. Owed(moved.at) = <<>>
      BY <1>5, <1>10, <1>20 DEF Owed, Shaped
    <2>4. OpenBracket(on) => moved.at = <<"type", "first">>
      <3>1. OpenBracket(on) => rule.take
        <4>1. rule.at = <<"type", "first">> => rule.take
          BY <1>5, <1>20, CallsAre DEF Shaped
        <4> QED
          BY <1>9, <4>1
      <3> QED
        BY <1>8, <1>19, <3>1
    <2>5. moved.at = <<"type", "first">> => OpenBracket(on)
      <3>1. moved.at = <<"type", "first">> => rule.then = "first"
        BY <1>10
      <3> QED
        BY <1>5, <1>8, <3>1 DEF Shaped
    <2>6. n + Slack(moved.at) <= h2
      <3>1. Slack(moved.at) \in {0, 2}
        BY DEF Slack
      <3> QED
        BY <1>2, <1>4, <1>18, <3>1
    <2>7. one # <<>>
      BY <1>4, <1>13
    <2>8. Kept(on) \o Owed(moved.at) = AllTaken(one)
      BY <1>14, <1>16, <2>3
    <2>9. InPlace(one, on)
      BY <1>13, <2>2, <2>4, <2>5, <2>6, <2>7, <2>8 DEF InPlace, h2
    <2> QED
      BY <2>1, <2>9 DEF one, below, moved, top, n, on
  <1>21. CASE rule.calls # <<>>
    <2> DEFINE more == one \o rule.calls
    <2>1. RoleAfter(rule) = "waiting"
      BY <1>21 DEF RoleAfter
    <2>2. /\ rule.calls \in {CallType, CallVariable, CallMethod}
               \cup {CallPack(kind) : kind \in {"arguments", "returns"}}
               \cup {CallBlock(kind) : kind \in {"struct", "interface", "namespace"}}
          /\ Len(rule.calls) <= IF rule.take THEN 1 ELSE 2
      BY <1>5, <1>21 DEF Shaped
    <2>3. Len(rule.calls) \in {1, 2}
      BY <2>2, CallsAre
    <2>4. n + Len(rule.calls) <= h2
      <3>1. PICK k : k = Len(rule.calls)
        OBVIOUS
      <3>2. k = 1 \/ k = 2
        BY <2>3, <3>1
      <3>3. n \in Nat /\ h2 \in Nat /\ n + 2 <= h2
        BY <1>2, <1>4, <1>18
      <3>4. n + 1 <= h2
        BY ONLY <3>3
      <3>5. n + k <= h2
        BY <3>2, <3>3, <3>4
      <3> QED
        BY <3>1, <3>5
    <2>5. CallsFit(one, "waiting", h2) /\ Len(one) + Len(rule.calls) <= h2
      BY <1>13, <2>1, <2>4
    <2>6. /\ CallsFit(more, "running", h2)
          /\ Len(more) = Len(one) + Len(rule.calls)
          /\ AllTaken(more) = AllTaken(one)
          /\ more[Len(more)].at[2] \in {"name", "open", "keyword"}
          /\ more[Len(more)].at # <<"type", "first">>
          /\ rule.calls = CallType => more[Len(more)].at = <<"type", "name">>
      <3>1. PICK now, made, room : now = one /\ made = rule.calls /\ room = h2
        OBVIOUS
      <3>2. made \in {CallType, CallVariable, CallMethod}
               \cup {CallPack(kind) : kind \in {"arguments", "returns"}}
               \cup {CallBlock(kind) : kind \in {"struct", "interface", "namespace"}}
        BY <2>2, <3>1
      <3>3. CallsFit(now, "waiting", room)
        BY <2>5, <3>1
      <3>4. Len(now) + Len(made) <= room
        BY <2>5, <3>1
      <3>5. room \in Nat /\ made # <<>>
        BY <1>2, <1>21, <3>1
      <3>6. /\ CallsFit(now \o made, "running", room)
            /\ Len(now \o made) = Len(now) + Len(made)
            /\ AllTaken(now \o made) = AllTaken(now)
            /\ (now \o made)[Len(now \o made)].at[2] \in {"name", "open", "keyword"}
            /\ (now \o made)[Len(now \o made)].at # <<"type", "first">>
            /\ made = CallType => (now \o made)[Len(now \o made)].at = <<"type", "name">>
        BY ONLY <3>2, <3>3, <3>4, <3>5, CallsAdd
      <3> QED
        BY <3>1, <3>6
    <2> HIDE DEF more
    <2>7. Slack(more[Len(more)].at) = 0 /\ Owed(more[Len(more)].at) = <<>>
      BY <2>6 DEF Slack, Owed
    <2>8. Len(more) + 0 <= h2
      BY <1>2, <1>4, <1>13, <2>3, <2>4, <2>6
    <2>9. more # <<>>
      BY <1>4, <1>13, <2>3, <2>6
    <2>10. OpenBracket(on) => more[Len(more)].at = <<"type", "name">>
      <3>1. rule.take => ~OpenBracket(on)
        BY <1>5, <1>8, <1>21 DEF Shaped
      <3>2. ~rule.take /\ rule.at = <<"type", "first">> => rule.calls = CallType
        BY <1>5 DEF Shaped
      <3> QED
        BY <1>9, <2>6, <3>1, <3>2
    <2>11. Kept(on) \o Owed(more[Len(more)].at) = AllTaken(more)
      BY <1>14, <1>16, <2>6, <2>7
    <2>12. InPlace(more, on)
      BY <2>6, <2>7, <2>8, <2>9, <2>10, <2>11 DEF InPlace, h2
    <2> QED
      BY <2>12 DEF more, one, below, moved, top, n, on
  <1> QED
    BY <1>20, <1>21

(* Two sequences of words joined are one.                                  *)
LEMMA Together ==
    ASSUME NEW s \in Seq(Word), NEW u \in Seq(Word)
    PROVE  \E v \in Seq(Word) : v = s \o u
  <1>1. s \o u \in Seq(Word)
    OBVIOUS
  <1> QED
    BY <1>1

Three(a, b, c) == a \o (b \o c) = (a \o b) \o c

Four(a, b, c, d) == ((a \o b) \o c) \o d = a \o (b \o (c \o d))

Five(a, b, c, d, e) == (a \o (b \o ((c \o d) \o e))) \o <<>> = ((a \o b) \o c) \o (d \o e)

(* Three sequences of words regrouped,                                     *)
LEMMA RegroupThree ==
    ASSUME NEW a \in Seq(Word), NEW b \in Seq(Word), NEW c \in Seq(Word)
    PROVE  Three(a, b, c)
  BY Regroup DEF Three

(* four,                                                                   *)
LEMMA RegroupFour ==
    ASSUME NEW a \in Seq(Word), NEW b \in Seq(Word), NEW c \in Seq(Word), NEW d \in Seq(Word)
    PROVE  Four(a, b, c, d)
  <1>1. PICK ab \in Seq(Word) : ab = a \o b
    BY Together
  <1>2. PICK cd \in Seq(Word) : cd = c \o d
    BY Together
  <1>3. (ab \o c) \o d = ab \o cd
    <2>1. Three(ab, c, d)
      BY RegroupThree
    <2> QED
      BY ONLY <1>2, <2>1 DEF Three
  <1>4. (a \o b) \o cd = a \o (b \o cd)
    <2>1. Three(a, b, cd)
      BY RegroupThree
    <2> QED
      BY ONLY <2>1 DEF Three
  <1> QED
    BY <1>1, <1>2, <1>3, <1>4 DEF Four

(* and five.                                                               *)
LEMMA RegroupFive ==
    ASSUME NEW a \in Seq(Word), NEW b \in Seq(Word), NEW c \in Seq(Word), NEW d \in Seq(Word),
           NEW e \in Seq(Word)
    PROVE  Five(a, b, c, d, e)
  <1>1. PICK de \in Seq(Word) : de = d \o e
    BY Together
  <1>2. (c \o d) \o e = c \o de
    <2>1. Three(c, d, e)
      BY RegroupThree
    <2> QED
      BY ONLY <1>1, <2>1 DEF Three
  <1>3. ((a \o b) \o c) \o de = a \o (b \o (c \o de))
    <2>1. Four(a, b, c, de)
      BY RegroupFour
    <2> QED
      BY <2>1 DEF Four
  <1>4. PICK cde \in Seq(Word) : cde = c \o de
    BY Together
  <1>5. PICK bcde \in Seq(Word) : bcde = b \o cde
    BY Together
  <1>6. PICK all \in Seq(Word) : all = a \o bcde
    BY Together
  <1>7. all \o <<>> = all
    OBVIOUS
  <1> QED
    BY <1>1, <1>2, <1>3, <1>4, <1>5, <1>6, <1>7 DEF Five

(* A caller keeps the node that a call returns.                            *)
LEMMA KidReturns ==
    ASSUME NEW level \in Nat, NEW frame, FrameFits(frame, "waiting", level), NEW kid \in Tree(level)
    PROVE  LET grown == [frame EXCEPT !.node.kids = Append(@, kid)] IN
           /\ grown.at = frame.at
           /\ FrameFits(grown, "running", level)
           /\ Taken(grown) = Taken(frame) \o (Stands[kid] \o Owed(frame.at))
  <1> DEFINE grown == [frame EXCEPT !.node.kids = Append(@, kid)]
             node == frame.node
             more == [node EXCEPT !.kids = Append(@, kid)]
             at == frame.at
  <1>1. /\ frame = [at |-> at, node |-> node] /\ node \in NodesOver(Tree(level))
        /\ at \in WaitingPlaces
        /\ IF at[1] = "pack" THEN node.kind \in {"arguments", "returns"} ELSE node.kind = at[1]
        /\ KidsFit(frame, "waiting")
    BY DEF FrameFits, Standing
  <1>2. grown = [at |-> at, node |-> more]
    BY <1>1
  <1>3. grown.at = at /\ grown.node = more /\ grown = [at |-> grown.at, node |-> grown.node]
    BY <1>2
  <1>4. node.kids \in Seq(Tree(level)) /\ node = [kind |-> node.kind, value |-> node.value, kids |-> node.kids]
    BY <1>1 DEF NodesOver
  <1>5. more = [kind |-> node.kind, value |-> node.value, kids |-> Append(node.kids, kid)]
    BY <1>4
  <1>6. more.kind = node.kind /\ more.value = node.value /\ more.kids = Append(node.kids, kid)
    BY <1>5
  <1>7. /\ Append(node.kids, kid) \in Seq(Tree(level))
        /\ Len(Append(node.kids, kid)) = Len(node.kids) + 1 /\ Len(node.kids) \in Nat
        /\ Append(node.kids, kid) # <<>>
    BY <1>4
  <1>8. more \in NodesOver(Tree(level))
    BY <1>1, <1>5, <1>7 DEF NodesOver
  <1>9. /\ node \in NodesOver(Trees) /\ more \in NodesOver(Trees)
        /\ kid \in Trees /\ Stands[kid] \in Seq(Word)
    BY <1>1, <1>8, TreesOver, StandsAs
  <1> DEFINE adds == Before(node.kind, Len(node.kids) + 1) \o Stands[kid] \o After(node.kind)
  <1>10. Parts(more, Stands) = Parts(node, Stands) \o adds
    BY <1>9, KidAdds
  <1> HIDE DEF grown, node, more, at, adds
  <1>11. at \notin EarlyPlaces /\ at \in Places
    BY <1>1 DEF WaitingPlaces, EarlyPlaces, Places
  <1>12. /\ at = <<"method", "arrow">> => Len(node.kids) = 0
         /\ at = <<"method", "end">> => Len(node.kids) = 1
    BY <1>1 DEF KidsFit, at, node
  <1>13. KidsFit(grown, "running")
    <2>1. grown.node.kids # <<>> /\ Len(grown.node.kids) = Len(node.kids) + 1
      BY <1>3, <1>6, <1>7
    <2>2. 0 + 1 = 1 /\ 1 + 1 = 2
      OBVIOUS
    <2>3. /\ at = <<"method", "arrow">> => Len(grown.node.kids) = 1
          /\ at = <<"method", "end">> => Len(grown.node.kids) = 2
      BY <1>12, <2>1, <2>2
    <2> QED
      BY <1>3, <1>11, <2>1, <2>3 DEF KidsFit
  <1>14. FrameFits(grown, "running", level)
    BY <1>1, <1>3, <1>6, <1>8, <1>11, <1>13 DEF FrameFits, Standing
  <1> DEFINE begun == Begun(at, node)
             parts == Parts(node, Stands)
  <1>15. begun \in Seq(Word) /\ parts \in Seq(Word)
    BY TakenIs DEF at, node
  <1>16. Begun(at, more) = begun
    BY <1>6 DEF Begun
  <1>17. \A i : Before(node.kind, i) \in Seq(Word) /\ After(node.kind) \in Seq(Word)
    BY <1>9, EndsAre DEF NodesOver
  <1> HIDE DEF begun, parts
  <1>18. Owed(at) = After(node.kind) /\ Owed(at) \in Seq(Word)
    <2>1. Owed(at) = After(node.kind)
      BY <1>1 DEF Owed, After, WaitingPlaces
    <2> QED
      BY <2>1, OwedTyped
  <1>19. Pending(grown.at, grown.node.kids) = <<>>
    <2>1. at = <<"method", "end">> => Len(Append(node.kids, kid)) # 1
      <3>1. 1 + 1 # 1
        OBVIOUS
      <3> QED
        BY <1>7, <1>12, <3>1
    <2> QED
      BY <1>3, <1>6, <2>1 DEF Pending
  <1>20. Taken(grown) = (begun \o (parts \o adds)) \o <<>>
    BY <1>3, <1>10, <1>16, <1>19 DEF Taken, begun, parts
  <1>21. Taken(frame) = (begun \o parts) \o Pending(at, node.kids)
    BY DEF Taken, begun, parts, at, node
  <1>22. Before(node.kind, Len(node.kids) + 1) = Pending(at, node.kids)
    <2>1. CASE at \in {<<"method", "arrow">>, <<"method", "end">>}
      <3>1. node.kind = "method"
        BY <1>1, <2>1
      <3>2. Len(node.kids) = 0 => Len(node.kids) + 1 # 2
        OBVIOUS
      <3>3. Len(node.kids) = 1 => Len(node.kids) + 1 = 2
        OBVIOUS
      <3> QED
        BY <1>12, <2>1, <3>1, <3>2, <3>3 DEF Before, Pending
    <2>2. CASE at \notin {<<"method", "arrow">>, <<"method", "end">>}
      <3>1. node.kind # "method"
        BY <1>1, <2>2 DEF WaitingPlaces
      <3> QED
        BY <2>2, <3>1 DEF Before, Pending
    <2> QED
      BY <2>1, <2>2
  <1> DEFINE pending == Pending(at, node.kids)
  <1>23. pending \in Seq(Word)
    BY <1>17, <1>22
  <1> HIDE DEF pending
  <1>24. adds = (pending \o Stands[kid]) \o Owed(at)
    BY <1>18, <1>22 DEF adds, pending
  <1>25. /\ begun \in Seq(Word) /\ parts \in Seq(Word) /\ pending \in Seq(Word)
         /\ Stands[kid] \in Seq(Word) /\ Owed(at) \in Seq(Word)
    BY <1>9, <1>15, <1>18, <1>23
  <1>26. Taken(grown) = Taken(frame) \o (Stands[kid] \o Owed(at))
    <2>1. Five(begun, parts, pending, Stands[kid], Owed(at))
      BY ONLY <1>25, RegroupFive
    <2> QED
      BY ONLY <1>20, <1>21, <1>24, <2>1 DEF pending, Five
  <1> QED
    BY <1>3, <1>14, <1>26 DEF grown, at

(* A call returns its node.                                                *)
LEMMA GivesBackInPlace ==
    ASSUME NEW tokens \in Seq(Tokens), NEW on \in Seq(Tokens), NEW calls, InPlace(calls, tokens),
           Height(tokens) <= Height(on), Len(calls) + 1 <= Height(on),
           NEW node \in NodesOver(Tree(Height(tokens) - Len(calls))),
           Kept(on) = AllTaken(Pop(calls)) \o Complete(node), ~OpenBracket(on)
    PROVE  /\ node \in Tree(Height(on))
           /\ IF Pop(calls) = <<>> THEN Kept(on) = Stands[node]
              ELSE InPlace([Pop(calls) EXCEPT ![Len(Pop(calls))].node.kids = Append(@, node)], on)
  <1> DEFINE n == Len(calls)
             p == Pop(calls)
             h == Height(tokens)
             h2 == Height(on)
  <1>1. h \in Nat /\ h2 \in Nat /\ h <= h2 /\ n + 1 <= h2
    BY HeightIs DEF Height
  <1>2. calls # <<>> /\ CallsFit(calls, "running", h)
    BY DEF InPlace
  <1>3. /\ n \in Nat /\ n # 0 /\ n <= h
        /\ p \in Seq(Frame) /\ Len(p) = n - 1
        /\ CallsFit(p, "waiting", h2) /\ AllTaken(p) \in Seq(Word)
    BY <1>1, <1>2, CallPops
  <1> HIDE DEF n, p, h, h2
  <1>4. h - n \in Nat
    BY <1>1, <1>3
  <1>5. /\ node \in Tree((h - n) + 1) /\ Stands[node] = Complete(node)
        /\ Stands[node] \in Seq(Word)
    <2>1. node \in NodesOver(Tree(h - n))
      BY DEF h, n
    <2>2. node \in Tree((h - n) + 1) /\ Stands[node] = Complete(node)
      BY <1>4, <2>1, StandsFor DEF Complete
    <2>3. (h - n) + 1 \in Nat
      BY <1>4
    <2> QED
      BY <2>2, <2>3, StandsAs
  <1>6. ASSUME NEW level \in Nat, (h - n) + 1 <= level
        PROVE  node \in Tree(level)
    <2>1. PICK k \in Nat : level = ((h - n) + 1) + k
      <3>1. level - ((h - n) + 1) \in Nat /\ level = ((h - n) + 1) + (level - ((h - n) + 1))
        BY <1>4, <1>6
      <3> QED
        BY <3>1
    <2>2. (h - n) + 1 \in Nat
      BY <1>4
    <2> QED
      BY <1>5, <2>1, <2>2, YieldStays
  <1>7. node \in Tree(h2)
    <2>1. (h - n) + 1 <= h2
      BY <1>1, <1>3
    <2> QED
      BY <1>1, <1>6, <2>1
  <1>8. Kept(on) = AllTaken(p) \o Stands[node]
    BY <1>5 DEF p
  <1>9. CASE p = <<>>
    <2>1. AllTaken(p) = <<>>
      <3>1. [i \in DOMAIN p |-> Taken(p[i])] = <<>>
        BY <1>9
      <3> QED
        BY <3>1, FlattenNone DEF AllTaken
    <2>2. Kept(on) = Stands[node]
      BY <1>5, <1>8, <2>1, Joins
    <2> QED
      BY <1>7, <1>9, <2>2 DEF p, h2
  <1>10. CASE p # <<>>
    <2> DEFINE m == Len(p)
               caller == p[m]
               grown == [caller EXCEPT !.node.kids = Append(@, node)]
               below == Pop(p)
               more == Append(below, grown)
    <2>1. /\ m \in Nat /\ m # 0 /\ m <= h2
          /\ FrameFits(caller, "waiting", h2 - m)
          /\ below \in Seq(Frame) /\ Len(below) = m - 1
          /\ p = Append(below, caller)
          /\ CallsFit(below, "waiting", h2)
          /\ AllTaken(p) = AllTaken(below) \o Taken(caller)
          /\ AllTaken(below) \in Seq(Word) /\ Taken(caller) \in Seq(Word)
      <3>1. h2 <= h2
        BY <1>1
      <3> QED
        BY ONLY <1>1, <1>3, <1>10, <3>1, CallPops
    <2> HIDE DEF caller, below, m
    <2>2. h2 - m \in Nat /\ (h - n) + 1 <= h2 - m /\ m = n - 1
      BY <1>1, <1>3, <2>1 DEF m
    <2>3. node \in Tree(h2 - m)
      BY <1>6, <2>2
    <2>4. /\ grown.at = caller.at
          /\ FrameFits(grown, "running", h2 - m)
          /\ Taken(grown) = Taken(caller) \o (Stands[node] \o Owed(caller.at))
      BY ONLY <2>1, <2>2, <2>3, KidReturns
    <2> HIDE DEF grown
    <2>5. /\ CallsFit(more, "running", h2)
          /\ Len(more) = m /\ more[Len(more)] = grown
          /\ AllTaken(more) = AllTaken(below) \o Taken(grown)
      <3>1. Len(below) + 1 = m
        BY <2>1
      <3>2. Len(below) + 1 <= h2 /\ FrameFits(grown, "running", h2 - (Len(below) + 1))
        BY <2>1, <2>4, <3>1
      <3>3. /\ CallsFit(more, "running", h2)
            /\ Len(more) = Len(below) + 1 /\ more[Len(more)] = grown
        BY ONLY <1>1, <2>1, <3>2, CallAdds
      <3>4. AllTaken(more) = AllTaken(below) \o Taken(grown)
        BY ONLY <1>1, <2>1, <2>4, <3>1, <3>2, <3>3, CallAdds
      <3> QED
        BY <3>1, <3>3, <3>4
    <2>6. more = [p EXCEPT ![m].node.kids = Append(@, node)]
      <3> DEFINE e == [p EXCEPT ![m] = grown]
      <3>1. [p EXCEPT ![m].node.kids = Append(@, node)] = e
        BY DEF grown, caller
      <3>2. grown \in Frame
        BY <2>2, <2>4, FrameTyped
      <3>3. m \in 1..m /\ DOMAIN p = 1..m /\ Len(below) + 1 = m
        BY <1>3, <2>1 DEF m
      <3>4. e \in [1..Len(below) + 1 -> Frame]
        BY <1>3, <3>2, <3>3
      <3>5. \A i \in 1..Len(below) : below[i] = p[i]
        <4>1. caller \in Frame
          BY <1>3, <3>3 DEF caller
        <4>2. \A i \in 1..Len(below) : Append(below, caller)[i] = below[i]
          BY <2>1, <4>1
        <4> QED
          BY <2>1, <4>2
      <3>6. \A i \in 1..Len(below) : i \in 1..m /\ i # m
        BY <2>1, <3>3
      <3>7. \A i \in 1..Len(below) : e[i] = below[i]
        BY <3>3, <3>5, <3>6
      <3>8. e[Len(below) + 1] = grown
        BY <3>3
      <3> HIDE DEF e
      <3>9. e = Append(below, e[Len(below) + 1])
        BY <2>1, <3>4, <3>7, AppendIs
      <3> QED
        BY <3>1, <3>8, <3>9
    <2> HIDE DEF more
    <2>7. Kept(on) \o Owed(grown.at) = AllTaken(more)
      <3>1. Owed(caller.at) \in Seq(Word)
        BY OwedTyped
      <3>2. Four(AllTaken(below), Taken(caller), Stands[node], Owed(caller.at))
        BY ONLY <1>5, <2>1, <3>1, RegroupFour
      <3> QED
        BY ONLY <1>8, <2>1, <2>4, <2>5, <3>2 DEF Four
    <2>8. Len(more) + Slack(grown.at) <= h2
      <3>1. Slack(grown.at) \in {0, 2}
        BY DEF Slack
      <3>2. m + 2 <= h2
        BY <1>1, <1>3, <2>2
      <3>3. m + 0 <= h2
        BY <1>1, <2>1
      <3> QED
        BY <2>5, <3>1, <3>2, <3>3
    <2>9. grown.at # <<"type", "first">>
      <3>1. grown.at \in WaitingPlaces
        BY <2>1, <2>4 DEF FrameFits, Standing
      <3> QED
        BY <3>1 DEF WaitingPlaces
    <2>10. more # <<>>
      BY <2>1, <2>5
    <2>11. InPlace(more, on)
      BY <2>5, <2>7, <2>8, <2>9, <2>10 DEF InPlace, h2
    <2> QED
      BY <1>7, <1>10, <2>6, <2>11 DEF p, h2, m
  <1> QED
    BY <1>9, <1>10

(* Sequences that agree with the same word after them agree.               *)
LEMMA Cancel ==
    ASSUME NEW s \in Seq(Word), NEW u \in Seq(Word), NEW w, s \o <<w>> = u \o <<w>>
    PROVE  s = u
  <1>1. w \in {w}
    OBVIOUS
  <1> DEFINE S == Word \cup {w}
             sw == s \o <<w>>
             uw == u \o <<w>>
  <1>2. s \in Seq(S) /\ u \in Seq(S) /\ <<w>> \in Seq(S)
    OBVIOUS
  <1>3. /\ Len(sw) = Len(s) + 1 /\ Len(uw) = Len(u) + 1 /\ Len(s) \in Nat /\ Len(u) \in Nat
        /\ \A i \in 1..Len(s) : sw[i] = s[i]
        /\ \A i \in 1..Len(u) : uw[i] = u[i]
    BY <1>2
  <1>4. sw = uw
    OBVIOUS
  <1> HIDE DEF sw, uw
  <1>5. Len(s) = Len(u)
    BY <1>3, <1>4
  <1>6. \A i \in 1..Len(s) : s[i] = u[i]
    BY <1>3, <1>4, <1>5
  <1>7. s = [i \in 1..Len(s) |-> s[i]] /\ u = [i \in 1..Len(u) |-> u[i]]
    OBVIOUS
  <1> QED
    BY <1>5, <1>6, <1>7

(* What the program has after a call returned a node to its callers.       *)
GivenBack(below, node, on) ==
    /\ node \in Tree(Height(on))
    /\ IF below = <<>> THEN Kept(on) = Stands[node]
       ELSE InPlace([below EXCEPT ![Len(below)].node.kids = Append(@, node)], on)

(* A call that returns leaves everything in its place.                     *)
LEMMA ReturnsInPlace ==
    ASSUME NEW tokens \in Seq(Tokens), NEW t \in Tokens, NEW calls, InPlace(calls, tokens),
           NEW rule \in Rules, rule.at = calls[Len(calls)].at, t.type \in rule.on,
           rule.then = Return
    PROVE  GivenBack(Pop(calls), NamedBy(calls[Len(calls)], t), ReadOn(rule, tokens, t))
  <1> DEFINE n == Len(calls)
             top == calls[n]
             node == NamedBy(top, t)
             below == Pop(calls)
             on == ReadOn(rule, tokens, t)
             adds == Taking(rule, t)
             h == Height(tokens)
             h2 == Height(on)
  <1>1. h \in Nat /\ on \in Seq(Tokens) /\ h2 = h + (IF rule.take THEN 2 ELSE 0)
    BY HeightIs
  <1>2. h2 \in Nat /\ h <= h2
    BY <1>1
  <1>3. /\ calls # <<>> /\ CallsFit(calls, "running", h)
        /\ n + Slack(top.at) <= h
        /\ Kept(tokens) \o Owed(top.at) = AllTaken(calls)
    BY DEF InPlace
  <1>4. /\ n \in Nat /\ n # 0 /\ n <= h
        /\ FrameFits(top, "running", h - n)
        /\ AllTaken(calls) = AllTaken(below) \o Taken(top)
        /\ AllTaken(below) \in Seq(Word) /\ Taken(top) \in Seq(Word)
    BY <1>1, <1>2, <1>3, CallPops
  <1>5. Shaped(rule, t.type)
    BY RuleShaped
  <1>6. adds \in Seq(Word) /\ Kept(tokens) \in Seq(Word) /\ Kept(on) \in Seq(Word)
    BY <1>1, TakingIs, KeptIs
  <1>7. /\ IF rule.at = <<"type", "first">> /\ rule.take
           THEN Kept(tokens) = Kept(on) \o <<Mark("LGeneric")>>
           ELSE Kept(on) = Kept(tokens) \o adds
        /\ OpenBracket(on) => rule.at = <<"type", "first">> \/ rule.take
        /\ rule.take => (OpenBracket(on) <=> rule.then = "first")
    BY TakingIs
  <1>8. rule.at = <<"type", "first">> => rule.take
    BY <1>5, CallsAre DEF Shaped
  <1>9. ~OpenBracket(on)
    BY <1>7, <1>8 DEF Return
  <1>10. rule.at = top.at
    OBVIOUS
  <1> HIDE DEF top, on, adds, h, h2, n, node, below
  <1>11. GivesBack(top, t, adds, h - n)
    <2>1. h - n \in Nat
      BY <1>1, <1>4
    <2>2. Obeys(top, t, rule, h - n)
      <3>1. rule.at = top.at /\ t.type \in rule.on /\ rule \in Rules /\ t \in Tokens
        BY <1>10
      <3> QED
        BY ONLY <1>4, <2>1, <3>1, RuleObeys
    <2> QED
      BY <2>2 DEF Obeys, adds
  <1>12. /\ node \in NodesOver(Tree(h - n))
         /\ top.at[2] # "semicolon"
         /\ IF top.at = <<"type", "first">>
            THEN Taken(top) = Complete(node) \o <<Mark("LGeneric")>>
            ELSE Complete(node) = Taken(top) \o adds
    BY <1>11 DEF GivesBack, node
  <1>13. Kept(tokens) = AllTaken(below) \o Taken(top)
    <2>1. Kept(tokens) \o <<>> = AllTaken(calls)
      BY <1>3, <1>12 DEF Owed
    <2> QED
      BY <1>4, <1>6, <2>1, Joins
  <1>14. h - n \in Nat
    BY <1>1, <1>4
  <1>15. Complete(node) \in Seq(Word)
    <2>1. node \in Tree((h - n) + 1) /\ Stands[node] = Complete(node)
      BY <1>12, <1>14, StandsFor DEF Complete
    <2>2. (h - n) + 1 \in Nat
      BY <1>14
    <2>3. Stands[node] \in Seq(Word)
      BY <2>1, <2>2, StandsAs
    <2> QED
      BY <2>1, <2>3
  <1>16. Kept(on) = AllTaken(below) \o Complete(node)
    <2>1. CASE top.at = <<"type", "first">>
      <3> DEFINE mark == <<Mark("LGeneric")>>
      <3>1. Kept(tokens) = Kept(on) \o mark /\ Taken(top) = Complete(node) \o mark
        BY <1>7, <1>8, <1>10, <1>12, <2>1
      <3>2. mark \in Seq(Word)
        BY WordsAre DEF TokenType
      <3>3. AllTaken(below) \o (Complete(node) \o mark) = (AllTaken(below) \o Complete(node)) \o mark
        BY ONLY <1>4, <1>15, <3>2, Regroup
      <3>4. Kept(on) \o mark = (AllTaken(below) \o Complete(node)) \o mark
        BY <1>13, <3>1, <3>3
      <3>5. AllTaken(below) \o Complete(node) \in Seq(Word)
        BY <1>4, <1>15
      <3> QED
        BY <1>6, <3>4, <3>5, Cancel
    <2>2. CASE top.at # <<"type", "first">>
      <3>1. Kept(on) = Kept(tokens) \o adds /\ Complete(node) = Taken(top) \o adds
        BY <1>7, <1>10, <1>12, <2>2
      <3>2. AllTaken(below) \o (Taken(top) \o adds) = (AllTaken(below) \o Taken(top)) \o adds
        BY ONLY <1>4, <1>6, Regroup
      <3> QED
        BY ONLY <1>13, <3>1, <3>2
    <2> QED
      BY <2>1, <2>2
  <1>17. n + 1 <= h2
    <2>1. CASE rule.take
      BY <1>1, <1>4, <2>1
    <2>2. CASE ~rule.take
      <3>1. Slack(top.at) = 2
        BY <1>5, <1>10, <2>2 DEF Shaped, Slack
      <3> QED
        BY <1>1, <1>2, <1>3, <1>4, <3>1
    <2> QED
      BY <2>1, <2>2
  <1>18. /\ tokens \in Seq(Tokens) /\ on \in Seq(Tokens) /\ InPlace(calls, tokens)
         /\ Height(tokens) <= Height(on) /\ Len(calls) + 1 <= Height(on)
         /\ node \in NodesOver(Tree(Height(tokens) - Len(calls)))
         /\ Kept(on) = AllTaken(Pop(calls)) \o Complete(node)
    BY <1>1, <1>2, <1>12, <1>16, <1>17 DEF h, h2, n, below
  <1>19. /\ node \in Tree(Height(on))
         /\ IF Pop(calls) = <<>> THEN Kept(on) = Stands[node]
            ELSE InPlace([Pop(calls) EXCEPT ![Len(Pop(calls))].node.kids = Append(@, node)], on)
    BY ONLY <1>9, <1>18, GivesBackInPlace
  <1> QED
    BY <1>19 DEF GivenBack, node, top, n, below, on

(* A method returns after its return values.                               *)
LEMMA MethodReturnsInPlace ==
    ASSUME NEW tokens \in Seq(Tokens), NEW calls, InPlace(calls, tokens),
           calls[Len(calls)].at = <<"method", "end">>
    PROVE  GivenBack(Pop(calls), calls[Len(calls)].node, tokens)
  <1> DEFINE n == Len(calls)
             top == calls[n]
             node == top.node
             below == Pop(calls)
             h == Height(tokens)
  <1>1. h \in Nat /\ h <= h
    BY HeightIs DEF Height
  <1>2. /\ calls # <<>> /\ CallsFit(calls, "running", h)
        /\ n + Slack(top.at) <= h
        /\ Kept(tokens) \o Owed(top.at) = AllTaken(calls)
        /\ OpenBracket(tokens) => top.at \in {<<"type", "name">>, <<"type", "first">>}
    BY DEF InPlace
  <1>3. /\ n \in Nat /\ n # 0 /\ n <= h
        /\ FrameFits(top, "running", h - n)
        /\ AllTaken(calls) = AllTaken(below) \o Taken(top)
        /\ AllTaken(below) \in Seq(Word) /\ Taken(top) \in Seq(Word)
    BY <1>1, <1>2, CallPops
  <1>4. top.at = <<"method", "end">>
    OBVIOUS
  <1>5. Kept(tokens) \in Seq(Word)
    BY KeptIs
  <1> HIDE DEF top, h, n, node, below
  <1>6. ~OpenBracket(tokens)
    BY <1>2, <1>4
  <1>7. /\ node \in NodesOver(Tree(h - n)) /\ node.kind = "method" /\ Len(node.kids) = 2
    BY <1>3, <1>4 DEF FrameFits, KidsFit, EarlyPlaces, node
  <1>8. h - n \in Nat
    BY <1>1, <1>3
  <1>9. Taken(top) = Begun(top.at, node) \o Parts(node, Stands) /\ Parts(node, Stands) \in Seq(Word)
    <2>1. Len(top.node.kids) # 1
      BY <1>7 DEF node
    <2> QED
      BY <1>3, <1>8, <2>1, TakenIs DEF node
  <1>10. Begun(top.at, node) = <<Name(node.value)>>
    BY <1>4, BegunAt
  <1>11. Complete(node) = (<<Name(node.value)>> \o Parts(node, Stands)) \o <<>>
    BY <1>7 DEF Complete, Opening, Closing
  <1>12. Complete(node) = Taken(top)
    <2>1. Taken(top) \o <<>> = Taken(top)
      BY <1>3, Joins
    <2> QED
      BY <1>9, <1>10, <1>11, <2>1
  <1>13. Kept(tokens) = AllTaken(below) \o Complete(node)
    <2>1. Kept(tokens) \o <<>> = AllTaken(calls)
      BY <1>2, <1>4 DEF Owed
    <2> QED
      BY <1>3, <1>5, <1>12, <2>1, Joins
  <1>14. n + 1 <= h
    <2>1. Slack(top.at) = 2
      BY <1>4 DEF Slack
    <2> QED
      BY <1>1, <1>2, <1>3, <2>1
  <1>15. /\ tokens \in Seq(Tokens) /\ InPlace(calls, tokens)
         /\ Height(tokens) <= Height(tokens) /\ Len(calls) + 1 <= Height(tokens)
         /\ node \in NodesOver(Tree(Height(tokens) - Len(calls)))
         /\ Kept(tokens) = AllTaken(Pop(calls)) \o Complete(node)
    BY <1>1, <1>7, <1>13, <1>14 DEF h, n, below
  <1>16. /\ node \in Tree(Height(tokens))
         /\ IF Pop(calls) = <<>> THEN Kept(tokens) = Stands[node]
            ELSE InPlace([Pop(calls) EXCEPT ![Len(Pop(calls))].node.kids = Append(@, node)], tokens)
    BY ONLY <1>6, <1>15, GivesBackInPlace
  <1> QED
    BY <1>16 DEF GivenBack, node, top, n, below

(* A parse begins with one call, for nothing.                              *)
LEMMA StartsInPlace ==
    ASSUME NEW routine \in Starts
    PROVE  /\ routine = "tokens" => Calls(routine) = <<>>
           /\ routine # "tokens" => InPlace(Calls(routine), <<>>)
  <1>1. Calls("tokens") = <<>>
    BY DEF Calls
  <1>2. ASSUME routine # "tokens"
        PROVE  InPlace(Calls(routine), <<>>)
    <2> DEFINE calls == Calls(routine)
               more == <<>> \o calls
    <2>1. /\ calls \in {CallType, CallMethod} \cup {CallBlock(kind) : kind \in {"struct", "interface", "namespace"}}
          /\ calls # <<>> /\ Len(calls) = 1
      BY <1>2, CallsAre DEF Calls, Starts
    <2>2. calls = <<calls[1]>>
      BY <2>1 DEF CallType, CallMethod, CallBlock
    <2> HIDE DEF calls
    <2>3. Height(<<>>) = 3
      BY DEF Height
    <2>4. CallsFit(<<>>, "waiting", 3) /\ AllTaken(<<>>) = <<>>
      <3>1. <<>> \in Seq(Frame) /\ Len(<<>>) = 0 /\ 1..0 = {} /\ 0 <= 3
        OBVIOUS
      <3>2. [i \in DOMAIN <<>> |-> Taken(<<>>[i])] = <<>>
        OBVIOUS
      <3> QED
        BY <3>1, <3>2, FlattenNone DEF CallsFit, AllTaken
    <2>5. Len(<<>>) + Len(calls) <= 3 /\ Len(<<>>) + Len(calls) = 1
      BY <2>1
    <2>6. calls \in {CallType, CallVariable, CallMethod}
             \cup {CallPack(kind) : kind \in {"arguments", "returns"}}
             \cup {CallBlock(kind) : kind \in {"struct", "interface", "namespace"}}
      BY <2>1
    <2>7. 3 \in Nat /\ calls # <<>>
      BY <2>1
    <2>8. more = calls
      <3>1. PICK c : calls = <<c>>
        BY <2>2
      <3>2. <<c>> \in Seq({c})
        OBVIOUS
      <3> QED
        BY <3>1, <3>2
    <2>9. /\ CallsFit(more, "running", 3)
          /\ Len(more) = Len(<<>>) + Len(calls)
          /\ AllTaken(more) = AllTaken(<<>>)
          /\ more[Len(more)].at[2] \in {"name", "open", "keyword"}
          /\ more[Len(more)].at # <<"type", "first">>
      BY ONLY <2>4, <2>5, <2>6, <2>7, CallsAdd
    <2> HIDE DEF more
    <2>10. Slack(calls[Len(calls)].at) = 0 /\ Owed(calls[Len(calls)].at) = <<>>
      BY <2>8, <2>9 DEF Slack, Owed
    <2>11. Kept(<<>>) = <<>> /\ ~OpenBracket(<<>>)
      <3> DEFINE pieces == [i \in DOMAIN <<>> |->
                      IF i \in Dropped(<<>>) THEN <<>> ELSE <<Said(<<>>[i])>>]
      <3>1. pieces = <<>>
        OBVIOUS
      <3>2. Kept(<<>>) = FlattenSeq(pieces)
        BY DEF Kept, Dropped
      <3> QED
        BY <3>1, <3>2, FlattenNone DEF OpenBracket
    <2>12. Len(calls) + 0 <= 3
      BY <2>1
    <2>13. <<>> \o <<>> = <<>>
      OBVIOUS
    <2>14. InPlace(calls, <<>>)
      BY <2>3, <2>4, <2>7, <2>8, <2>9, <2>10, <2>11, <2>12, <2>13 DEF InPlace
    <2> QED
      BY <2>14 DEF calls
  <1> QED
    BY <1>1, <1>2

-----------------------------------------------------------------------------
(* Every step of a program.                                                *)

ParseInv ==
    /\ start \in Starts
    /\ start = "tokens" => stack = <<>> /\ tree = {}
    /\ stack # <<>> => tree = {} /\ InPlace(stack, read)
    /\ \A node \in tree : node \in Tree(Height(read)) /\ Kept(read) = Stands[node]

FrontInv == LexerInv /\ ParseInv

(* What next() and peek() return, and what next() adds to what is read.    *)
LEMMA Reads ==
    ASSUME LexerInv
    PROVE  /\ read \in Seq(Tokens) /\ Token \in Tokens
           /\ NextToken => read' = Append(read, Token)
           /\ PeekToken => read' = read
  <1>1. read \in Seq(Tokens)
    BY DEF LexerInv, TypeInv
  <1>2. Token \in Tokens
    <2>1. CASE lexer.token = {}
      BY <2>1, ScanIs DEF LexerInv
    <2>2. CASE lexer.token # {}
      BY <2>2, TokenAhead DEF LexerInv
    <2> QED
      BY <2>1, <2>2
  <1> QED
    BY <1>1, <1>2 DEF NextToken, PeekToken

(* The lexer is a lexer that only a program of FrontEnd uses.              *)
LEMMA FrontReads == Prints /\ Next => [LexerNext]_lexerVars
  <1>1. ParserStep => [LexerNext]_lexerVars
    BY ParserReads DEF ParserStep
  <1>2. ReadToken \/ PeekAhead \/ ParseAgain => LexerNext
    BY DEF ReadToken, PeekAhead, ParseAgain, LexerNext
  <1>3. Prints /\ ParsePrinted => LexerNext
    BY DEF Prints, ParsePrinted, LexerNext
  <1> QED
    BY <1>1, <1>2, <1>3 DEF Next

(* The program starts with nothing read.                                   *)
LEMMA StartsFrontInv == Init => FrontInv
  <1> SUFFICES ASSUME Init
               PROVE  FrontInv
    OBVIOUS
  <1>1. start \in Starts /\ data \in Seq(STRING)
    BY InputAssumption DEF Init
  <1>2. LexerInit
    BY <1>1 DEF Init, LexerInit
  <1>3. LexerInv
    BY <1>2, FirstText
  <1>4. read = <<>> /\ stack = Calls(start) /\ tree = {}
    BY DEF Init
  <1>5. ParseInv
    BY <1>1, <1>4, StartsInPlace DEF ParseInv
  <1> QED
    BY <1>3, <1>5 DEF FrontInv

(* The program starts a parse.                                             *)
LEMMA ParseStarts ==
    ASSUME start \in Starts, start # "tokens", start' = start, read' = <<>>,
           stack' = Calls(start), tree' = {}
    PROVE  ParseInv'
  BY StartsInPlace DEF ParseInv

(* A call has returned a node.                                             *)
LEMMA Returned ==
    ASSUME stack # <<>>, tree = {}, start # "tokens", start \in Starts, start' = start,
           NEW node, Returns(node), NEW on, read' = on, GivenBack(Pop(stack), node, on)
    PROVE  ParseInv'
  <1>1. Below = Pop(stack)
    BY DEF Below, Pop
  <1>2. CASE Below = <<>>
    <2>1. stack' = <<>> /\ tree' = {node}
      BY <1>2 DEF Returns
    <2>2. node \in Tree(Height(on)) /\ Kept(on) = Stands[node]
      BY <1>1, <1>2 DEF GivenBack
    <2> QED
      BY <2>1, <2>2 DEF ParseInv
  <1>3. CASE Below # <<>>
    <2>1. stack' = [Pop(stack) EXCEPT ![Len(Pop(stack))].node.kids = Append(@, node)] /\ tree' = {}
      BY <1>1, <1>3 DEF Returns
    <2>2. InPlace(stack', on)
      BY <1>1, <1>3, <2>1 DEF GivenBack
    <2> QED
      BY <2>1, <2>2 DEF ParseInv
  <1> QED
    BY <1>2, <1>3

(* Every step of the program keeps everything in its place.                *)
LEMMA FrontInvKept == FrontInv /\ Prints /\ [Next]_vars => FrontInv'
  <1> SUFFICES ASSUME FrontInv, Prints, [Next]_vars
               PROVE  FrontInv'
    OBVIOUS
  <1>1. LexerInv'
    <2>1. [LexerNext]_lexerVars
      BY FrontReads DEF vars
    <2> QED
      BY <2>1, LexerInvKept DEF FrontInv
  <1>2. /\ LexerInv
        /\ start \in Starts
        /\ start = "tokens" => stack = <<>> /\ tree = {}
        /\ stack # <<>> => tree = {} /\ InPlace(stack, read)
        /\ \A node \in tree : node \in Tree(Height(read)) /\ Kept(read) = Stands[node]
    BY DEF FrontInv, ParseInv
  <1>3. /\ read \in Seq(Tokens) /\ Token \in Tokens
        /\ NextToken => read' = Append(read, Token)
        /\ PeekToken => read' = read
    BY <1>2, Reads
  <1>4. ASSUME NEW rule \in Rules, Apply(rule), start' = start
        PROVE  ParseInv'
    <2>1. /\ stack # <<>> /\ tree = {} /\ start # "tokens" /\ start \in Starts /\ start' = start
          /\ InPlace(stack, read) /\ rule.at = stack[Len(stack)].at /\ Token.type \in rule.on
      BY <1>2, <1>4 DEF Apply, Top
    <2>2. read' = ReadOn(rule, read, Token)
      BY <1>3, <1>4 DEF Apply, ReadOn
    <2>3. Named(rule) = NamedBy(stack[Len(stack)], Token)
      BY <2>1 DEF Named, NamedBy, Top
    <2>4. PICK tokens, t, calls, on : tokens = read /\ t = Token /\ calls = stack /\ on = ReadOn(rule, tokens, t)
      OBVIOUS
    <2>5. /\ tokens \in Seq(Tokens) /\ t \in Tokens /\ InPlace(calls, tokens)
          /\ rule.at = calls[Len(calls)].at /\ t.type \in rule.on /\ rule \in Rules
      BY <1>3, <2>1, <2>4
    <2>6. CASE rule.then = Return
      <3>1. GivenBack(Pop(calls), NamedBy(calls[Len(calls)], t), ReadOn(rule, tokens, t))
        BY ONLY <2>5, <2>6, ReturnsInPlace
      <3>2. Returns(Named(rule))
        BY <1>4, <2>6 DEF Apply
      <3>3. GivenBack(Pop(stack), Named(rule), on) /\ read' = on
        BY <2>2, <2>3, <2>4, <3>1
      <3> QED
        BY ONLY <2>1, <3>2, <3>3, Returned
    <2>7. CASE rule.then # Return
      <3>1. InPlace(Append(Pop(calls), Moved(calls[Len(calls)], t, rule.then)) \o rule.calls,
                    ReadOn(rule, tokens, t))
        BY ONLY <2>5, <2>7, GoesOnInPlace
      <3>2. /\ stack' = Append(Below, [at |-> <<rule.at[1], rule.then>>, node |-> Named(rule)])
                          \o rule.calls
            /\ tree' = tree
        BY <1>4, <2>7 DEF Apply
      <3>3. stack' = Append(Pop(calls), Moved(calls[Len(calls)], t, rule.then)) \o rule.calls
        BY <2>1, <2>3, <2>4, <3>2 DEF Below, Pop, Moved
      <3>4. InPlace(stack', read')
        BY <2>2, <2>4, <3>1, <3>3
      <3> QED
        BY <2>1, <3>2, <3>4 DEF ParseInv
    <2> QED
      BY <2>6, <2>7
  <1>5. ASSUME MethodEnds, start' = start
        PROVE  ParseInv'
    <2>1. /\ stack # <<>> /\ tree = {} /\ start # "tokens" /\ start \in Starts /\ start' = start
          /\ InPlace(stack, read) /\ Returns(Top.node) /\ read' = read
          /\ stack[Len(stack)].at = <<"method", "end">>
      BY <1>2, <1>5 DEF MethodEnds, Top, lexerVars, history
    <2>2. PICK tokens, calls : tokens = read /\ calls = stack
      OBVIOUS
    <2>3. /\ tokens \in Seq(Tokens) /\ InPlace(calls, tokens)
          /\ calls[Len(calls)].at = <<"method", "end">>
      BY <1>3, <2>1, <2>2
    <2>4. GivenBack(Pop(calls), calls[Len(calls)].node, tokens)
      BY ONLY <2>3, MethodReturnsInPlace
    <2>5. GivenBack(Pop(stack), Top.node, tokens) /\ read' = tokens
      BY <2>1, <2>2, <2>4 DEF Top
    <2> QED
      BY ONLY <2>1, <2>5, Returned
  <1>6. ASSUME Raise, start' = start
        PROVE  ParseInv'
    BY <1>2, <1>6 DEF Raise, ParseInv
  <1>7. ASSUME ParserStep
       PROVE  ParseInv'
    BY <1>4, <1>5, <1>6, <1>7 DEF ParserStep, Step
  <1>8. ASSUME ReadToken \/ PeekAhead
       PROVE  ParseInv'
    BY <1>2, <1>8 DEF ReadToken, PeekAhead, parserVars, ParseInv
  <1>9. ASSUME ParseAgain
       PROVE  ParseInv'
    BY <1>2, <1>9, ParseStarts DEF ParseAgain, Reset
  <1>10. ASSUME ParsePrinted
        PROVE  ParseInv'
    BY <1>2, <1>10, ParseStarts DEF ParsePrinted, Opens
  <1>11. ASSUME UNCHANGED vars
        PROVE  ParseInv'
    <2>1. start' = start /\ stack' = stack /\ tree' = tree /\ read' = read
      BY <1>11 DEF vars, lexerVars, history, parserVars
    <2> QED
      BY <1>2, <2>1 DEF ParseInv
  <1>12. ParseInv'
    BY <1>7, <1>8, <1>9, <1>10, <1>11 DEF Next
  <1> QED
    BY <1>1, <1>12 DEF FrontInv

(* Whatever a program reads and parses in whatever order, every token that *)
(* the parser has taken is in its place: in the calls that have not        *)
(* returned, one after another, or in the tree that the last one returned. *)
THEOREM AlwaysInPlace == Spec /\ []Prints => []FrontInv
  BY StartsFrontInv, FrontInvKept, PTL DEF Spec

(* A parse that succeeds has put every token it took in its place in the   *)
(* tree, and took nothing that is not in the tree, for every text and from *)
(* every parse_ method.                                                    *)
THEOREM TreesAreTheText == Spec /\ []Prints => []TreeIsTheText
  <1>1. FrontInv => TreeIsTheText
    <2> SUFFICES ASSUME FrontInv, NEW node \in tree
                 PROVE  Kept(read) = Yield[Height(read)][node]
      BY DEF TreeIsTheText
    <2>1. node \in Tree(Height(read)) /\ Kept(read) = Stands[node] /\ read \in Seq(Tokens)
      BY DEF FrontInv, ParseInv, LexerInv, TypeInv
    <2>2. Height(read) \in Nat
      BY <2>1 DEF Height
    <2> QED
      BY <2>1, <2>2, StandsAs
  <1> QED
    BY <1>1, AlwaysInPlace, PTL

(* The tokens that the parser, or a program that peeks, gets are the text. *)
THEOREM FrontTextIsTokenized == Spec /\ []Prints => []TokensAreTheText
  <1>1. FrontInv => TokensAreTheText
    BY DEF FrontInv, LexerInv
  <1> QED
    BY <1>1, AlwaysInPlace, PTL

(* The positions of those tokens are where they are in the text.           *)
THEOREM FrontPositionsAreExact == Spec /\ []Prints => []PositionsExact
  <1>1. FrontInv => PositionsExact
    BY DEF FrontInv, LexerInv
  <1> QED
    BY <1>1, AlwaysInPlace, PTL

-----------------------------------------------------------------------------
(* A parse is what its text makes of it.                                   *)

(* What a scan finds from everywhere in the text.                          *)
Lexers == [pos : Nat, line : Nat, col : Nat, token : SUBSET Tokens]
Table == [from \in Lexers |-> ScannedFrom(from)]

TokenOf(table, from) ==
    IF from.token # {} THEN CHOOSE t \in from.token : TRUE ELSE table[from].token

ScanTo(table, from, token) == At(table[from].pos, table[from].line, table[from].col, token)

LexerAfter(take, table, from) ==
    IF take THEN IF from.token # {} THEN [from EXCEPT !.token = {}] ELSE ScanTo(table, from, {})
    ELSE IF from.token # {} THEN from ELSE ScanTo(table, from, {TokenOf(table, from)})

(* A parse and what one step makes of it.                                  *)
Parse(from, calls, nodes) == [lexer |-> from, stack |-> calls, tree |-> nodes]

GoesBack(parse, from, node) ==
    LET below == Pop(parse.stack) IN
    IF below = <<>> THEN Parse(from, <<>>, {node})
    ELSE Parse(from, [below EXCEPT ![Len(below)].node.kids = Append(@, node)], parse.tree)

Fitting(at, type) == {rule \in Rules : rule.at = at /\ type \in rule.on}

Follows(parse, table, take, calls, then) ==
    LET top == parse.stack[Len(parse.stack)]
        t == TokenOf(table, parse.lexer)
        from == LexerAfter(take, table, parse.lexer)
    IN  IF then = Return THEN GoesBack(parse, from, NamedBy(top, t))
        ELSE Parse(from, Append(Pop(parse.stack), Moved(top, t, then)) \o calls, parse.tree)

Following(table, parse) ==
    LET top == parse.stack[Len(parse.stack)]
        fitting == Fitting(top.at, TokenOf(table, parse.lexer).type)
        rule == CHOOSE rule \in fitting : TRUE
    IN  IF parse.stack = <<>> THEN parse
        ELSE IF top.at = <<"method", "end">> THEN GoesBack(parse, parse.lexer, top.node)
        ELSE IF fitting = {}
             THEN Parse(LexerAfter(top.at[2] \in NextPlaces, table, parse.lexer), <<>>, parse.tree)
        ELSE Follows(parse, table, rule.take, rule.calls, rule.then)

Now == Parse(lexer, stack, tree)

(* What a rule does at its place.                                          *)
DoesAt(rule, place, take, calls, then) ==
    rule.at[2] = place /\ rule.take = take /\ rule.calls = calls /\ rule.then = then

(* A rule at its place.                                                    *)
LEMMA DoesThere ==
    \A rule, routine, place, take, calls, then :
        Does(rule, <<routine, place>>, take, calls, then) => DoesAt(rule, place, take, calls, then)
  BY DEF Does, DoesAt

(* parse_type does one thing for a token at a place,                       *)
LEMMA SameTypeRule ==
    ASSUME NEW rule \in TypeRules, NEW other \in TypeRules, rule.at = other.at,
           NEW type, type \in rule.on, type \in other.on
    PROVE  rule.take = other.take /\ rule.calls = other.calls /\ rule.then = other.then
  <1> DEFINE OneOf(r) ==
               \/ DoesAt(r, "name", TRUE, <<>>, "generics")
               \/ DoesAt(r, "generics", TRUE, <<>>, "first") /\ type = "LGeneric"
               \/ DoesAt(r, "generics", FALSE, <<>>, Return) /\ type # "LGeneric"
               \/ DoesAt(r, "first", TRUE, <<>>, Return) /\ type = "RGeneric"
               \/ DoesAt(r, "first", FALSE, CallType, "after") /\ type # "RGeneric"
               \/ DoesAt(r, "after", TRUE, <<>>, "more") /\ type = "Comma"
               \/ DoesAt(r, "after", TRUE, <<>>, Return) /\ type = "RGeneric"
               \/ DoesAt(r, "more", FALSE, CallType, "after")
  <1>1. OneOf(rule)
    BY TypeRulesAre, DoesThere
  <1>2. OneOf(other)
    BY TypeRulesAre, DoesThere
  <1> QED
    BY ONLY <1>1, <1>2, rule.at = other.at DEF DoesAt

(* parse_pack does,                                                        *)
LEMMA SamePackRule ==
    ASSUME NEW rule \in PackRules, NEW other \in PackRules, rule.at = other.at,
           NEW type, type \in rule.on, type \in other.on
    PROVE  rule.take = other.take /\ rule.calls = other.calls /\ rule.then = other.then
  <1> DEFINE OneOf(r) ==
               \/ DoesAt(r, "open", TRUE, <<>>, "item")
               \/ DoesAt(r, "item", TRUE, <<>>, Return) /\ type = "RParen"
               \/ DoesAt(r, "item", FALSE, CallVariable, "after") /\ type # "RParen"
               \/ DoesAt(r, "after", TRUE, <<>>, "item") /\ type = "Comma"
               \/ DoesAt(r, "after", TRUE, <<>>, Return) /\ type = "RParen"
               \/ DoesAt(r, "after", FALSE, <<>>, "item") /\ type \notin {"Comma", "RParen"}
  <1>1. ASSUME NEW r \in PackRules, type \in r.on
        PROVE  OneOf(r)
    BY <1>1 DEF DoesAt, PackRules, Take, Others, Rule
  <1> HIDE DEF OneOf
  <1>2. OneOf(rule) /\ OneOf(other)
    BY <1>1
  <1> QED
    BY ONLY <1>2, rule.at = other.at DEF DoesAt, OneOf

(* parse_method does,                                                      *)
LEMMA SameMethodRule ==
    ASSUME NEW rule \in MethodRules, NEW other \in MethodRules, rule.at = other.at,
           NEW type, type \in rule.on, type \in other.on
    PROVE  rule.take = other.take /\ rule.calls = other.calls /\ rule.then = other.then
  <1> DEFINE OneOf(r) ==
               \/ DoesAt(r, "name", TRUE, CallPack("arguments"), "arrow")
               \/ DoesAt(r, "arrow", TRUE, CallPack("returns"), "end") /\ type = "Arrow"
               \/ DoesAt(r, "arrow", FALSE, <<>>, Return) /\ type # "Arrow"
  <1>1. ASSUME NEW r \in MethodRules, type \in r.on
        PROVE  OneOf(r)
    BY <1>1 DEF DoesAt, MethodRules, Rule
  <1> HIDE DEF OneOf
  <1>2. OneOf(rule) /\ OneOf(other)
    BY <1>1
  <1> QED
    BY ONLY <1>2, rule.at = other.at DEF DoesAt, OneOf

(* and so do the routines of declarations.                                 *)
LEMMA SameBlockRule ==
    ASSUME NEW rules \in {StructRules, InterfaceRules, NamespaceRules},
           NEW rule \in rules, NEW other \in rules, rule.at = other.at,
           NEW type, type \in rule.on, type \in other.on
    PROVE  rule.take = other.take /\ rule.calls = other.calls /\ rule.then = other.then
  <1> DEFINE member == IF rules = StructRules THEN CallVariable ELSE CallMethod
             OneOf(r) ==
               \/ DoesAt(r, "keyword", TRUE, <<>>, "name")
               \/ DoesAt(r, "name", TRUE, <<>>, "open")
               \/ DoesAt(r, "open", TRUE, <<>>, "body")
               \/ DoesAt(r, "body", TRUE, <<>>, Return) /\ type = "RBrack"
               \/ DoesAt(r, "body", FALSE, member, "semicolon") /\ type \notin {"RBrack"} /\ rules # NamespaceRules
               \/ DoesAt(r, "semicolon", TRUE, <<>>, "body")
               \/ DoesAt(r, "body", FALSE, CallBlock("namespace"), "body") /\ type = "Namespace" /\ rules = NamespaceRules
               \/ DoesAt(r, "body", FALSE, CallBlock("struct"), "body") /\ type = "Struct" /\ rules = NamespaceRules
               \/ DoesAt(r, "body", FALSE, CallBlock("interface"), "body") /\ type = "Interface" /\ rules = NamespaceRules
  <1>1. ASSUME NEW r \in rules, type \in r.on
        PROVE  OneOf(r)
    BY <1>1 DEF DoesAt, StructRules, InterfaceRules, NamespaceRules, HeadRules, Take, Others, Rule
  <1> HIDE DEF OneOf
  <1>2. OneOf(rule) /\ OneOf(other)
    BY <1>1
  <1> QED
    BY ONLY <1>2, rule.at = other.at DEF DoesAt, OneOf

(* No two rules are for the same token at the same place.                  *)
LEMMA SameRule ==
    ASSUME NEW rule \in Rules, NEW other \in Rules, rule.at = other.at,
           NEW type, type \in rule.on, type \in other.on
    PROVE  rule.take = other.take /\ rule.calls = other.calls /\ rule.then = other.then
  <1>1. ASSUME NEW r \in Rules
        PROVE  /\ r \in VariableRules => r.at[1] = "variable"
               /\ r \in TypeRules => r.at[1] = "type"
               /\ r \in PackRules => r.at[1] = "pack"
               /\ r \in MethodRules => r.at[1] = "method"
               /\ r \in StructRules => r.at[1] = "struct"
               /\ r \in InterfaceRules => r.at[1] = "interface"
               /\ r \in NamespaceRules => r.at[1] = "namespace"
    BY DEF VariableRules, TypeRules, PackRules, MethodRules, StructRules, InterfaceRules,
           NamespaceRules, HeadRules, Take, Others, Rule
  <1>2. CASE rule \in VariableRules /\ other \in VariableRules
    BY <1>2 DEF VariableRules, Take, Rule
  <1>3. CASE rule \in TypeRules /\ other \in TypeRules
    BY <1>3, SameTypeRule
  <1>4. CASE rule \in PackRules /\ other \in PackRules
    BY <1>4, SamePackRule
  <1>5. CASE rule \in MethodRules /\ other \in MethodRules
    BY <1>5, SameMethodRule
  <1>6. ASSUME NEW rules \in {StructRules, InterfaceRules, NamespaceRules},
               rule \in rules, other \in rules
        PROVE  rule.take = other.take /\ rule.calls = other.calls /\ rule.then = other.then
    BY <1>6, SameBlockRule
  <1> QED
    BY <1>1, <1>2, <1>3, <1>4, <1>5, <1>6 DEF Rules

(* The table is a table of the text alone.                                 *)
LEMMA TableStays == ASSUME data' = data PROVE Table' = Table
  BY DEF Table, ScannedFrom, TokenStart, Begins, Commented, IsSpace, Newlines, Column, TokenEnd,
         TypeAt, WordEnd, EndsWord, IsArrow

(* What the lexer does is what the table says.                             *)
LEMMA LexerFollows ==
    ASSUME LexerInv
    PROVE  /\ Token = TokenOf(Table, lexer)
           /\ NextToken => lexer' = LexerAfter(TRUE, Table, lexer)
           /\ PeekToken => lexer' = LexerAfter(FALSE, Table, lexer)
  <1>1. lexer \in Lexers
    BY DEF LexerInv, TypeInv, Lexers, At
  <1>2. Table[lexer] = Scanned
    BY <1>1 DEF Table, Scanned
  <1>3. Token = TokenOf(Table, lexer)
    BY <1>2 DEF Token, TokenOf
  <1>4. \A token : AfterScan(token) = ScanTo(Table, lexer, token)
    BY <1>2 DEF AfterScan, ScanTo
  <1>5. NextToken => lexer' = LexerAfter(TRUE, Table, lexer)
    BY <1>4 DEF NextToken, LexerAfter
  <1>6. PeekToken => lexer' = LexerAfter(FALSE, Table, lexer)
    BY <1>3, <1>4 DEF PeekToken, LexerAfter
  <1> QED
    BY <1>3, <1>5, <1>6

(* A step of the parser is what the table makes of the parse.              *)
LEMMA StepFollows ==
    ASSUME LexerInv, Step
    PROVE  data' = data /\ Now' = Following(Table, Now)
  <1> DEFINE table == Table
             from == lexer
             calls == stack
             top == calls[Len(calls)]
             t == TokenOf(table, from)
  <1>1. /\ Token = t
        /\ NextToken => lexer' = LexerAfter(TRUE, table, from)
        /\ PeekToken => lexer' = LexerAfter(FALSE, table, from)
    BY LexerFollows
  <1>2. Top = top /\ Below = Pop(calls)
    BY DEF Top, Below, Pop
  <1>3. /\ Now = Parse(from, calls, tree) /\ Now' = Parse(lexer', stack', tree')
        /\ Now.stack = calls /\ Now.lexer = from /\ Now.tree = tree
    BY DEF Now, Parse
  <1>4. \A node : Returns(node) => Now' = GoesBack(Now, lexer', node)
    BY <1>2, <1>3 DEF Returns, GoesBack
  <1>5. ASSUME NEW rule \in Rules, Apply(rule)
        PROVE  data' = data /\ Now' = Following(Table, Now)
    <2>1. /\ calls # <<>> /\ rule.at = top.at /\ t.type \in rule.on
          /\ data' = data
      BY <1>1, <1>2, <1>5 DEF Apply, NextToken, PeekToken
    <2>2. lexer' = LexerAfter(rule.take, table, from)
      BY <1>1, <1>5 DEF Apply, LexerAfter
    <2>3. Named(rule) = NamedBy(top, t)
      BY <1>1, <1>2, <2>1 DEF Named, NamedBy
    <2>4. Now' = Follows(Now, table, rule.take, rule.calls, rule.then)
      <3>1. CASE rule.then = Return
        BY <1>3, <1>4, <1>5, <2>2, <2>3, <3>1 DEF Apply, Follows
      <3>2. CASE rule.then # Return
        <4>1. /\ stack' = Append(Pop(calls), [at |-> <<top.at[1], rule.then>>, node |-> NamedBy(top, t)])
                            \o rule.calls
              /\ tree' = tree
          BY <1>2, <1>5, <2>1, <2>3, <3>2 DEF Apply
        <4> QED
          BY <1>3, <2>2, <3>2, <4>1 DEF Follows, Moved
      <3> QED
        BY <3>1, <3>2
    <2> DEFINE fitting == Fitting(top.at, t.type)
               chosen == CHOOSE r \in fitting : TRUE
    <2>5. rule \in fitting
      BY <2>1 DEF Fitting
    <2>6. chosen \in Rules /\ chosen.at = rule.at /\ t.type \in chosen.on
      BY <2>1, <2>5 DEF Fitting
    <2> HIDE DEF chosen
    <2>7. rule.take = chosen.take /\ rule.calls = chosen.calls /\ rule.then = chosen.then
      BY <2>1, <2>6, SameRule
    <2>8. top.at # <<"method", "end">>
      <3>1. Shaped(rule, t.type)
        BY <2>1, RuleShaped
      <3> QED
        BY <2>1, <3>1 DEF Shaped
    <2>9. Following(table, Now) = Follows(Now, table, chosen.take, chosen.calls, chosen.then)
      BY <1>3, <2>1, <2>5, <2>8 DEF Following, chosen
    <2> QED
      BY <2>1, <2>4, <2>7, <2>9
  <1>6. CASE MethodEnds
    BY <1>2, <1>3, <1>4, <1>6 DEF MethodEnds, Following, lexerVars
  <1>7. CASE Raise
    <2>1. /\ calls # <<>> /\ top.at # <<"method", "end">> /\ Fitting(top.at, t.type) = {}
          /\ stack' = <<>> /\ tree' = tree /\ data' = data
      BY <1>1, <1>2, <1>7 DEF Raise, Fitting, NextToken, PeekToken
    <2>2. lexer' = LexerAfter(top.at[2] \in NextPlaces, table, from)
      BY <1>1, <1>2, <1>7 DEF Raise, LexerAfter
    <2> QED
      BY <1>3, <2>1, <2>2 DEF Following
  <1> QED
    BY <1>5, <1>6, <1>7 DEF Step

-----------------------------------------------------------------------------
(* The steps of a parse.                                                   *)

Trace(table, from, f, n) ==
    /\ f = [i \in 0..n |-> f[i]]
    /\ f[0] = from
    /\ \A i \in 1..n : f[i] = Following(table, f[i - 1])

Reaches(table, from, to) == \E n \in Nat : \E f : Trace(table, from, f, n) /\ f[n] = to

(* Every parse reaches itself,                                             *)
LEMMA ReachesItself == \A table, from : Reaches(table, from, from)
  <1> SUFFICES ASSUME NEW table, NEW from
               PROVE  Reaches(table, from, from)
    OBVIOUS
  <1> DEFINE f == [i \in 0..0 |-> from]
  <1>1. 0 \in 0..0 /\ 1..0 = {} /\ 0 \in Nat
    OBVIOUS
  <1>2. Trace(table, from, f, 0) /\ f[0] = from
    BY <1>1 DEF Trace
  <1> QED
    BY <1>1, <1>2 DEF Reaches

(* and what follows what it reaches.                                       *)
LEMMA ReachesOn ==
    ASSUME NEW table, NEW from, NEW to, Reaches(table, from, to)
    PROVE  Reaches(table, from, Following(table, to))
  <1>1. PICK n, f : n \in Nat /\ Trace(table, from, f, n) /\ f[n] = to
    BY DEF Reaches
  <1> DEFINE m == n + 1
             last == Following(table, to)
             g == [i \in 0..m |-> IF i = m THEN last ELSE f[i]]
  <1>2. /\ m \in Nat /\ m \in 0..m /\ 0 \in 0..m /\ 0 # m /\ n \in 0..m /\ n # m /\ m - 1 = n
        /\ \A i \in 1..m : i \in 0..m /\ i - 1 \in 0..m /\ i - 1 # m /\ (i = m \/ (i # m /\ i \in 1..n))
    BY <1>1
  <1> HIDE DEF m, last
  <1>3. g[0] = from
    BY <1>1, <1>2 DEF Trace
  <1>4. ASSUME NEW i \in 1..m
        PROVE  g[i] = Following(table, g[i - 1])
    <2>1. g[i - 1] = f[i - 1]
      BY <1>2
    <2>2. CASE i = m
      BY <1>1, <1>2, <2>1, <2>2 DEF last
    <2>3. CASE i # m /\ i \in 1..n
      <3>1. g[i] = f[i]
        BY <1>2, <2>3
      <3> QED
        BY <1>1, <2>1, <2>3, <3>1 DEF Trace
    <2> QED
      BY <1>2, <2>2, <2>3
  <1>5. Trace(table, from, g, m) /\ g[m] = last
    BY <1>2, <1>3, <1>4 DEF Trace
  <1> QED
    BY <1>2, <1>5 DEF Reaches, last

(* No parse goes on after its end, and none has two ways to it.            *)
LEMMA TracesAgree ==
    ASSUME NEW table, NEW from, NEW n \in Nat, NEW f, Trace(table, from, f, n),
           NEW m \in Nat, NEW g, Trace(table, from, g, m), n <= m, f[n].stack = <<>>
    PROVE  g[m] = f[n]
  <1> DEFINE Same(i) == g[i] = IF i <= n THEN f[i] ELSE f[n]
             Bad == {i \in 0..m : ~Same(i)}
  <1>1. Bad = {}
    <2> SUFFICES ASSUME Bad # {}
                 PROVE  FALSE
      OBVIOUS
    <2>1. Bad \in SUBSET Nat
      OBVIOUS
    <2>2. PICK k \in Bad : \A i \in Bad : k <= i
      BY <2>1, Least
    <2>3. k \in 0..m /\ ~Same(k)
      BY <2>2
    <2>4. Same(0)
      BY DEF Trace
    <2>5. k # 0
      BY <2>3, <2>4
    <2>6. k \in 1..m /\ k - 1 \in 0..m /\ ~(k <= k - 1)
      BY <2>3, <2>5
    <2>7. Same(k - 1)
      BY <2>2, <2>6
    <2>8. g[k] = Following(table, g[k - 1])
      BY <2>6 DEF Trace
    <2>9. CASE k <= n
      <3>1. k \in 1..n /\ k - 1 <= n
        BY <2>6, <2>9
      <3>2. f[k] = Following(table, f[k - 1])
        BY <3>1 DEF Trace
      <3> QED
        BY <2>3, <2>7, <2>8, <2>9, <3>1, <3>2
    <2>10. CASE ~(k <= n)
      <3>1. k - 1 <= n => k - 1 = n
        BY <2>6, <2>10
      <3>2. g[k - 1] = f[n]
        BY <2>7, <3>1
      <3>3. Following(table, f[n]) = f[n]
        BY DEF Following
      <3> QED
        BY <2>3, <2>8, <2>10, <3>2, <3>3
    <2> QED
      BY <2>9, <2>10
  <1>2. m \in 0..m /\ (m <= n => m = n)
    OBVIOUS
  <1>3. Same(m)
    BY <1>1, <1>2
  <1> QED
    BY <1>2, <1>3

(* A parse ends in one way.                                                *)
LEMMA EndsOnce ==
    ASSUME NEW table, NEW from, NEW one, NEW two, Reaches(table, from, one), Reaches(table, from, two),
           one.stack = <<>>, two.stack = <<>>
    PROVE  one = two
  <1>1. PICK n, f : n \in Nat /\ Trace(table, from, f, n) /\ f[n] = one
    BY DEF Reaches
  <1>2. PICK m, g : m \in Nat /\ Trace(table, from, g, m) /\ g[m] = two
    BY DEF Reaches
  <1>3. CASE n <= m
    BY <1>1, <1>2, <1>3, TracesAgree
  <1>4. CASE m <= n
    BY <1>1, <1>2, <1>4, TracesAgree
  <1>5. n <= m \/ m <= n
    BY <1>1, <1>2
  <1> QED
    BY <1>3, <1>4, <1>5

-----------------------------------------------------------------------------
(* The parses of parse().                                                  *)

Opened == Parse(LexerStart, CallBlock("namespace"), {})

StartsNamespace == Table[LexerStart].token.type = "Namespace"

(* A parse that has gone wrong at its first token has left none behind.    *)
FirstParse ==
    /\ first = {}
    /\ Reaches(Table, Opened, Now)
    /\ \/ Now = Opened
       \/ StartsNamespace
       \/ stack = <<>> /\ tree = {} /\ lexer.token = {}
    /\ stack # <<>> => stack[1].at[1] = "namespace"
    /\ tree # {} => lexer.token = {}

(* The second parse is the first one again,                                *)
Repeats(nodes) ==
    /\ Reaches(Table, Opened, Now)
    /\ \E parse : Reaches(Table, Opened, parse) /\ parse.stack = <<>> /\ parse.tree = nodes

(* or reads the token that the first one, which has failed, had peeked,    *)
(* and then the first token of the text, which is no name.                 *)
Refused(nodes) ==
    /\ nodes = {} /\ tree = {}
    /\ \/ stack = <<>>
       \/ /\ stack = CallBlock("namespace") /\ StartsNamespace
          /\ lexer.token # {} /\ lexer = At(1, 1, 1, lexer.token)
       \/ /\ Len(stack) = 1 /\ stack[1].at = <<"namespace", "name">> /\ StartsNamespace
          /\ lexer = LexerStart

VerdictInv ==
    /\ start = "namespace" /\ phase = "first" => FirstParse
    /\ phase = "again" =>
         start = "namespace" /\ \A f \in first : Repeats(f.tree) \/ Refused(f.tree)

(* So the second parse ends as the first one did.                          *)
LEMMA VerdictIs == VerdictInv => SameVerdict
  <1> SUFFICES ASSUME VerdictInv, NEW f \in first, phase = "again", stack = <<>>
               PROVE  tree = f.tree
    BY DEF SameVerdict, Parsing
  <1>1. Repeats(f.tree) \/ Refused(f.tree)
    BY DEF VerdictInv
  <1>2. CASE Refused(f.tree)
    BY <1>2 DEF Refused
  <1>3. CASE Repeats(f.tree)
    <2>1. PICK parse : Reaches(Table, Opened, parse) /\ parse.stack = <<>> /\ parse.tree = f.tree
      BY <1>3 DEF Repeats
    <2>2. Now.stack = <<>> /\ Now.tree = tree
      BY DEF Now, Parse
    <2>3. PICK table, now : table = Table /\ now = Now
      OBVIOUS
    <2>4. Reaches(table, Opened, now) /\ Reaches(table, Opened, parse) /\ now.stack = <<>>
      BY <1>3, <2>1, <2>2, <2>3 DEF Repeats
    <2>5. now = parse
      BY <2>1, <2>4, EndsOnce
    <2> QED
      BY <2>1, <2>2, <2>3, <2>5
  <1> QED
    BY <1>1, <1>2, <1>3

(* A namespace is opened by its keyword and its name, and returns on a     *)
(* token it takes.                                                         *)
LEMMA NamespaceDoes ==
    ASSUME NEW rule \in Rules, NEW type \in rule.on, rule.at[1] = "namespace"
    PROVE  /\ rule.at[2] = "keyword" => type = "Namespace" /\ rule.take /\ rule.calls = <<>> /\ rule.then = "name"
           /\ rule.at[2] = "name" => type = "Symbol"
           /\ rule.then = Return => rule.take
  <1>1. rule \in NamespaceRules
    BY DEF Rules, VariableRules, TypeRules, PackRules, MethodRules, StructRules, InterfaceRules,
           HeadRules, Take, Others, Rule
  <1> QED
    BY <1>1 DEF NamespaceRules, HeadRules, Take, Rule, Return

(* The outermost call stays the same call, until it returns.               *)
LEMMA OutermostStays ==
    ASSUME NEW calls \in Seq(Frame), calls # <<>>
    PROVE  /\ \A moved, T, more :
                more \in Seq(T) /\ moved.at[1] = calls[Len(calls)].at[1] =>
                  (Append(Pop(calls), moved) \o more)[1].at[1] = calls[1].at[1]
           /\ Pop(calls) = <<>> => Len(calls) = 1
           /\ Pop(calls) # <<>> =>
                \A node : LET below == Pop(calls) IN
                  [below EXCEPT ![Len(below)].node.kids = Append(@, node)][1].at = calls[1].at
  <1>1. PICK n \in Nat : n = Len(calls) /\ n # 0
    OBVIOUS
  <1> DEFINE below == Pop(calls)
  <1>2. PICK m \in Nat : n = m + 1
    <2>1. n - 1 \in Nat /\ n = (n - 1) + 1
      BY <1>1
    <2> QED
      BY <2>1
  <1>3. below \in Seq(Frame) /\ Len(below) = m /\ \A i \in 1..m : below[i] = calls[i]
    <2>1. below = SubSeq(calls, 1, m) /\ m <= Len(calls)
      BY <1>1, <1>2 DEF Pop
    <2>2. SubSeq(calls, 1, m) \in Seq(Frame) /\ Len(SubSeq(calls, 1, m)) = m
      BY <2>1
    <2>3. \A i \in 1..m : SubSeq(calls, 1, m)[i] = calls[i]
      BY <2>1
    <2> QED
      BY <2>1, <2>2, <2>3
  <1> HIDE DEF below
  <1>4. ASSUME NEW moved, NEW T, NEW more \in Seq(T), moved.at[1] = calls[Len(calls)].at[1]
        PROVE  (Append(below, moved) \o more)[1].at[1] = calls[1].at[1]
    <2> DEFINE one == Append(below, moved)
               S == Frame \cup {moved} \cup T
    <2>0. below \in Seq(S) /\ moved \in S /\ more \in Seq(S)
      BY <1>3
    <2> HIDE DEF S
    <2>1. /\ one \in Seq(S) /\ Len(one) = n /\ one[n] = moved
          /\ \A i \in 1..m : one[i] = below[i]
      BY <1>2, <1>3, <2>0
    <2> HIDE DEF one
    <2>2. 1 \in 1..n /\ (1 = n \/ 1 \in 1..m)
      BY <1>1, <1>2
    <2>3. (one \o more)[1] = one[1]
      BY <2>0, <2>1, <2>2
    <2>4. one[1].at[1] = calls[1].at[1]
      BY <1>1, <1>3, <1>4, <2>1, <2>2
    <2> QED
      BY <2>3, <2>4 DEF one
  <1>5. below = <<>> => Len(calls) = 1
    BY <1>1, <1>2, <1>3
  <1>6. ASSUME below # <<>>, NEW node
        PROVE  [below EXCEPT ![Len(below)].node.kids = Append(@, node)][1].at = calls[1].at
    <2>1. m # 0 /\ 1 \in 1..m /\ DOMAIN below = 1..m
      BY <1>2, <1>3, <1>6
    <2>2. below[1] \in Frame /\ below[1] = calls[1]
      BY <1>3, <2>1
    <2>3. below[1] = [at |-> below[1].at, node |-> below[1].node]
      BY <2>2 DEF Frame
    <2> QED
      BY <2>1, <2>2, <2>3
  <1> QED
    BY <1>4, <1>5, <1>6 DEF below

(* It does when the innermost one makes more.                              *)
LEMMA OutermostMoves ==
    ASSUME NEW calls \in Seq(Frame), calls # <<>>, NEW moved, NEW T, NEW more \in Seq(T),
           moved.at[1] = calls[Len(calls)].at[1]
    PROVE  (Append(Pop(calls), moved) \o more)[1].at[1] = calls[1].at[1]
  BY OutermostStays

(* The calls of a rule are a sequence.                                     *)
LEMMA CallsTyped ==
    ASSUME NEW rule \in Rules, NEW type \in rule.on
    PROVE  \E T : rule.calls \in Seq(T)
  <1>1. \A c : <<c>> \in Seq({c})
    OBVIOUS
  <1>2. <<>> \in Seq({})
    OBVIOUS
  <1>3. \A c, d : <<c, d>> \in Seq({c, d})
    OBVIOUS
  <1>4. rule.calls = <<>> \/ (\E c : rule.calls = <<c>>) \/ \E c, d : rule.calls = <<c, d>>
    <2>1. Shaped(rule, type)
      BY RuleShaped
    <2>2. \/ rule.calls = <<>> \/ rule.calls = CallType \/ rule.calls = CallVariable
          \/ rule.calls = CallMethod \/ (\E kind : rule.calls = CallPack(kind))
          \/ \E kind : rule.calls = CallBlock(kind)
      BY <2>1 DEF Shaped
    <2> QED
      BY <2>2, CallsAre DEF CallType, CallMethod, CallPack, CallBlock
  <1>5. CASE rule.calls = <<>>
    BY <1>2, <1>5
  <1>6. ASSUME NEW c, rule.calls = <<c>>
        PROVE  \E T : rule.calls \in Seq(T)
    <2>1. rule.calls \in Seq({c})
      BY ONLY <1>1, <1>6
    <2> QED
      BY <2>1
  <1>7. ASSUME NEW c, NEW d, rule.calls = <<c, d>>
        PROVE  \E T : rule.calls \in Seq(T)
    <2>1. rule.calls \in Seq({c, d})
      BY ONLY <1>3, <1>7
    <2> QED
      BY <2>1
  <1> QED
    BY <1>4, <1>5, <1>6, <1>7

(* The token a parse starts with.                                          *)
LEMMA FirstToken ==
    ASSUME LexerInv, Step, stack = CallBlock("namespace"), tree = {}
    PROVE  \/ /\ Token.type = "Namespace"
              /\ Len(stack') = 1 /\ stack'[1].at = <<"namespace", "name">>
              /\ tree' = {} /\ lexer' = LexerAfter(TRUE, Table, lexer)
           \/ /\ Token.type # "Namespace"
              /\ stack' = <<>> /\ tree' = {} /\ lexer' = LexerAfter(TRUE, Table, lexer)
  <1>1. /\ stack = <<Call("namespace", "keyword", "namespace")>> /\ Len(stack) = 1
        /\ Top = Call("namespace", "keyword", "namespace") /\ Top.at = <<"namespace", "keyword">>
        /\ Below = <<>>
    BY DEF CallBlock, Top, Below, Call
  <1>2. NextToken => lexer' = LexerAfter(TRUE, Table, lexer)
    BY LexerFollows
  <1>3. ASSUME NEW rule \in Rules, Apply(rule)
        PROVE  /\ Token.type = "Namespace"
               /\ Len(stack') = 1 /\ stack'[1].at = <<"namespace", "name">>
               /\ tree' = {} /\ lexer' = LexerAfter(TRUE, Table, lexer)
    <2>1. rule.at = <<"namespace", "keyword">> /\ Token.type \in rule.on
      BY <1>1, <1>3 DEF Apply
    <2>2. Token.type = "Namespace" /\ rule.take /\ rule.calls = <<>> /\ rule.then = "name"
      BY <2>1, NamespaceDoes
    <2>3. /\ NextToken /\ tree' = {}
          /\ stack' = Append(<<>>, [at |-> <<"namespace", "name">>, node |-> Named(rule)]) \o <<>>
      BY <1>1, <1>3, <2>1, <2>2 DEF Apply, Return
    <2>4. PICK one : one = [at |-> <<"namespace", "name">>, node |-> Named(rule)]
      OBVIOUS
    <2>5. <<one>> \in Seq({one}) /\ Append(<<>>, one) \o <<>> = <<one>>
      OBVIOUS
    <2>6. stack' = <<one>>
      BY <2>3, <2>4, <2>5
    <2> QED
      BY <1>2, <2>2, <2>3, <2>4, <2>6
  <1>4. ~MethodEnds
    BY <1>1 DEF MethodEnds
  <1>5. ASSUME Raise
        PROVE  /\ Token.type # "Namespace"
               /\ stack' = <<>> /\ tree' = {} /\ lexer' = LexerAfter(TRUE, Table, lexer)
    <2>1. Take("namespace", "keyword", "Namespace", "name") \in Rules
      BY DEF Rules, NamespaceRules, HeadRules
    <2>2. Token.type # "Namespace"
      BY <1>1, <1>5, <2>1 DEF Raise, Take, Rule
    <2>3. NextToken /\ stack' = <<>> /\ tree' = {}
      BY <1>1, <1>5 DEF Raise, NextPlaces
    <2> QED
      BY <1>2, <2>2, <2>3
  <1> QED
    BY <1>3, <1>4, <1>5 DEF Step

(* The first parse.                                                        *)
LEMMA FirstParseStep ==
    ASSUME FrontInv, FirstParse, start = "namespace", Step, first' = first
    PROVE  FirstParse'
  <1>1. /\ first = {} /\ Reaches(Table, Opened, Now)
        /\ \/ Now = Opened
           \/ StartsNamespace
           \/ stack = <<>> /\ tree = {} /\ lexer.token = {}
        /\ stack # <<>> => stack[1].at[1] = "namespace"
        /\ LexerInv
        /\ stack # <<>> => tree = {} /\ InPlace(stack, read)
    BY DEF FirstParse, FrontInv, ParseInv
  <1>2. stack # <<>>
    BY DEF Step, Apply, MethodEnds, Raise
  <1>3. stack \in Seq(Frame) /\ tree = {} /\ stack[1].at[1] = "namespace"
    BY <1>1, <1>2 DEF InPlace, CallsFit
  <1>4. data' = data /\ Now' = Following(Table, Now)
    BY <1>1, StepFollows
  <1>5. Table' = Table
    BY <1>4, TableStays
  <1>6. Reaches(Table, Opened, Now)'
    <2>1. PICK table, from, to : table = Table /\ from = Opened /\ to = Now
      OBVIOUS
    <2>2. Reaches(table, from, Following(table, to))
      BY <1>1, <2>1, ReachesOn
    <2>3. Opened' = from
      BY <2>1 DEF Opened, LexerStart
    <2>4. Table' = table /\ Now' = Following(table, to)
      BY <1>4, <1>5, <2>1
    <2> QED
      BY <2>2, <2>3, <2>4
  <1>7. \/ StartsNamespace'
        \/ stack' = <<>> /\ tree' = {} /\ lexer'.token = {}
    <2>1. CASE StartsNamespace
      BY <1>5, <2>1 DEF StartsNamespace
    <2>2. CASE Now = Opened /\ ~StartsNamespace
      <3>1. lexer = LexerStart /\ stack = CallBlock("namespace")
        BY <2>2 DEF Now, Opened, Parse
      <3>2. lexer.token = {}
        BY <3>1 DEF LexerStart, At
      <3>3. Token = Table[LexerStart].token
        BY <1>1, <3>1, <3>2, LexerFollows DEF TokenOf
      <3>4. stack' = <<>> /\ tree' = {} /\ lexer' = LexerAfter(TRUE, Table, lexer)
        BY <1>1, <1>3, <2>2, <3>1, <3>3, FirstToken DEF StartsNamespace
      <3>5. lexer'.token = {}
        BY <3>2, <3>4 DEF LexerAfter, ScanTo, At
      <3> QED
        BY <3>4, <3>5
    <2> QED
      BY <1>1, <1>2, <2>1, <2>2
  <1>8. ASSUME NEW node, Returns(node)
        PROVE  /\ stack' # <<>> => stack'[1].at[1] = "namespace" /\ tree' = {}
               /\ stack' = <<>> => Len(stack) = 1
    <2>1. Below = Pop(stack)
      BY DEF Below, Pop
    <2>2. CASE Below = <<>>
      BY <1>2, <1>3, <1>8, <2>1, <2>2, OutermostStays DEF Returns
    <2>3. CASE Below # <<>>
      <3>1. stack' = [Pop(stack) EXCEPT ![Len(Pop(stack))].node.kids = Append(@, node)] /\ tree' = {}
        BY <1>3, <1>8, <2>1, <2>3 DEF Returns
      <3>2. stack'[1].at = stack[1].at
        BY <1>2, <1>3, <2>1, <2>3, <3>1, OutermostStays
      <3>3. stack' # <<>>
        <4>1. Pop(stack) \in Seq(Frame) /\ DOMAIN stack' = DOMAIN Pop(stack)
          BY <1>3, <3>1 DEF Pop
        <4>2. DOMAIN Pop(stack) # {}
          <5>1. PICK below : below = Pop(stack)
            OBVIOUS
          <5>2. below \in Seq(Frame) /\ below # <<>>
            BY <2>1, <2>3, <4>1, <5>1
          <5>3. DOMAIN below = 1..Len(below) /\ Len(below) \in Nat /\ Len(below) # 0
            BY ONLY <5>2
          <5>4. 1 \in 1..Len(below)
            BY ONLY <5>3
          <5> QED
            BY <5>1, <5>3, <5>4
        <4> QED
          BY <4>1, <4>2
      <3> QED
        BY <1>3, <3>1, <3>2, <3>3
    <2> QED
      BY <2>2, <2>3
  <1>9. /\ stack' # <<>> => stack'[1].at[1] = "namespace"
        /\ tree' # {} => lexer'.token = {}
    <2>1. ASSUME NEW rule \in Rules, Apply(rule), rule.then = Return
          PROVE  /\ stack' # <<>> => stack'[1].at[1] = "namespace"
                 /\ tree' # {} => lexer'.token = {}
      <3>1. /\ Returns(Named(rule)) /\ rule.at = stack[Len(stack)].at /\ Token.type \in rule.on
            /\ rule.take => NextToken
        BY <2>1 DEF Apply, Top
      <3>2. ASSUME stack' = <<>>
            PROVE  lexer'.token = {}
        <4>1. rule.at[1] = "namespace"
          BY <1>3, <1>8, <3>1, <3>2
        <4>2. NextToken
          BY <2>1, <3>1, <4>1, NamespaceDoes
        <4>3. lexer = At(lexer.pos, lexer.line, lexer.col, lexer.token)
          BY <1>1 DEF LexerInv, TypeInv
        <4> QED
          BY <4>2, <4>3 DEF NextToken, AfterScan, At
      <3> QED
        BY <1>8, <3>1, <3>2
    <2>2. ASSUME NEW rule \in Rules, Apply(rule), rule.then # Return
          PROVE  /\ stack' # <<>> => stack'[1].at[1] = "namespace"
                 /\ tree' # {} => lexer'.token = {}
      <3>1. /\ rule.at = stack[Len(stack)].at /\ Token.type \in rule.on /\ tree' = {}
            /\ stack' = Append(Pop(stack), [at |-> <<rule.at[1], rule.then>>, node |-> Named(rule)])
                          \o rule.calls
        BY <1>3, <2>2 DEF Apply, Top, Below, Pop
      <3>2. PICK T : rule.calls \in Seq(T)
        BY <2>2, <3>1, CallsTyped
      <3>3. PICK calls, moved, more :
              /\ calls = stack /\ more = rule.calls
              /\ moved = [at |-> <<rule.at[1], rule.then>>, node |-> Named(rule)]
        OBVIOUS
      <3>4. (Append(Pop(calls), moved) \o more)[1].at[1] = calls[1].at[1]
        <4>1. calls \in Seq(Frame)
          BY <1>3, <3>3
        <4>2. calls # <<>>
          BY <1>2, <3>3
        <4>3. more \in Seq(T)
          BY <3>2, <3>3
        <4>4. moved.at[1] = calls[Len(calls)].at[1]
          BY <3>1, <3>3
        <4> QED
          BY ONLY <4>1, <4>2, <4>3, <4>4, OutermostMoves
      <3>5. stack' = Append(Pop(calls), moved) \o more
        BY ONLY <3>1, <3>3
      <3> QED
        BY <1>3, <3>1, <3>3, <3>4, <3>5
    <2>3. ASSUME MethodEnds
          PROVE  /\ stack' # <<>> => stack'[1].at[1] = "namespace"
                 /\ tree' # {} => lexer'.token = {}
      <3>1. Returns(Top.node) /\ Top.at[1] = "method"
        BY <2>3 DEF MethodEnds
      <3>2. Len(stack) # 1
        BY <1>3, <3>1 DEF Top
      <3> QED
        BY <1>8, <3>1, <3>2
    <2>4. CASE Raise
      BY <1>3, <2>4 DEF Raise
    <2> QED
      BY <2>1, <2>2, <2>3, <2>4 DEF Step
  <1> QED
    BY <1>1, <1>6, <1>7, <1>9 DEF FirstParse

(* The second one.                                                         *)
LEMMA RepeatsStep ==
    ASSUME FrontInv, Step, NEW nodes, Repeats(nodes)
    PROVE  Repeats(nodes)'
  <1>1. PICK table, from, to, parse : 
          /\ table = Table /\ from = Opened /\ to = Now
          /\ Reaches(table, from, to)
          /\ Reaches(table, from, parse) /\ parse.stack = <<>> /\ parse.tree = nodes
    BY DEF Repeats
  <1>2. data' = data /\ Now' = Following(Table, Now)
    BY StepFollows DEF FrontInv
  <1>3. Reaches(table, from, Following(table, to))
    BY <1>1, ReachesOn
  <1>4. Opened' = from
    BY <1>1 DEF Opened, LexerStart
  <1>5. Table' = table /\ Now' = Following(table, to)
    BY <1>1, <1>2, TableStays
  <1> QED
    BY <1>1, <1>3, <1>4, <1>5 DEF Repeats

(* The refused text is refused at the second token.                        *)
LEMMA RefusedStep ==
    ASSUME FrontInv, Step, NEW nodes, Refused(nodes)
    PROVE  Refused(nodes)'
  <1>1. /\ nodes = {} /\ tree = {}
        /\ \/ /\ stack = CallBlock("namespace") /\ StartsNamespace
              /\ lexer.token # {} /\ lexer = At(1, 1, 1, lexer.token)
           \/ /\ Len(stack) = 1 /\ stack[1].at = <<"namespace", "name">> /\ StartsNamespace
              /\ lexer = LexerStart
        /\ LexerInv
    BY DEF Refused, FrontInv, Step, Apply, MethodEnds, Raise
  <1>2. data' = data /\ Table' = Table
    BY <1>1, StepFollows, TableStays
  <1>3. CASE stack = CallBlock("namespace") /\ lexer.token # {} /\ StartsNamespace
             /\ lexer = At(1, 1, 1, lexer.token)
    <2>1. LexerAfter(TRUE, Table, lexer) = LexerStart
      BY <1>3 DEF LexerAfter, LexerStart, At
    <2>2. StartsNamespace'
      BY <1>2, <1>3 DEF StartsNamespace
    <2>3. tree' = {} /\ (stack' = <<>> \/ (/\ Len(stack') = 1 /\ stack'[1].at = <<"namespace", "name">>
                                           /\ lexer' = LexerStart))
      BY <1>1, <1>3, <2>1, FirstToken
    <2> QED
      BY <1>1, <2>2, <2>3 DEF Refused, LexerStart
  <1>4. CASE Len(stack) = 1 /\ stack[1].at = <<"namespace", "name">> /\ StartsNamespace
             /\ lexer = LexerStart
    <2>1. Top.at = <<"namespace", "name">>
      BY <1>4 DEF Top
    <2>2. lexer.token = {}
      BY <1>4 DEF LexerStart, At
    <2>3. Token.type = "Namespace"
      BY <1>1, <1>4, <2>2, LexerFollows DEF TokenOf, StartsNamespace
    <2>4. ASSUME NEW rule \in Rules, Apply(rule)
          PROVE  FALSE
      BY <2>1, <2>3, <2>4, NamespaceDoes DEF Apply
    <2>5. ~MethodEnds
      BY <2>1 DEF MethodEnds
    <2>6. stack' = <<>> /\ tree' = {}
      BY <1>1, <2>4, <2>5 DEF Step, Raise
    <2> QED
      BY <1>1, <2>6 DEF Refused
  <1> QED
    BY <1>1, <1>3, <1>4

(* The program starts with a first parse.                                  *)
LEMMA StartsVerdict == Init => VerdictInv
  <1> SUFFICES ASSUME Init
               PROVE  VerdictInv
    OBVIOUS
  <1>1. phase = "first" /\ first = {} /\ tree = {} /\ lexer = LexerStart /\ stack = Calls(start)
    BY DEF Init
  <1>2. ASSUME start = "namespace"
        PROVE  FirstParse
    <2>1. stack = CallBlock("namespace")
      BY <1>1, <1>2 DEF Calls
    <2>2. Now = Opened
      BY <1>1, <2>1 DEF Now, Opened
    <2>3. stack[1].at[1] = "namespace"
      BY <2>1 DEF CallBlock, Call
    <2> QED
      BY <1>1, <2>2, <2>3, ReachesItself DEF FirstParse
  <1> QED
    BY <1>1, <1>2 DEF VerdictInv

(* Every step of the program keeps to what the first parse was.            *)
LEMMA VerdictInvKept == FrontInv /\ VerdictInv /\ [Next]_vars => VerdictInv'
  <1> SUFFICES ASSUME FrontInv, VerdictInv, [Next]_vars
               PROVE  VerdictInv'
    OBVIOUS
  <1>1. /\ start = "namespace" /\ phase = "first" => FirstParse
        /\ phase = "again" =>
             start = "namespace" /\ \A f \in first : Repeats(f.tree) \/ Refused(f.tree)
    BY DEF VerdictInv
  <1>2. ASSUME ParserStep
        PROVE  VerdictInv'
    <2>1. Step /\ start' = start /\ phase' = phase /\ first' = first
      BY <1>2 DEF ParserStep
    <2>2. start' = "namespace" /\ phase' = "first" => FirstParse'
      BY <1>1, <2>1, FirstParseStep
    <2>3. ASSUME phase' = "again", NEW f \in first'
          PROVE  Repeats(f.tree)' \/ Refused(f.tree)'
      <3>1. Repeats(f.tree) \/ Refused(f.tree)
        BY <1>1, <2>1, <2>3
      <3>2. PICK nodes : nodes = f.tree
        OBVIOUS
      <3>3. Repeats(nodes)' \/ Refused(nodes)'
        BY <2>1, <3>1, <3>2, RepeatsStep, RefusedStep
      <3> QED
        BY <3>2, <3>3
    <2> QED
      BY <1>1, <2>1, <2>2, <2>3 DEF VerdictInv
  <1>3. ASSUME ReadToken \/ PeekAhead
        PROVE  VerdictInv'
    BY <1>1, <1>3 DEF ReadToken, PeekAhead, VerdictInv
  <1>4. ASSUME ParseAgain
        PROVE  VerdictInv'
    <2>1. /\ start = "namespace" /\ phase = "first" /\ stack = <<>> /\ FirstParse
          /\ phase' = "again" /\ start' = start /\ first' = {Outcome} /\ data' = data
          /\ lexer' = At(1, 1, 1, lexer.token) /\ stack' = CallBlock("namespace") /\ tree' = {}
      BY <1>1, <1>4 DEF ParseAgain, Parsing, Reset, Restarted, Calls
    <2>2. Table' = Table
      BY <2>1, TableStays
    <2>3. CASE lexer.token = {}
      <3>1. Now' = Opened /\ Opened' = Opened
        BY <2>1, <2>3 DEF Now, Opened, LexerStart
      <3>2. PICK table, from, to : table = Table /\ from = Opened /\ to = Now
        OBVIOUS
      <3>3. Reaches(table, from, to) /\ to.stack = <<>> /\ to.tree = tree
        BY <2>1, <3>2 DEF FirstParse, Now, Parse
      <3>4. Reaches(table, from, from)
        BY ReachesItself
      <3>5. PICK nodes : nodes = tree
        OBVIOUS
      <3>6. Repeats(nodes)'
        BY <2>2, <3>1, <3>2, <3>3, <3>4, <3>5 DEF Repeats
      <3>7. \A f \in first' : f.tree = nodes
        BY <2>1, <3>5 DEF Outcome
      <3> QED
        BY <2>1, <3>6, <3>7 DEF VerdictInv
    <2>4. CASE lexer.token # {}
      <3>1. tree = {} /\ StartsNamespace
        <4>1. CallBlock("namespace") # <<>>
          BY CallsAre
        <4>2. Now # Opened
          BY <2>1, <4>1 DEF Now, Opened, Parse
        <4> QED
          BY <2>1, <2>4, <4>2 DEF FirstParse
      <3>2. lexer' = At(1, 1, 1, lexer'.token) /\ lexer'.token # {}
        BY <2>1, <2>4 DEF At
      <3>3. StartsNamespace'
        BY <2>2, <3>1 DEF StartsNamespace, LexerStart
      <3>4. Refused({})'
        BY <2>1, <3>2, <3>3 DEF Refused
      <3>5. \A f \in first' : f.tree = {}
        BY <2>1, <3>1 DEF Outcome
      <3> QED
        BY <2>1, <3>4, <3>5 DEF VerdictInv
    <2> QED
      BY <2>3, <2>4
  <1>5. ASSUME ParsePrinted
        PROVE  VerdictInv'
    BY <1>5 DEF ParsePrinted, VerdictInv
  <1>6. ASSUME UNCHANGED vars
        PROVE  VerdictInv'
    <2>1. /\ start' = start /\ stack' = stack /\ tree' = tree /\ lexer' = lexer /\ data' = data
          /\ phase' = phase /\ first' = first
      BY <1>6 DEF vars, lexerVars, parserVars
    <2>2. Table' = Table /\ Now' = Now /\ Opened' = Opened
      BY <2>1, TableStays DEF Now, Opened, LexerStart
    <2> QED
      BY <1>1, <2>1, <2>2 DEF VerdictInv, FirstParse, Repeats, Refused, StartsNamespace, LexerStart
  <1> QED
    BY <1>2, <1>3, <1>4, <1>5, <1>6 DEF Next

(* For every text, the second parse() of a parser returns the tree that    *)
(* the first one did, or refuses the text that the first one refused.      *)
THEOREM VerdictsAreTheSame == Spec /\ []Prints => []SameVerdict
  <1>1. Init => VerdictInv
    BY StartsVerdict
  <1>2. FrontInv /\ VerdictInv /\ [Next]_vars => VerdictInv'
    BY VerdictInvKept
  <1>3. VerdictInv => SameVerdict
    BY VerdictIs
  <1> QED
    BY <1>1, <1>2, <1>3, AlwaysInPlace, PTL DEF Spec

===============================================================================
