------------------------------- MODULE FrontEnd -------------------------------
(***************************************************************************)
(* Programs that use sidl's lexer, parser and printer, as sidlcc.py and    *)
(* test_sidl.py do: one reads the tokens of a text, with peek() between    *)
(* the calls of next() or not; another parses a text, from parse() or from *)
(* one of the other parse_ methods, and then parses it again with the same *)
(* parser, or prints the tree and parses the text printed.                 *)
(***************************************************************************)
EXTENDS Parser, SequencesExt

CONSTANTS Input,       \* what is read, [start, text]: a parse_ method, or "tokens"
          TextOf(_)    \* what the printer writes for a tree

(* The parser's parse_ methods that programs call, or no parser.           *)
Starts == {"tokens", "type", "method", "struct", "interface", "namespace"}

ASSUME InputAssumption ==
    \A input \in Input : input.start \in Starts /\ input.text \in Seq(STRING)

VARIABLES start,    \* where the parser starts
          phase,    \* "first", or what the program does after it: "again", "printed"
          first     \* how the first parse ended (history)

vars == <<lexerVars, parserVars, start, phase, first>>

Calls(routine) ==
    CASE routine = "tokens" -> <<>>
      [] routine = "type"   -> CallType
      [] routine = "method" -> CallMethod
      [] OTHER              -> CallBlock(routine)

Init ==
    /\ \E input \in Input : start = input.start /\ data = input.text
    /\ lexer = LexerStart
    /\ read = <<>> /\ scans = <<>> /\ stale = 0
    /\ stack = Calls(start)
    /\ tree = {}
    /\ error = {}
    /\ phase = "first"
    /\ first = {}

Parsing == stack # <<>>
Outcome == [tree |-> tree, error |-> error]

ParserStep ==
    /\ Step
    /\ UNCHANGED <<start, phase, first>>

ReadToken ==
    /\ start = "tokens"
    /\ Token.type # "Eof"
    /\ NextToken
    /\ UNCHANGED <<parserVars, start, phase, first>>

PeekAhead ==
    /\ start = "tokens"
    /\ PeekToken
    /\ UNCHANGED <<parserVars, start, phase, first>>

(* parse() resets the lexer; the other methods go on from where it is.     *)
ParseAgain ==
    /\ start = "namespace" /\ phase = "first" /\ ~Parsing
    /\ phase' = "again"
    /\ first' = {Outcome}
    /\ Reset
    /\ stack' = Calls(start)
    /\ tree' = {}
    /\ error' = {}
    /\ UNCHANGED start

ParsePrinted ==
    /\ start # "tokens" /\ phase = "first" /\ tree # {}
    /\ phase' = "printed"
    /\ first' = {Outcome}
    /\ \E node \in tree : Opens(TextOf(node))
    /\ stack' = Calls(start)
    /\ tree' = {}
    /\ UNCHANGED <<start, error>>

Next == ParserStep \/ ReadToken \/ PeekAhead \/ ParseAgain \/ ParsePrinted

(* next() always gets on, so a parse ends if its thread runs.              *)
Spec == Init /\ [][Next]_vars /\ WF_vars(ParserStep)

-----------------------------------------------------------------------------

(* What is left of a text when it is parsed: the types of its tokens, with *)
(* the symbols' names, but for the commas, which the parser does not ask   *)
(* for between variables, and the empty brackets that a type may have      *)
(* (parse_type's "T or T<>").                                              *)
Mark(type) == <<type, <<>>>>
Name(value) == <<"Symbol", value>>

Said(token) == IF token.type = "Symbol" THEN Name(token.value) ELSE Mark(token.type)

EmptyBrackets(tokens) ==
    {i \in DOMAIN tokens : /\ i < Len(tokens)
                           /\ tokens[i].type = "LGeneric"
                           /\ tokens[i + 1].type = "RGeneric"}

Kept(tokens) ==
    LET empty == EmptyBrackets(tokens)
        dropped == {i \in DOMAIN tokens : tokens[i].type = "Comma"}
                     \cup empty \cup {i + 1 : i \in empty}
    IN  FlattenSeq([i \in DOMAIN tokens |->
                      IF i \in dropped THEN <<>> ELSE <<Said(tokens[i])>>])

(* What a node stands for: what comes before its kids, what each of them   *)
(* stands for, with what comes before or after the i-th, and the end.      *)
Keyword(kind) ==
    Mark(IF kind = "struct" THEN "Struct" ELSE IF kind = "interface" THEN "Interface" ELSE "Namespace")

Opening(node) ==
    CASE node.kind = "type" -> <<Name(node.value)>>
                                 \o (IF node.kids = <<>> THEN <<>> ELSE <<Mark("LGeneric")>>)
      [] node.kind = "variable" -> <<>>
      [] node.kind \in {"arguments", "returns"} -> <<Mark("LParen")>>
      [] node.kind = "method" -> <<Name(node.value)>>
      [] OTHER -> <<Keyword(node.kind), Name(node.value), Mark("LBrack")>>

Closing(node) ==
    CASE node.kind = "type" -> IF node.kids = <<>> THEN <<>> ELSE <<Mark("RGeneric")>>
      [] node.kind = "variable" -> <<Name(node.value)>>
      [] node.kind \in {"arguments", "returns"} -> <<Mark("RParen")>>
      [] node.kind = "method" -> <<>>
      [] OTHER -> <<Mark("RBrack")>>

Before(kind, i) == IF kind = "method" /\ i = 2 THEN <<Mark("Arrow")>> ELSE <<>>
After(kind) == IF kind \in {"struct", "interface"} THEN <<Mark("Semicolon")>> ELSE <<>>

Parts(node, yield) ==
    FlattenSeq([i \in DOMAIN node.kids |->
                  Before(node.kind, i) \o yield[node.kids[i]] \o After(node.kind)])

NodesOver(kids) ==
    [kind : {"type", "variable", "arguments", "returns", "method", "struct", "interface", "namespace"},
     value : Seq(STRING), kids : Seq(kids)]

OneMore(yield) ==
    [node \in NodesOver(DOMAIN yield) |-> Opening(node) \o Parts(node, yield) \o Closing(node)]

(* Of all trees of at most n levels.                                       *)
Yield[n \in Nat] == IF n = 0 THEN <<>> ELSE OneMore(Yield[n - 1])

(* Tokens that make a tree: no call is made for nothing, and few at once.  *)
Height(tokens) == 2 * Len(tokens) + 3

(* A parse that succeeds has put every token it took in its place in the   *)
(* tree, and took nothing that is not in the tree: no variable, type       *)
(* argument, return list or declaration is lost or moved by the look-ahead. *)
TreeIsTheText == \A node \in tree : Kept(read) = Yield[Height(read)][node]

(* The parser can be used again: after parse() has returned a tree it      *)
(* returns the same tree; and after it has refused a text, it refuses it   *)
(* again, although the token it had peeked then comes before the text.     *)
SameVerdict ==
    \A f \in first : phase = "again" /\ ~Parsing => tree = f.tree

(* Every text is accepted or refused in the end: no loop of the parser     *)
(* waits for a token that does not come.                                   *)
ParseEnds == Parsing ~> ~Parsing

(* What the printer writes for the tree of a parse is text.                *)
Prints == \A node \in tree : TextOf(node) \in Seq(STRING)

=============================================================================
