------------------------------- MODULE Parser -------------------------------
(***************************************************************************)
(* sidl's Parser (sidl/sidl/parser.py): recursive descent with one token   *)
(* of look-ahead.  stack holds the calls that have not returned, each with *)
(* the place it has come to and the node it is building; rules say, for    *)
(* each place and type of token, whether the token is taken, which calls   *)
(* are made and where the caller goes on.  A token for which a place has   *)
(* no rule raises an exception there.                                      *)
(***************************************************************************)
EXTENDS Lexer

VARIABLES stack,   \* the calls, innermost last
          tree,    \* what the outermost call returned: a set of at most one node
          error    \* the exception that ended it: a set of at most one

parserVars == <<stack, tree, error>>

(* A node of the syntax tree: type, variable, method, struct, interface or *)
(* namespace; and for a method, its lists of arguments and return values.  *)
Node(kind, value, kids) == [kind |-> kind, value |-> value, kids |-> kids]

Call(routine, place, kind) == [at |-> <<routine, place>>, node |-> Node(kind, <<>>, <<>>)]

CallType == <<Call("type", "name", "type")>>
CallVariable == <<Call("variable", "name", "variable")>> \o CallType
CallPack(kind) == <<Call("pack", "open", kind)>>
CallMethod == <<Call("method", "name", "method")>>
CallBlock(kind) == <<Call(kind, "keyword", kind)>>

Return == "return"

Rule(routine, place, on, take, calls, then) ==
    [at |-> <<routine, place>>, on |-> on, take |-> take, calls |-> calls, then |-> then]

Take(routine, place, on, then) == Rule(routine, place, {on}, TRUE, <<>>, then)

(* Any token but these, and but the end of the text, is left for the calls. *)
Others(routine, place, except, calls, then) ==
    Rule(routine, place, TokenType \ (except \cup {"Eof"}), FALSE, calls, then)

-----------------------------------------------------------------------------
(* Places whose token is read with next(); at all others it is peeked, and *)
(* stays in the lexer if an exception is raised.                           *)
NextPlaces == {"name", "open", "keyword", "semicolon"}

VariableRules == {Take("variable", "name", "Symbol", Return)}

TypeRules ==
    {Take("type", "name", "Symbol", "generics"),
     Take("type", "generics", "LGeneric", "first"),
     Others("type", "generics", {"LGeneric"}, <<>>, Return),
     Take("type", "first", "RGeneric", Return),
     Others("type", "first", {"RGeneric"}, CallType, "after"),
     Take("type", "after", "Comma", "more"),
     Take("type", "after", "RGeneric", Return),
     Others("type", "more", {"RGeneric"}, CallType, "after")}

(* After a variable a comma is taken if there is one; it is not asked for. *)
PackRulesWaiting ==   \* mutants: without a comma the loop does not go on,
    {Take("pack", "open", "LParen", "item"),
     Take("pack", "item", "RParen", Return),
     Others("pack", "item", {"RParen"}, CallVariable, "after"),
     Take("pack", "after", "Comma", "item"),
     Take("pack", "after", "RParen", Return),
     Others("pack", "after", {"Comma", "RParen"}, <<>>, "after")}

PackRulesDropping ==   \* or the next variable is skipped
    {Take("pack", "open", "LParen", "item"),
     Take("pack", "item", "RParen", Return),
     Others("pack", "item", {"RParen"}, CallVariable, "after"),
     Take("pack", "after", "Comma", "item"),
     Take("pack", "after", "RParen", Return),
     Take("pack", "after", "Symbol", "after")}

PackRules ==
    {Take("pack", "open", "LParen", "item"),
     Take("pack", "item", "RParen", Return),
     Others("pack", "item", {"RParen"}, CallVariable, "after"),
     Take("pack", "after", "Comma", "item"),
     Take("pack", "after", "RParen", Return),
     Others("pack", "after", {"Comma", "RParen"}, <<>>, "item")}

(* The end of the text may follow a method's arguments.                    *)
MethodRules ==
    {Rule("method", "name", {"Symbol"}, TRUE, CallPack("arguments"), "arrow"),
     Rule("method", "arrow", {"Arrow"}, TRUE, CallPack("returns"), "end"),
     Rule("method", "arrow", TokenType \ {"Arrow"}, FALSE, <<>>, Return)}

HeadRules(routine, keyword) ==
    {Take(routine, "keyword", keyword, "name"),
     Take(routine, "name", "Symbol", "open"),
     Take(routine, "open", "LBrack", "body"),
     Take(routine, "body", "RBrack", Return)}

StructRules ==
    HeadRules("struct", "Struct") \cup
    {Others("struct", "body", {"RBrack"}, CallVariable, "semicolon"),
     Take("struct", "semicolon", "Semicolon", "body")}

InterfaceRules ==
    HeadRules("interface", "Interface") \cup
    {Others("interface", "body", {"RBrack"}, CallMethod, "semicolon"),
     Take("interface", "semicolon", "Semicolon", "body")}

NamespaceRules ==
    HeadRules("namespace", "Namespace") \cup
    {Rule("namespace", "body", {"Namespace"}, FALSE, CallBlock("namespace"), "body"),
     Rule("namespace", "body", {"Struct"}, FALSE, CallBlock("struct"), "body"),
     Rule("namespace", "body", {"Interface"}, FALSE, CallBlock("interface"), "body")}

Rules == VariableRules \cup TypeRules \cup PackRules \cup MethodRules
           \cup StructRules \cup InterfaceRules \cup NamespaceRules

-----------------------------------------------------------------------------

Top == stack[Len(stack)]
Below == SubSeq(stack, 1, Len(stack) - 1)

(* A call returns its node to its caller, which keeps it with the others;  *)
(* the outermost call returns it to the program.                           *)
Returns(node) ==
    IF Below = <<>> THEN stack' = <<>> /\ tree' = {node}
    ELSE /\ stack' = [Below EXCEPT ![Len(Below)].node.kids = Append(@, node)]
         /\ tree' = tree

Named(rule) ==
    IF rule.at[2] = "name" THEN [Top.node EXCEPT !.value = Token.value] ELSE Top.node

Apply(rule) ==
    /\ stack # <<>>
    /\ rule.at = Top.at
    /\ Token.type \in rule.on
    /\ IF rule.take THEN NextToken ELSE PeekToken
    /\ IF rule.then = Return THEN Returns(Named(rule))
       ELSE /\ stack' = Append(Below, [at |-> <<rule.at[1], rule.then>>, node |-> Named(rule)])
                          \o rule.calls
            /\ tree' = tree
    /\ UNCHANGED error

(* A method returns after its return values without a look at what follows. *)
MethodEnds ==
    /\ stack # <<>>
    /\ Top.at = <<"method", "end">>
    /\ Returns(Top.node)
    /\ UNCHANGED <<lexerVars, error>>

(* Building the message of two exceptions raises another one: position has *)
(* no member kine (line 212), and name_tok no value yet (line 162).        *)
Exception(at) ==
    IF at = <<"interface", "name">> THEN "AttributeError"
    ELSE IF at = <<"struct", "keyword">> THEN "UnboundLocalError" ELSE "SidlException"

Raise ==
    /\ stack # <<>>
    /\ Top.at # <<"method", "end">>
    /\ ~\E rule \in Rules : rule.at = Top.at /\ Token.type \in rule.on
    /\ LET eof == Token.type = "Eof" IN
       error' = {[exception |-> IF eof THEN "SidlException" ELSE Exception(Top.at),
                  eof |-> eof, line |-> Token.line, col |-> Token.col]}
    /\ IF Top.at[2] \in NextPlaces THEN NextToken ELSE PeekToken
    /\ stack' = <<>>
    /\ UNCHANGED tree

Step == (\E rule \in Rules : Apply(rule)) \/ MethodEnds \/ Raise

=============================================================================
