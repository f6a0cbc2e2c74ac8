------------------------------ MODULE MCFrontEnd ------------------------------
(* An instance of FrontEnd for TLC.  Keywords and names are words of one   *)
(* character.  The texts to lex are all the short ones over a few          *)
(* characters; the texts to parse are a few idls, and all that one edit of *)
(* a token makes of them.                                                  *)
EXTENDS PrettyPrinter

MCSpace == {" "}
MCOtherSpace == {"\f"}
MCSeparators ==
    [c \in {"{", "}", "(", ")", "<", ">", ",", ";"} |->
        CASE c = "{" -> "LBrack"   [] c = "}" -> "RBrack"
          [] c = "(" -> "LParen"   [] c = ")" -> "RParen"
          [] c = "<" -> "LGeneric" [] c = ">" -> "RGeneric"
          [] c = "," -> "Comma"    [] c = ";" -> "Semicolon"]
MCKeywords ==
    [w \in {<<"n">>, <<"s">>, <<"i">>} |->
        IF w = <<"n">> THEN "Namespace" ELSE IF w = <<"s">> THEN "Struct" ELSE "Interface"]

Lexemes == {"n", "s", "i", "a", "{", "}", "(", ")", "<", ">", ",", ";", "->"}

Lexed == UNION {[1..n -> {"a", "n", " ", "\n", "\f", "#", "-", ">"}] : n \in 0..4}

TypeTokens == <<"a", "<", "b", "<", "a", ",", "b", ">", ">", ";">>
MethodTokens == <<"a", "(", "a", "a", ",", "a", "<", ">", "b", ")", "->", "(", "b", "b", ")">>
StructTokens == <<"s", "a", "{", "a", "<", "b", ">", "a", ";", "b", "b", ";", "}">>
InterfaceTokens == <<"i", "a", "{", "a", "(", ")", ";", "b", "(", ")", "->", "(", ")", ";", "}">>
NamespaceTokens ==
    <<"n", "a", "{", "s", "b", "{", "a", "b", ";", "}", "n", "b", "{", "}",
      "i", "a", "{", "b", "(", "a", "b", ")", "->", "(", "a", "a", ")", ";", "}", "}">>

Edited(tokens) ==
    {tokens}
    \cup {RemoveAt(tokens, i) : i \in DOMAIN tokens}
    \cup {InsertAt(tokens, i, t) : i \in DOMAIN tokens, t \in Lexemes}
    \cup {ReplaceAt(tokens, i, t) : i \in DOMAIN tokens, t \in Lexemes}

Layout(lexeme) == IF lexeme = "->" THEN <<"-", ">", "#", "a", "\n">> ELSE <<lexeme, " ">>

Text(tokens) == FlattenSeq([i \in DOMAIN tokens |-> Layout(tokens[i])])

Inputs(routine, tokens) == {[start |-> routine, text |-> Text(t)] : t \in Edited(tokens)}

MCInput ==
    {[start |-> "tokens", text |-> t] : t \in Lexed}
    \cup Inputs("type", TypeTokens) \cup Inputs("method", MethodTokens)
    \cup Inputs("struct", StructTokens) \cup Inputs("interface", InterfaceTokens)
    \cup Inputs("namespace", NamespaceTokens)

=============================================================================
