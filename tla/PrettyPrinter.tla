---------------------------- MODULE PrettyPrinter ----------------------------
(***************************************************************************)
(* sidl's PrettyPrinter and IndentedWriter (sidl/sidl/utils.py): the text  *)
(* of a node of the syntax tree, as characters.  A line starts with its    *)
(* level's indentation.  Only the name of a type is printed, without its   *)
(* generics.                                                               *)
(***************************************************************************)
EXTENDS FrontEnd

CONSTANT Indentation   \* blanks for each level

ASSUME IndentationAssumption == Indentation \in Nat

(* A separator or a keyword by its type, as the printer spells it.         *)
Separator(type) == <<CHOOSE c \in DOMAIN Separators : Separators[c] = type>>
KeywordOf(type) == CHOOSE word \in DOMAIN Keywords : Keywords[word] = type
Blank == <<" ">>

Comma == Separator("Comma") \o Blank
Line(text) == Append(text, Newline)
Indent(level) == [i \in 1..level * Indentation |-> " "]

Kind(kind) == IF kind = "struct" THEN "Struct"
              ELSE IF kind = "interface" THEN "Interface" ELSE "Namespace"

RECURSIVE Printed(_, _)

(* visit_Method's loops over arguments and return values.                  *)
PrintedPack(pack) ==
    LET text == [i \in DOMAIN pack.kids |->
                   IF i = Len(pack.kids) THEN Printed(pack.kids[i], 0)
                                         ELSE Printed(pack.kids[i], 0) \o Comma]
    IN  Separator("LParen") \o FlattenSeq(text) \o Separator("RParen")

SignatureWithoutEmptyReturns(m) ==   \* mutant: () is not printed
    m.value \o PrintedPack(m.kids[1])
      \o (IF Len(m.kids) = 1 \/ m.kids[2].kids = <<>> THEN <<>>
          ELSE <<" ", Dash, Greater, " ">> \o PrintedPack(m.kids[2]))

PrintedSignature(m) ==
    m.value \o PrintedPack(m.kids[1])
      \o (IF Len(m.kids) = 1 THEN <<>> ELSE <<" ", Dash, Greater, " ">> \o PrintedPack(m.kids[2]))

PrintedMethod(m) == Line(PrintedSignature(m) \o Separator("Semicolon"))

(* The members of a struct, an interface or a namespace; a struct's fields *)
(* end in a semicolon.                                                     *)
PrintedMember(block, node, level) ==
    Indent(level) \o Printed(node, level)
      \o (IF block.kind = "struct" THEN Line(Separator("Semicolon")) ELSE <<>>)

PrintedBlock(block, level) ==
    KeywordOf(Kind(block.kind)) \o Blank \o block.value \o Blank \o Separator("LBrack")
      \o (IF block.kids = <<>> THEN <<>>
          ELSE <<Newline>>
                 \o FlattenSeq([i \in DOMAIN block.kids |->
                                  PrintedMember(block, block.kids[i], level + 1)])
                 \o Indent(level))
      \o Line(Separator("RBrack"))

Printed(node, level) ==
    CASE node.kind = "type"     -> node.value
      [] node.kind = "variable" -> Printed(node.kids[1], level) \o Blank \o node.value
      [] node.kind = "method"   -> PrintedMethod(node)
      [] OTHER                  -> PrintedBlock(node, level)

PrintedText(node) == Printed(node, 0)

-----------------------------------------------------------------------------

RECURSIVE WithoutGenerics(_)
WithoutGenerics(node) ==
    [node EXCEPT !.kids = IF node.kind = "type" THEN <<>>
                          ELSE [i \in DOMAIN @ |-> WithoutGenerics(@[i])]]

(* The printer writes text for every tree that a parse returns, and what   *)
(* it writes is read back as the tree it was printed from, but for the     *)
(* generics that visit_Type does not print.  A type alone is printed       *)
(* without the token that must follow it.                                  *)
PrintedIsReadBack ==
    /\ Prints
    /\ \A f \in first :
         phase = "printed" /\ ~Parsing /\ start # "type"
             => error = {} /\ tree = {WithoutGenerics(node) : node \in f.tree}

=============================================================================
