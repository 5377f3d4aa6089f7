------------------------------- MODULE Parser -------------------------------
(***************************************************************************)
(* The recursive descent of the self-hosted compiler                       *)
(* (selfhost/src/frontend/parser.c) over a sequence of tokens.  Every      *)
(* operator maps the parser to the parser behind what it read; the tree it *)
(* built is in node.  An index of 0 is the invalid one, and an object of   *)
(* the struct 0 is not a structure.                                        *)
(*                                                                         *)
(* Fixed capacities of the tables are not modelled.  A failed parse is     *)
(* only known by error; what the code reads after it is not.               *)
(***************************************************************************)
EXTENDS Lexer, SyntaxTree

\* What an object's type is reduced to; size 0 is no type.
Type(size, element) ==
    [size |-> size, element |-> element, struct |-> 0, pointer |-> FALSE, boolean |-> FALSE]

NoType == Type(0, 4)

NewParser(tokens) ==
    [tokens |-> tokens, at |-> 1, node |-> Nil, first |-> <<>>, error |-> FALSE,
     base |-> 0, frame |-> 0, depth |-> 0, type |-> NoType, returnsBoolean |-> FALSE,
     locals |-> <<>>, functions |-> <<>>, globals |-> <<>>, constants |-> <<>>,
     aliases |-> <<>>, enums |-> <<>>, structs |-> <<>>, members |-> <<>>,
     dimensions |-> <<>>, shape |-> <<>>, value |-> 0, data |-> <<>>,
     main |-> 0, called |-> {}, used |-> {}]

Kind(p) == p.tokens[p.at].kind
Text(p) == p.tokens[p.at].text
Next1(p) == [p EXCEPT !.at = IF @ < Len(p.tokens) THEN @ + 1 ELSE @]
Reject(p) == [p EXCEPT !.error = TRUE, !.node = Nil]
RejectIf(p, condition) == IF condition THEN [p EXCEPT !.error = TRUE] ELSE p
Take(p, kind) == IF Kind(p) = kind THEN Next1(p) ELSE [p EXCEPT !.error = TRUE]
TakeAll(p, kinds) == FoldLeft(Take, p, kinds)
NoNode(p) == [p EXCEPT !.node = Nil]

\* dyn_new_node; the back end looks at the first two that were made.
Make(p, n) ==
    [p EXCEPT !.node = n, !.first = IF Len(@) < 2 THEN Append(@, n) ELSE @]

IsArrayOrPointer(symbol) == symbol.pointer \/ symbol.array
IsPlainBoolean(symbol) == symbol.boolean /\ ~IsArrayOrPointer(symbol)

\* A node for a local or a global has its dimensions and its normalization.
Name(kind, i, symbol) ==
    [Leaf(kind, i) EXCEPT !.dims = symbol.dims, !.bool = IsPlainBoolean(symbol)]

\* The newest entry of a table with this name that is still visible.
FindActive(table, name) ==
    SelectLastInSeq(table, LAMBDA entry : entry.active /\ entry.name = name)

FindLocal(p, name) ==
    SelectLastInSubSeq(p.locals, p.base + 1, Len(p.locals),
        LAMBDA l : l.active /\ l.depth <= p.depth /\ l.name = name)

FindStruct(p, name) == SelectLastInSeq(p.structs, LAMBDA s : s.name = name)
FindGlobal(p, name) == SelectLastInSeq(p.globals, LAMBDA g : g.defined /\ g.name = name)

FindMember(p, struct, name) ==
    LET s == p.structs[struct]
    IN  SelectInSubSeq(p.members, s.start + 1, s.start + s.count, LAMBDA m : m.name = name)

InWords(bytes) == ((bytes + 3) \div 4) * 4

\* The current token names a new local of the parser's type.
AddLocal(p) ==
    LET type     == p.type
        previous == FindLocal(p, Text(p))
        isObject == type.struct # 0 /\ ~type.pointer
        frame    == p.frame + (IF isObject THEN InWords(type.size) ELSE 4)
        local    == [name |-> Text(p), size |-> type.size, element |-> type.element,
                     offset |-> frame, array |-> FALSE, pointer |-> type.pointer,
                     boolean |-> type.boolean, struct |-> type.struct, dims |-> <<>>,
                     total |-> Nil, vla |-> FALSE, depth |-> p.depth, active |-> TRUE,
                     static |-> 0]
    IN  RejectIf([p EXCEPT !.frame = frame, !.locals = Append(@, local)],
                 previous # 0 /\ p.locals[previous].depth = p.depth)

-----------------------------------------------------------------------------
(***************************************************************************)
(* Types.                                                                  *)
(***************************************************************************)
Typed(p, type) == [p EXCEPT !.type = type]

\* char, short, int, long, alone or behind signed and unsigned.
SizeOf == [char |-> 1, short |-> 2, int |-> 4, long |-> 4]

\* dyn_scalar_type: the size is 0 when no type is there.
ScalarType(q) ==
    LET p     == IF Kind(q) = "const" THEN Next1(q) ELSE q
        after == Next1(p)
        plain(size, behind) == Typed(behind, Type(size, size))
        s     == FindStruct(after, Text(after))
        alias == FindActive(p.aliases, Text(p))
    IN  CASE Kind(p) = "struct" ->
                IF Kind(after) # "identifier" \/ s = 0 THEN Typed(after, NoType)
                ELSE Typed(Next1(after),
                           [Type(p.structs[s].size, p.structs[s].size) EXCEPT !.struct = s])
          [] Kind(p) = "enum" ->
                IF Kind(after) # "identifier" \/ FindActive(p.enums, Text(after)) = 0
                THEN Typed(after, NoType)
                ELSE plain(4, Next1(after))
          [] Kind(p) = "_Bool" -> Typed(after, [Type(1, 1) EXCEPT !.boolean = TRUE])
          [] Kind(p) \in {"unsigned", "signed"} ->
                IF Kind(after) \in DOMAIN SizeOf
                THEN plain(SizeOf[Kind(after)], Next1(after)) ELSE plain(4, after)
          [] Kind(p) = "short" ->
                plain(2, IF Kind(after) = "int" THEN Next1(after) ELSE after)
          [] Kind(p) \in {"char", "int", "long"} -> plain(SizeOf[Kind(p)], after)
          [] Kind(p) = "void" -> plain(4, after)
          [] Kind(p) = "identifier" /\ alias # 0 -> Typed(after, p.aliases[alias].type)
          [] OTHER -> Typed(p, NoType)

\* The stars of a declarator.
RECURSIVE Stars(_)
Stars(p) ==
    IF Kind(p) # "*" THEN p
    ELSE Stars(Typed(Next1(p),
            [p.type EXCEPT !.element = IF p.type.size # 0 THEN p.type.size ELSE 4,
                           !.size = 4, !.pointer = TRUE]))

\* A type and its stars, when a type is there.
TypeName(p) == LET q == ScalarType(p) IN IF q.type.size = 0 THEN q ELSE Stars(q)

IsDeclaration(p) ==
    \/ Kind(p) \in {"int", "void", "_Bool", "unsigned", "signed", "char", "short",
                    "long", "const", "struct", "enum"}
    \/ Kind(p) = "identifier" /\ FindActive(p.aliases, Text(p)) # 0

\* What the declaration of a structure or an enumeration begins with.
KindsFrom(p, n) ==
    [i \in 1 .. n |-> LET j == p.at + i - 1
                      IN  IF j <= Len(p.tokens) THEN p.tokens[j].kind ELSE "eof"]

IsEnumDefinition(p) ==
    KindsFrom(p, 2) = <<"enum", "{">> \/ KindsFrom(p, 3) = <<"enum", "identifier", "{">>

IsStructDefinition(p) == KindsFrom(p, 3) = <<"struct", "identifier", "{">>
IsStructForward(p) == KindsFrom(p, 3) = <<"struct", "identifier", ";">>

-----------------------------------------------------------------------------
(***************************************************************************)
(* What a tree says about the place it stands for.                         *)
(***************************************************************************)
IsGlobal(n) == n.kind = "global" /\ n.name = ""

Symbol(p, n) ==
    CASE n.kind = "local"  -> p.locals[n.value]
      [] n.kind = "global" -> p.globals[n.value]
      [] n.kind = "member" -> p.members[n.value]

IsSymbol(n) == n.kind \in {"local", "member"} \/ IsGlobal(n)

RECURSIVE NodeStruct(_, _)
NodeStruct(p, n) ==
    CASE IsSymbol(n) -> Symbol(p, n).struct
      [] n.kind \in {"dereference", "subscript", "cast"} -> n.struct
      [] n.kind = "address" -> NodeStruct(p, n.left)
      [] OTHER -> 0

RECURSIVE NodePointer(_, _)
NodePointer(p, n) ==
    CASE IsSymbol(n)          -> IsArrayOrPointer(Symbol(p, n))
      [] n.kind = "address"   -> TRUE
      [] n.kind \in {"cast", "subscript"} -> n.dims # <<>>
      [] n.kind = "add"       -> NodePointer(p, n.left) \/ NodePointer(p, n.right)
      [] n.kind = "subtract"  -> NodePointer(p, n.left)
      [] OTHER -> FALSE

RECURSIVE PointeeBoolean(_, _)
PointeeBoolean(p, n) ==
    CASE IsSymbol(n)        -> Symbol(p, n).boolean
      [] n.kind = "cast"    -> n.pointee
      [] n.kind = "address" -> n.left.kind # "nil" /\ n.left.bool
      [] n.kind \in {"add", "subtract"} -> PointeeBoolean(p, n.left)
      [] OTHER -> FALSE

ToBoolean(p, n) == Make(p, [Node("cast", 1, n, Nil) EXCEPT !.bool = TRUE, !.pointee = TRUE])

\* The place behind one more subscript or star; plain is the size of an
\* element when the operand has no dimensions.
Element(p, operand, kind, subscript, plain) ==
    LET dims == IF operand = Nil THEN <<>> ELSE operand.dims
        rest == IF dims = <<>> THEN <<>> ELSE Tail(dims)
        size == IF dims = <<>> THEN plain ELSE Head(dims).stride
    IN  IF operand = Nil THEN Reject(p)
        ELSE Make(p, [Node(kind, size, operand, subscript) EXCEPT
                        !.struct = NodeStruct(p, operand), !.dims = rest,
                        !.stride = IF dims = <<>> THEN Nil ELSE Head(dims).node,
                        !.bool = rest = <<>> /\ PointeeBoolean(p, operand)])

-----------------------------------------------------------------------------
(***************************************************************************)
(* Expressions.                                                            *)
(***************************************************************************)
RECURSIVE ParseExpression(_), ParseAssignment(_), ParseConditional(_), ParseUnary(_)

ParseNumber(p) == Make(Next1(p), Number(p.tokens[p.at].value))

ParseParenthesized(p) == Take(ParseExpression(Next1(p)), ")")

ParseInput(p) == Make(TakeAll(p, <<"identifier", "(", ")">>), Leaf("input", 0))

ParseOutput(p) ==
    LET q == Take(ParseExpression(TakeAll(p, <<"identifier", "(">>)), ")")
    IN  Make(q, Node("output", 0, q.node, Nil))

\* A list of arguments, each linked to the next one.
RECURSIVE ParseArguments(_)
ParseArguments(p) ==
    IF Kind(p) = ")" \/ p.error THEN NoNode(p)
    ELSE LET q        == ParseAssignment(p)
             item     == Node("argument", 0, q.node, Nil)
             isSecond == Len(q.first) = 1
             made     == Make(q, item)
             rest     == IF Kind(q) = "," THEN ParseArguments(Next1(made)) ELSE NoNode(made)
             linked   == [item EXCEPT !.right = rest.node]
         IN  [rest EXCEPT !.node = linked,
                          !.first = IF isSecond THEN <<@[1], linked>> ELSE @]

\* A call names its function until every function is known.
ParseCall(p) ==
    LET q == Take(ParseArguments(Next1(Next1(p))), ")")
    IN  Make([q EXCEPT !.called = @ \union {Text(p)}],
             [Node("call", 0, q.node, Nil) EXCEPT !.name = Text(p)])

\* A local, then a constant, then a global already known, then one to come.
ParseName(p) ==
    LET local    == FindLocal(p, Text(p))
        constant == FindActive(p.constants, Text(p))
        global   == FindGlobal(p, Text(p))
    IN  CASE local # 0    -> Make(Next1(p), Name("local", local, p.locals[local]))
          [] constant # 0 -> Make(Next1(p), Number(p.constants[constant].value))
          [] global # 0   -> Make(Next1(p), Name("global", global, p.globals[global]))
          [] OTHER        -> Make(Next1([p EXCEPT !.used = @ \union {Text(p)}]),
                                  [Leaf("global", 0) EXCEPT !.name = Text(p)])

\* The characters of a string token; \0 is the digit, unlike in a character.
StringBytes(text) ==
    LET at == QuotedPositions(text, 2, "\"")
        code(i) == IF At(text, i) # "\\" THEN Code[At(text, i)]
                   ELSE IF At(text, i + 1) = "0" THEN Code["0"]
                   ELSE EscapedCharacter(At(text, i + 1))
    IN  [k \in 1 .. Len(at) - 1 |-> code(at[k]) % Byte]

RECURSIVE StringTokens(_)
StringTokens(p) ==
    IF Kind(p) # "string" THEN <<>> ELSE StringBytes(Text(p)) \o StringTokens(Next1(p))

GlobalObject(name, type, count, array) ==
    [name |-> name, size |-> type.size, element |-> type.element, count |-> count,
     initial |-> 0, init |-> Nil, array |-> array, pointer |-> type.pointer,
     boolean |-> type.boolean, struct |-> 0, dims |-> <<>>, defined |-> TRUE,
     data |-> <<>>]

\* Adjacent strings are one array without a name.
RECURSIVE PastStrings(_)
PastStrings(p) == IF Kind(p) = "string" THEN PastStrings(Next1(p)) ELSE p

ParseString(p) ==
    LET bytes  == Append(StringTokens(p), 0)
        global == [GlobalObject("", Type(1, 1), Len(bytes), TRUE) EXCEPT !.data = bytes]
    IN  Make(PastStrings([p EXCEPT !.globals = Append(@, global)]),
             Name("global", Len(p.globals) + 1, global))

ParsePrimary(p) ==
    CASE Kind(p) = "string"            -> ParseString(p)
      [] Kind(p) \in {"number", "char"} -> ParseNumber(p)
      [] Kind(p) = "("                 -> ParseParenthesized(p)
      [] Kind(p) \notin {"identifier", "main"} -> Reject(p)
      [] Kind(Next1(p)) # "("          -> ParseName(p)
      [] Text(p) = "input"             -> ParseInput(p)
      [] Text(p) = "output"            -> ParseOutput(p)
      [] OTHER                         -> ParseCall(p)

ParseSubscript(p) ==
    LET operand == p.node
        plain   == IF IsSymbol(operand) THEN Symbol(p, operand).element ELSE 4
        q       == Take(ParseExpression(Next1(p)), "]")
    IN  Element(q, operand, "subscript", q.node, plain)

ParseMember(p) ==
    LET operand == p.node
        arrow   == Kind(p) = "->"
        struct  == NodeStruct(p, operand)
        q       == Next1(p)
        member  == IF struct = 0 THEN 0 ELSE FindMember(p, struct, Text(q))
    IN  IF arrow # NodePointer(p, operand) \/ Kind(q) # "identifier" \/ member = 0
        THEN Reject(p)
        ELSE Make(Next1(q), [Name("member", member, p.members[member]) EXCEPT
                                !.left = operand, !.arrow = arrow])

RECURSIVE PostfixTail(_), PostIncrements(_)
PostfixTail(p) ==
    CASE p.error            -> p
      [] Kind(p) = "["      -> PostfixTail(ParseSubscript(p))
      [] Kind(p) \in {".", "->"} -> PostfixTail(ParseMember(p))
      [] OTHER              -> p

PostIncrements(p) ==
    CASE Kind(p) \notin {"++", "--"} -> p
      [] p.node.kind # "local" -> Reject(Next1(p))
      [] OTHER -> PostIncrements(Make(Next1(p),
                    Node("postincrement", Truth(Kind(p) = "++"), p.node, Nil)))

ParsePostfix(p) == PostIncrements(PostfixTail(ParsePrimary(p)))

\* sizeof an expression looks only at the outermost node of its tree.
SizeOfOperand(p, n) ==
    CASE n.kind = "local" /\ p.locals[n.value].vla /\ ~p.locals[n.value].pointer ->
            p.locals[n.value].total
      [] n.kind = "local" -> Number(p.locals[n.value].size)
      [] n.kind \in {"dereference", "subscript"} /\ n.value = 0 /\ n.stride # Nil -> n.stride
      [] n.kind \in {"dereference", "subscript"} -> Number(n.value)
      [] OTHER -> Number(4)

ParseSizeof(p) ==
    LET type == TypeName(Next1(p))
        q    == ParseUnary(p)
        size == SizeOfOperand(q, q.node)
    IN  CASE Kind(p) = "(" /\ type.type.size # 0 /\ Kind(type) = ")" ->
                Make(Next1(type), Number(type.type.size))
          [] size.kind = "number" -> Make(q, size)
          [] OTHER -> [q EXCEPT !.node = size]

\* A cast to a pointer is taken to have the first of all dimensions.
ParseCast(p, type) ==
    LET q     == ParseUnary(Next1(p))
        first == IF p.dimensions = <<>> THEN [stride |-> 0, node |-> Nil]
                 ELSE p.dimensions[1]
    IN  Make(q, [Node("cast", type.element, q.node, Nil) EXCEPT
                    !.struct = type.struct, !.dims = IF type.pointer THEN <<first>> ELSE <<>>,
                    !.bool = type.boolean /\ ~type.pointer, !.pointee = type.boolean])

ParseDereference(p) ==
    LET q == ParseUnary(p)
    IN  Element(q, q.node, "dereference", Nil,
                IF q.node.kind = "local" THEN q.locals[q.node.value].element ELSE 4)

\* ++x is x = x + 1.
ParseIncrement(p, kind) ==
    LET q   == ParseUnary(p)
        one == Make(q, Number(1))
        sum == Make(one, Node(kind, 0, q.node, one.node))
    IN  IF q.node.kind # "local" THEN Reject(q)
        ELSE Make(sum, Node("assign", 0, q.node, sum.node))

Unaries ==
    "+" :> "positive" @@ "-" :> "negative" @@ "~" :> "not" @@ "!" :> "logicalnot"
    @@ "&" :> "address"

ParseUnary(p) ==
    LET type == TypeName(Next1(p))
        q    == ParseUnary(Next1(p))
    IN  CASE Kind(p) = "sizeof" -> ParseSizeof(Next1(p))
          [] Kind(p) = "(" /\ type.type.size # 0 /\ Kind(type) = ")" ->
                ParseCast(type, type.type)
          [] Kind(p) \in DOMAIN Unaries ->
                Make(q, Node(Unaries[Kind(p)], 0, q.node, Nil))
          [] Kind(p) = "*"  -> ParseDereference(Next1(p))
          [] Kind(p) = "++" -> ParseIncrement(Next1(p), "add")
          [] Kind(p) = "--" -> ParseIncrement(Next1(p), "subtract")
          [] OTHER -> ParsePostfix(p)

\* The binary operators, the loosest first.
Levels ==
    <<("||" :> "logicalor"), ("&&" :> "logicaland"), ("|" :> "or"), ("^" :> "xor"),
      ("&" :> "and"), ("==" :> "equal" @@ "!=" :> "notequal"),
      ("<" :> "less" @@ ">" :> "greater" @@ "<=" :> "lessequal" @@ ">=" :> "greaterequal"),
      ("<<" :> "lshift" @@ ">>" :> "rshift"), ("+" :> "add" @@ "-" :> "subtract"),
      ("*" :> "multiply" @@ "/" :> "divide" @@ "%" :> "remainder")>>

RECURSIVE ParseBinary(_, _), BinaryTail(_, _, _)

\* An operand and every operator behind it down to the level lowest, the
\* tightest ones first.
ParseBinary(p, lowest) == BinaryTail(ParseUnary(p), Len(Levels), lowest)

BinaryTail(p, level, lowest) ==
    LET right == ParseBinary(Next1(p), level + 1)
        made  == Make(right, Node(Levels[level][Kind(p)], 0, p.node, right.node))
    IN  CASE level < lowest -> p
          [] Kind(p) \notin DOMAIN Levels[level] -> BinaryTail(p, level - 1, lowest)
          [] OTHER -> BinaryTail(made, level, lowest)

ParseConditional(p) ==
    LET condition == ParseBinary(p, 1)
        true      == Take(ParseExpression(Next1(condition)), ":")
        false     == ParseConditional(true)
    IN  IF Kind(condition) # "?" THEN condition
        ELSE Make(false, [Node("conditional", 0, true.node, false.node) EXCEPT
                            !.cond = condition.node])

Assignments ==
    "=" :> "" @@ "+=" :> "add" @@ "-=" :> "subtract" @@ "*=" :> "multiply"
    @@ "/=" :> "divide" @@ "%=" :> "remainder" @@ "&=" :> "and" @@ "|=" :> "or"
    @@ "^=" :> "xor" @@ "<<=" :> "lshift" @@ ">>=" :> "rshift"

Places == {"local", "global", "dereference", "subscript", "member"}

\* Slip: a structure may be assigned as a whole.
AssignablePlace(p, n) == n.kind \in Places /\ n.dims = <<>>

\* Neither a whole structure nor an array can be assigned.
Assignable(p, n) ==
    /\ n.kind \in Places
    /\ NodeStruct(p, n) # 0 => NodePointer(p, n)
    /\ n.dims = <<>>

\* a op= b is a = a op b, with the tree of a twice.
ParseAssignment(p) ==
    LET left     == ParseConditional(p)
        right    == ParseAssignment(RejectIf(Next1(left), ~Assignable(left, left.node)))
        combined == IF Assignments[Kind(left)] = "" THEN right
                    ELSE Make(right, Node(Assignments[Kind(left)], 0, left.node, right.node))
        stored   == IF left.node.kind # "nil" /\ left.node.bool
                    THEN ToBoolean(combined, combined.node) ELSE combined
    IN  IF Kind(left) \notin DOMAIN Assignments THEN left
        ELSE Make(stored, Node("assign", 0, left.node, stored.node))

RECURSIVE CommaTail(_)
CommaTail(p) ==
    IF Kind(p) # "," THEN p
    ELSE LET right == ParseAssignment(Next1(p))
         IN  CommaTail(Make(right, Node("comma", 0, p.node, right.node)))

ParseExpression(p) == CommaTail(ParseAssignment(p))
=============================================================================
