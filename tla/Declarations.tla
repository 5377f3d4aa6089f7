---------------------------- MODULE Declarations ----------------------------
(***************************************************************************)
(* Declarations, statements and the whole translation unit, of the same    *)
(* descent as Parser (selfhost/src/frontend/parser.c from dyn_sequence     *)
(* on).  shape, value and data are what the last dimensions and the last   *)
(* initializer were found to be.                                           *)
(***************************************************************************)
EXTENDS Parser

RoundUp(n, unit) == n + ((-n) % unit)

-----------------------------------------------------------------------------
(***************************************************************************)
(* The dimensions of an array.  A bound that is not constant has the       *)
(* extent 0, and everything outside of it has no size until run time.      *)
(***************************************************************************)
RECURSIVE Bounds(_)
Bounds(p) ==
    LET q      == Take(ParseExpression(Next1(p)), "]")
        extent == Evaluate(q.node)
        bound  == [count |-> IF extent = NotConstant THEN 0 ELSE extent, node |-> q.node]
    IN  IF Kind(p) # "[" THEN p
        ELSE Bounds([RejectIf(q, extent = 0) EXCEPT !.shape = Append(@, bound)])

\* One dimension further out: its stride is what was the total.
Outward(s, bound) ==
    LET total == s.total * bound.count
        made  == Make(s.parser, Node("multiply", 0, s.parser.node, bound.node))
        here  == [stride |-> s.total, node |-> s.parser.node, count |-> bound.count]
    IN  [parser |-> RejectIf(made, total >= Word), total |-> total % Word,
         dims |-> <<here>> \o s.dims]

ParseDimensions(p, size) ==
    LET q == Bounds([p EXCEPT !.shape = <<>>])
        s == FoldLeft(Outward,
                [parser |-> Make(q, Number(size)), total |-> size, dims |-> <<>>],
                Reverse(q.shape))
    IN  [s.parser EXCEPT
            !.shape = [dims |-> s.dims, total |-> s.total, node |-> s.parser.node,
                       variable |-> \E i \in DOMAIN s.dims : s.dims[i].count = 0],
            !.dimensions = @ \o s.dims]

-----------------------------------------------------------------------------
(***************************************************************************)
(* Initializers that have to be known when the program is compiled.        *)
(***************************************************************************)
BigEndian(value, size) == [i \in 1 .. size |-> (value \div Byte ^ (size - i)) % Byte]

\* The items between braces, one after the other whatever the dimensions.
RECURSIVE Items(_, _, _)
Items(p, type, total) ==
    LET q     == ParseAssignment(p)
        value == Evaluate(q.node)
        item  == BigEndian(IF type.boolean THEN Truth(value # 0) ELSE value, type.size)
        r     == [q EXCEPT !.data = @ \o item]
    IN  CASE Kind(p) = "}" \/ p.error -> p
          [] value = NotConstant \/ Len(q.data) >= total -> Reject(q)
          [] Kind(q) = "," -> Items(Next1(r), type, total)
          [] OTHER -> r

Zeros(n) == [i \in 1 .. n |-> 0]

ParseItems(p, type, total) ==
    LET q == Take(Items([Take(p, "{") EXCEPT !.data = <<>>], type, total), "}")
    IN  [q EXCEPT !.data = IF q.error THEN @ ELSE @ \o Zeros(total - Len(@)),
                  !.node = Nil, !.value = 0]

\* A constant, or an object of one of these kinds, whose address is filled in.
ParseInitial(p, type, kinds) ==
    LET q     == ParseAssignment(p)
        value == Evaluate(q.node)
        known == IF value = NotConstant THEN 0 ELSE value
    IN  [RejectIf(q, value = NotConstant /\ q.node.kind \notin kinds) EXCEPT
            !.value = IF type.boolean /\ ~type.pointer THEN Truth(known # 0) ELSE known]

NoInitial(p) == [p EXCEPT !.node = Nil, !.value = 0, !.data = <<>>]

NoShape(type) == [dims |-> <<>>, total |-> type.size, node |-> Nil, variable |-> FALSE]

Sized(p, type) ==
    IF Kind(p) = "[" THEN ParseDimensions(p, type.size) ELSE [p EXCEPT !.shape = NoShape(type)]

\* The object a declaration makes, whose initializer has been read.
Declared(p, name, type, shape) ==
    LET array == shape.dims # <<>>
    IN  [GlobalObject(name, type, IF array THEN shape.dims[1].count ELSE 1, array) EXCEPT
            !.initial = p.value, !.init = p.node, !.data = p.data, !.dims = shape.dims]

-----------------------------------------------------------------------------
(***************************************************************************)
(* Declarations in functions.                                              *)
(***************************************************************************)
Declarator(p) == Stars(ScalarType(p))

IsObject(type) == type.struct # 0 /\ ~type.pointer

(***************************************************************************)
(* A static local is an object of the file under its own name; it has no   *)
(* slot in the frame.                                                      *)
(***************************************************************************)
ParseStatic(p, type) ==
    LET l      == Len(p.locals)
        array  == Kind(p) = "["
        sized  == Sized([p EXCEPT !.frame = @ - 4], type)
        shape  == sized.shape
        shaped == IF array
                  THEN [sized EXCEPT !.locals[l] =
                          [@ EXCEPT !.array = TRUE, !.dims = shape.dims,
                                    !.element = shape.dims[1].stride]]
                  ELSE sized
        empty  == [NoInitial(shaped) EXCEPT !.data = IF array THEN Zeros(shape.total) ELSE <<>>]
        valued == CASE Kind(sized) # "=" -> empty
                    [] array -> ParseItems(Next1(shaped), type, shape.total)
                    [] OTHER -> ParseInitial(Next1([shaped EXCEPT !.data = <<>>]), type,
                                    IF type.pointer THEN {"address", "global", "local"} ELSE {})
        ended  == Take(valued, ";")
    IN  IF IsObject(type) \/ (array /\ (type.pointer \/ shape.variable)) THEN Reject(p)
        ELSE NoNode([ended EXCEPT
                !.globals = Append(@, Declared(ended, p.locals[l].name, type, shape)),
                !.locals[l].static = Len(ended.globals) + 1])

AssignLocal(p, l, value) ==
    LET place == Make(p, Leaf("local", l))
    IN  Make(place, Node("assign", 0, place.node, value))

\* Slip: the slot of an array is that of the scalar it was taken for.
PlaceArrayInSlot(p, l, type, frame) ==
    [p EXCEPT !.locals[l] =
        [@ EXCEPT !.size = type.element, !.element = p.shape.dims[1].stride,
                  !.dims = p.shape.dims, !.total = p.shape.node,
                  !.vla = p.shape.variable, !.array = TRUE]]

\* The slot of an array takes the place of the one a scalar would have.
PlaceArray(p, l, type, frame) ==
    [p EXCEPT !.frame = frame,
              !.locals[l] =
        [@ EXCEPT !.offset = frame, !.size = type.element,
                  !.element = p.shape.dims[1].stride, !.dims = p.shape.dims,
                  !.total = p.shape.node, !.vla = p.shape.variable, !.array = TRUE]]

\* A local without initializer is assigned 0, an array too, at its start.
ParseAutomatic(p, type) ==
    LET l        == Len(p.locals)
        shaped   == ParseDimensions(p, type.size)
        slot     == IF shaped.shape.variable THEN 4 ELSE InWords(shaped.shape.total)
        frame    == p.frame - (IF IsObject(type) THEN InWords(type.size) ELSE 4) + slot
        placed   == IF Kind(p) = "[" THEN PlaceArray(shaped, l, type, frame) ELSE p
        variable == placed.locals[l].vla
        given    == ParseAssignment(RejectIf(Next1(placed), IsObject(type) \/ variable))
        value    == IF type.boolean /\ ~type.pointer THEN ToBoolean(given, given.node) ELSE given
        zero     == Make(placed, Number(0))
        ended    == Take(placed, ";")
    IN  CASE Kind(placed) = "=" -> AssignLocal(Take(value, ";"), l, value.node)
          [] variable -> Make(ended, Node("allocate", l, ended.locals[l].total, Nil))
          [] IsObject(type) -> NoNode(ended)
          [] OTHER -> AssignLocal(Take(zero, ";"), l, zero.node)

ParseDeclaration(p, static) ==
    LET q == Declarator(p)
        r == Next1(AddLocal(q))
    IN  CASE Kind(q) # "identifier" -> Reject(q)
          [] static -> ParseStatic(r, q.type)
          [] OTHER  -> ParseAutomatic(r, q.type)

DefinedHere(p, table, name) ==
    LET i == FindActive(table, name) IN i # 0 /\ table[i].depth = p.depth

\* A typedef, its name being there.
DefineAlias(p, type) ==
    LET alias == [name |-> Text(p), type |-> type, depth |-> p.depth, active |-> TRUE]
    IN  NoNode([Take(RejectIf(Next1(p), DefinedHere(p, p.aliases, Text(p))), ";") EXCEPT
                    !.aliases = Append(@, alias)])

ParseTypedef(p) ==
    LET q == Declarator(Next1(p))
    IN  IF q.type.size = 0 \/ Kind(q) # "identifier" THEN Reject(q) ELSE DefineAlias(q, q.type)

RECURSIVE Enumerators(_, _)
Enumerators(p, next) ==
    LET given == Kind(Next1(p)) = "="
        q     == IF given THEN ParseAssignment(Next1(Next1(p))) ELSE Next1(p)
        value == IF given THEN Evaluate(q.node) ELSE next
        r     == [RejectIf(q, value = NotConstant \/ DefinedHere(p, p.constants, Text(p))) EXCEPT
                    !.constants = Append(@, [name |-> Text(p), value |-> value,
                                             depth |-> p.depth, active |-> TRUE])]
    IN  CASE Kind(p) = "}" \/ p.error  -> p
          [] Kind(p) # "identifier"    -> Reject(p)
          [] Kind(r) = "," -> Enumerators(Next1(r), (value + 1) % Word)
          [] OTHER -> r

ParseEnum(p) ==
    LET q      == Take(p, "enum")
        tag    == [name |-> Text(q), depth |-> p.depth, active |-> TRUE]
        tagged == Next1([RejectIf(q, DefinedHere(p, p.enums, Text(q))) EXCEPT
                            !.enums = Append(@, tag)])
        r      == IF Kind(q) = "identifier" THEN tagged ELSE q
    IN  NoNode(TakeAll(Enumerators(Take(r, "{"), 0), <<"}", ";">>))

-----------------------------------------------------------------------------
(***************************************************************************)
(* Structures, which are of the file.                                      *)
(***************************************************************************)
Structure(p, name, size, alignment, defined) ==
    [name |-> name, size |-> size, alignment |-> alignment,
     start |-> Len(p.members), count |-> 0, defined |-> defined]

ParseForward(p) ==
    LET q == Take(p, "struct")
        r == IF FindStruct(q, Text(q)) # 0 THEN q
             ELSE [q EXCEPT !.structs = Append(@, Structure(q, Text(q), 0, 1, FALSE))]
    IN  Take(Next1(r), ";")

\* Pointers to a structure learn its size when it is complete.
Completed(table, s, size) ==
    [i \in DOMAIN table |->
        IF table[i].pointer /\ table[i].struct = s
        THEN [table[i] EXCEPT !.element = size] ELSE table[i]]

FinishStruct(p, s, size, alignment) ==
    LET own(i) == p.structs[s].start < i
        types  == Completed([i \in DOMAIN p.aliases |-> p.aliases[i].type], s, size)
        members == Completed(p.members, s, size)
    IN  [p EXCEPT
            !.structs[s].size = size, !.structs[s].alignment = alignment,
            !.structs[s].defined = TRUE,
            !.members = [i \in DOMAIN @ |-> IF own(i) THEN members[i] ELSE @[i]],
            !.aliases = [i \in DOMAIN @ |-> [@[i] EXCEPT !.type = types[i]]],
            !.globals = Completed(@, s, size)]

MemberAlignment(p, type) ==
    LET own == CASE type.pointer     -> 4
                 [] type.struct # 0  -> p.structs[type.struct].alignment
                 [] OTHER            -> type.size
    IN  IF own < 4 THEN own ELSE 4

RECURSIVE StructMembers(_, _, _, _)
StructMembers(p, s, offset, alignment) ==
    LET q      == Declarator(p)
        type   == q.type
        sized  == Sized(Next1(q), type)
        shape  == sized.shape
        array  == shape.dims # <<>>
        unit   == MemberAlignment(q, type)
        at     == RoundUp(offset, unit)
        member == [name |-> Text(q), offset |-> at, size |-> type.size,
                   element |-> IF array THEN shape.dims[1].stride ELSE type.element,
                   struct |-> type.struct, dims |-> shape.dims, pointer |-> type.pointer,
                   array |-> array, boolean |-> type.boolean]
        again  == FindMember(p, s, Text(q)) # 0
        next   == [Take(RejectIf(sized, again \/ shape.variable), ";") EXCEPT
                    !.members = Append(@, member), !.structs[s].count = @ + 1]
    IN  CASE Kind(p) = "}" ->
                FinishStruct(TakeAll(p, <<"}", ";">>), s, RoundUp(offset, alignment), alignment)
          [] p.error \/ type.size = 0 \/ Kind(q) # "identifier" -> Reject(q)
          [] OTHER -> StructMembers(next, s, at + (IF array THEN shape.total ELSE type.size),
                                    IF unit > alignment THEN unit ELSE alignment)

ParseStruct(p) ==
    LET q     == Take(p, "struct")
        found == FindStruct(q, Text(q))
        s     == IF found # 0 THEN found ELSE Len(q.structs) + 1
        fresh == Structure(q, Text(q), 0, 1, FALSE)
        r     == [q EXCEPT !.structs = IF found # 0 THEN [@ EXCEPT ![s] = fresh]
                                       ELSE Append(@, fresh)]
    IN  IF found # 0 /\ q.structs[found].defined THEN Reject(q)
        ELSE StructMembers(Take(Next1(r), "{"), s, 0, 1)

-----------------------------------------------------------------------------
(***************************************************************************)
(* Statements.                                                             *)
(***************************************************************************)
RECURSIVE ParseStatement(_)

\* The statements up to a brace, linked behind the node there is.
RECURSIVE StatementsOf(_)
StatementsOf(p) ==
    LET q == ParseStatement(p)
    IN  IF Kind(p) \in {"}", "eof"} \/ p.error THEN p
        ELSE StatementsOf(IF p.node = Nil THEN q
                          ELSE Make(q, Node("sequence", 0, p.node, q.node)))

\* What was declared at this depth is no longer found.
Closed(table, first, depth) ==
    [i \in DOMAIN table |->
        IF i >= first /\ table[i].depth = depth THEN [table[i] EXCEPT !.active = FALSE]
        ELSE table[i]]

CloseBlock(p) ==
    [p EXCEPT !.locals    = Closed(@, p.base + 1, p.depth),
              !.aliases   = Closed(@, 1, p.depth),
              !.enums     = Closed(@, 1, p.depth),
              !.constants = Closed(@, 1, p.depth),
              !.depth     = @ - 1]

ParseBlock(p) ==
    CloseBlock(Take(StatementsOf(NoNode([Next1(p) EXCEPT !.depth = @ + 1])), "}"))

ParseReturn(p) ==
    LET value  == ParseExpression(p)
        result == CASE Kind(p) = ";"       -> Make(p, Number(0))
                    [] p.returnsBoolean    -> ToBoolean(value, value.node)
                    [] OTHER               -> value
        ended  == Take(result, ";")
    IN  Make(ended, Node("return", 0, ended.node, Nil))

ParseCondition(p) == Take(ParseExpression(Take(p, "(")), ")")

ParseIf(p) ==
    LET condition == ParseCondition(p)
        true      == ParseStatement(condition)
        else      == Kind(true) = "else"
        false     == IF else THEN ParseStatement(Next1(true)) ELSE NoNode(true)
    IN  Make(false, [Node("if", 0, true.node, false.node) EXCEPT !.cond = condition.node])

ParseWhile(p) ==
    LET condition == ParseCondition(p)
        body      == ParseStatement(condition)
    IN  Make(body, Node("while", 0, condition.node, body.node))

ParseDo(p) ==
    LET body      == ParseStatement(p)
        condition == Take(ParseCondition(Take(body, "while")), ";")
    IN  Make(condition, Node("do", 0, body.node, condition.node))

\* An expression that may be missing before a token of this kind.
ParseOptional(p, kind, missing) ==
    IF Kind(p) = kind THEN missing ELSE ParseExpression(p)

\* What a for loop declares belongs to the scope around it.
ParseFor(p) ==
    LET q         == Take(p, "(")
        first     == IF IsDeclaration(q) THEN ParseDeclaration(q, FALSE)
                     ELSE Take(ParseOptional(q, ";", NoNode(q)), ";")
        condition == Take(ParseOptional(first, ";", Make(first, Number(1))), ";")
        step      == Take(ParseOptional(condition, ")", NoNode(condition)), ")")
        body      == ParseStatement(step)
    IN  Make(body, [Node("for", 0, condition.node, body.node) EXCEPT
                        !.cond = first.node, !.step = step.node])

ParseJump(p) ==
    LET q == Take(Next1(p), ";") IN Make(q, Leaf(Kind(p), 0))

ParseStatement(p) ==
    LET expression == Take(ParseExpression(p), ";")
    IN  CASE Kind(p) = "{"          -> ParseBlock(p)
          [] IsEnumDefinition(p)    -> ParseEnum(p)
          [] Kind(p) = "typedef"    -> ParseTypedef(p)
          [] Kind(p) = "static"     -> IF IsDeclaration(Next1(p))
                                       THEN ParseDeclaration(Next1(p), TRUE) ELSE Reject(p)
          [] IsDeclaration(p)       -> ParseDeclaration(p, FALSE)
          [] Kind(p) = "return"     -> ParseReturn(Next1(p))
          [] Kind(p) = "if"         -> ParseIf(Next1(p))
          [] Kind(p) = "while"      -> ParseWhile(Next1(p))
          [] Kind(p) = "do"         -> ParseDo(Next1(p))
          [] Kind(p) = "for"        -> ParseFor(Next1(p))
          [] Kind(p) \in {"break", "continue"} -> ParseJump(p)
          [] OTHER -> Make(expression, Node("expression", 0, expression.node, Nil))

-----------------------------------------------------------------------------
(***************************************************************************)
(* External declarations.                                                  *)
(***************************************************************************)
ParseGlobal(p, name, type, external) ==
    LET sized  == Sized([p EXCEPT !.base = Len(p.locals), !.depth = 0], type)
        shape  == sized.shape
        array  == shape.dims # <<>>
        given  == Kind(sized) = "="
        valued == CASE ~given -> NoInitial(sized)
                    [] array /\ Kind(Next1(sized)) = "{" ->
                            ParseItems(Next1(sized), type, shape.total)
                    [] OTHER -> ParseInitial(Next1([sized EXCEPT !.data = <<>>]), type,
                                             {"address", "global"})
        ended  == Take(RejectIf(valued, shape.variable), ";")
        object == [Declared(ended, name, type, shape) EXCEPT
                    !.struct = type.struct, !.defined = given \/ ~external,
                    !.element = IF array THEN shape.dims[1].stride ELSE @]
    IN  NoNode([ended EXCEPT !.globals = Append(@, object)])

\* Arrays are passed as pointers to their first element.
Decayed(p, l) ==
    [p EXCEPT !.locals[l] =
        [@ EXCEPT !.size = 4, !.pointer = TRUE, !.element = p.shape.dims[1].stride,
                  !.dims = p.shape.dims]]

RECURSIVE Parameters(_)
Parameters(p) ==
    LET q    == Declarator(p)
        type == q.type
        r    == Next1(AddLocal(q))
        s    == IF Kind(r) = "[" THEN Decayed(ParseDimensions(r, type.size), Len(r.locals))
                ELSE r
    IN  CASE Kind(p) = ")" \/ p.error -> p
          [] type.size = 0 \/ IsObject(type) \/ Kind(q) # "identifier" -> Reject(q)
          [] Kind(s) = "," -> Parameters(Next1(s))
          [] OTHER -> s

ParseFunction(p, name, type) ==
    LET start    == Take([p EXCEPT !.base = Len(p.locals), !.frame = 0, !.depth = 0], "(")
        void     == Kind(start) = "void" /\ Kind(Next1(start)) = ")"
        q        == Take(Parameters(IF void THEN Next1(start) ELSE start), ")")
        returns  == type.boolean /\ ~type.pointer
        function == [name |-> name, base |-> q.base, parameters |-> Len(q.locals) - q.base,
                     body |-> Nil, defined |-> FALSE, frame |-> 0]
        f        == Len(q.functions) + 1
        body     == ParseStatement([q EXCEPT !.functions = Append(@, function),
                                             !.returnsBoolean = returns])
    IN  IF Kind(q) = ";"
        THEN NoNode([Next1(q) EXCEPT !.functions = Append(@, function),
                                     !.locals = SubSeq(@, 1, q.base)])
        ELSE NoNode([body EXCEPT
                !.functions[f] = [@ EXCEPT !.body = body.node, !.defined = TRUE,
                                           !.frame = body.frame],
                !.main = IF name = "main" THEN f ELSE @])

RECURSIVE PastStorage(_)
PastStorage(p) == IF Kind(p) \in {"static", "extern"} THEN PastStorage(Next1(p)) ELSE p

\* dyn_parse: one round of its loop.
ParseUnit(p) ==
    LET alias    == Kind(p) = "typedef"
        start    == IF alias THEN Next1(p) ELSE p
        typed    == PastStorage(start)
        storage  == {start.tokens[i].kind : i \in start.at .. typed.at - 1}
        q        == Declarator(typed)
        name     == Text(q)
    IN  CASE IsEnumDefinition(p)    -> ParseEnum(p)
          [] IsStructDefinition(p)  -> ParseStruct(p)
          [] IsStructForward(p)     -> ParseForward(p)
          [] q.type.size = 0 \/ Kind(q) \notin {"identifier", "main"} -> Reject(q)
          [] alias /\ storage # {}  -> Reject(q)
          [] alias                  -> DefineAlias(q, q.type)
          [] Kind(Next1(q)) # "("   -> ParseGlobal(Next1(q), name, q.type, "extern" \in storage)
          [] IsObject(q.type)       -> Reject(q)
          [] OTHER                  -> ParseFunction(Next1(q), name, q.type)

-----------------------------------------------------------------------------
(***************************************************************************)
(* When everything has been read, names become numbers.                    *)
(***************************************************************************)
FindFunction(p, name) ==
    SelectLastInSeq(p.functions, LAMBDA f : f.defined /\ f.name = name)

ResolvedGlobal(p, n) ==
    LET g == FindGlobal(p, n.name) IN Name("global", g, p.globals[g])

\* An element of a global is looked up again, in the global that was found.
ResolvedElement(p, n) ==
    LET global == p.globals[n.left.value]
        dims   == n.left.dims
    IN  IF dims = <<>> THEN [n EXCEPT !.struct = global.struct, !.value = global.element]
        ELSE [n EXCEPT !.struct = global.struct, !.value = Head(dims).stride,
                       !.stride = Head(dims).node, !.dims = Tail(dims)]

RECURSIVE Resolved(_, _)
Resolved(p, tree) ==
    LET n == [tree EXCEPT !.left = Resolved(p, @), !.right = Resolved(p, @),
                          !.cond = Resolved(p, @), !.step = Resolved(p, @),
                          !.stride = Resolved(p, @)]
    IN  CASE tree = Nil -> Nil
          [] tree.kind = "call" -> [n EXCEPT !.value = FindFunction(p, n.name)]
          [] tree.kind = "global" /\ tree.name # "" -> ResolvedGlobal(p, n)
          [] tree.kind = "subscript" /\ n.left.kind = "global" -> ResolvedElement(p, n)
          [] OTHER -> n

ResolveNames(p) ==
    IF \/ p.main = 0
       \/ \E name \in p.called : FindFunction(p, name) = 0
       \/ \E name \in p.used : FindGlobal(p, name) = 0
    THEN Reject(p)
    ELSE [p EXCEPT !.functions = [f \in DOMAIN @ |-> [@[f] EXCEPT !.body = Resolved(p, @)]],
                   !.globals = [g \in DOMAIN @ |-> [@[g] EXCEPT !.init = Resolved(p, @)]]]
=============================================================================
