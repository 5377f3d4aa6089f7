----------------------------- MODULE SyntaxTree -----------------------------
(***************************************************************************)
(* The trees of the self-hosted compiler                                   *)
(* (selfhost/include/symphony/frontend.h) and what is computed of them     *)
(* without generating code (frontend/sema.c, middle/lower.c).  A tree is a *)
(* record that holds its subtrees where the program holds node numbers;    *)
(* Nil is the invalid number.                                              *)
(***************************************************************************)
EXTENDS SequencesExt, Words

Nil == [kind |-> "nil"]

(***************************************************************************)
(* value, name: the number, symbol or function the node stands for, or its *)
(* name while that is not known; cond: the condition, or what a for loop   *)
(* begins with; step: the update of a for loop; dims: strides left to      *)
(* apply; struct: structure the place belongs to; bool: stores normalize.  *)
(***************************************************************************)
Node(kind, value, left, right) ==
    [kind |-> kind, value |-> value, left |-> left, right |-> right,
     cond |-> Nil, step |-> Nil, name |-> "", dims |-> <<>>, stride |-> Nil,
     struct |-> 0, bool |-> FALSE, pointee |-> FALSE, arrow |-> FALSE]

Leaf(kind, value) == Node(kind, value, Nil, Nil)
Number(value) == Leaf("number", value % Word)

NotConstant == -1

Operation ==
    [add |-> "add", subtract |-> "sub", lshift |-> "lsl", rshift |-> "lsr",
     and |-> "and", or |-> "or", xor |-> "xor"]

\* Division by zero and shifts by a word or more have no value.
Combine(kind, left, right) ==
    CASE kind \in {"divide", "remainder"} /\ right = 0 -> NotConstant
      [] kind \in {"lshift", "rshift"} /\ right >= WordBits -> NotConstant
      [] kind \in DOMAIN Operation -> Arithmetic(Operation[kind], left, right)
      [] kind = "multiply"     -> (left * right) % Word
      [] kind = "divide"       -> left \div right
      [] kind = "remainder"    -> left % right
      [] kind = "equal"        -> Truth(left = right)
      [] kind = "notequal"     -> Truth(left # right)
      [] kind = "less"         -> Truth(left < right)
      [] kind = "greater"      -> Truth(left > right)
      [] kind = "lessequal"    -> Truth(left <= right)
      [] kind = "greaterequal" -> Truth(left >= right)
      [] kind = "comma"        -> right
      [] OTHER                 -> NotConstant

\* The value of a constant expression, computed left to right.
RECURSIVE Evaluate(_)
Evaluate(n) ==
    IF n.kind = "nil" THEN NotConstant
    ELSE IF n.kind = "number" THEN n.value
    ELSE IF n.kind = "conditional" THEN
        LET condition == Evaluate(n.cond)
        IN  CASE condition = NotConstant -> NotConstant
              [] condition # 0 -> Evaluate(n.left)
              [] OTHER -> Evaluate(n.right)
    ELSE
    LET left == Evaluate(n.left)
        truthOfRight ==
            LET right == Evaluate(n.right)
            IN  IF right = NotConstant THEN NotConstant ELSE Truth(right # 0)
    IN  CASE left = NotConstant -> NotConstant
          [] n.kind = "positive"   -> left
          [] n.kind = "negative"   -> (-left) % Word
          [] n.kind = "not"        -> Word - 1 - left
          [] n.kind = "logicalnot" -> Truth(left = 0)
          [] n.kind = "cast"       -> IF n.bool THEN Truth(left # 0) ELSE left
          [] n.kind = "logicaland" -> IF left = 0 THEN 0 ELSE truthOfRight
          [] n.kind = "logicalor"  -> IF left # 0 THEN 1 ELSE truthOfRight
          [] OTHER ->
                LET right == Evaluate(n.right)
                IN  IF right = NotConstant THEN NotConstant
                    ELSE Combine(n.kind, left, right)

\* Whether dyn_lower takes a returned expression for a constant.
RECURSIVE ConstantExpression(_)
ConstantExpression(n) ==
    CASE n.kind = "number" -> TRUE
      [] n.kind \in {"nil", "local", "global", "assign", "postincrement",
                     "input", "output"} -> FALSE
      [] n.kind = "conditional" ->
            ConstantExpression(n.cond) /\ ConstantExpression(n.left)
              /\ ConstantExpression(n.right)
      [] OTHER ->
            /\ ConstantExpression(n.left)
            /\ n.right # Nil => ConstantExpression(n.right)
=============================================================================
