--------------------------- MODULE ContractMacros ---------------------------
(* How a contract gets into the body of a function.  rustc expands the      *)
(* attributes of a function from the outermost one in, each of which gets   *)
(* the function with what the others made of it so far, and the others that *)
(* are still to come; then the macros in its body, where they are.  Each of *)
(* them makes a block of two calls: entry(), so that what comes before ends *)
(* in a terminator of its own, and a call that has a closure with the       *)
(* expression.                                                              *)
(*                                                                          *)
(* The closure is a name here.  That keywords of an expression are replaced *)
(* by paths to functions leaves the calls where they are.                   *)
EXTENDS Sequences, SequencesExt

Attribute(name, closure) == [name |-> name, closure |-> closure]

\* A function: attributes that are not expanded yet, outermost first, and the
\* calls of specifications in its body.
ItemFn(attrs, calls) == [attrs |-> attrs, calls |-> calls]

\* { entry(); name(|| expr); }
Call(name, closure) == <<[kind |-> "entry"], [kind |-> name, closure |-> closure]>>

\* `item.block.stmts.insert(0, stmt)`
precondition(closure, item) == [item EXCEPT !.calls = Call("precondition", closure) \o @]
postcondition(closure, item) == [item EXCEPT !.calls = Call("postcondition", closure) \o @]

\* contract_assert! and contract_assume!, which differ in the function called
\* only; forall! and exists! likewise.
contract_assert(closure) == Call("contract_assert", closure)
quant(closure) == Call("quant", closure)

\* An implementation of TypeInvariant, whose method has the expression.
invariant(type, method) == [type |-> type, method |-> method]

Expand(item) ==
    LET attr == Head(item.attrs)
        rest == [item EXCEPT !.attrs = Tail(@)]
    IN  CASE attr.name = "precondition" -> precondition(attr.closure, rest)
          [] attr.name = "postcondition" -> postcondition(attr.closure, rest)

\* The function without attributes.
Expanded(item) == FoldLeft(LAMBDA i, attr : Expand(i), item, item.attrs)
=============================================================================
