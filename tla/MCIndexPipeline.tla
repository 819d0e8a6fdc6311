--------------------------- MODULE MCIndexPipeline ---------------------------
(***************************************************************************)
(* IndexPipeline with the two producers the code starts and a few todos.   *)
(***************************************************************************)
EXTENDS IndexPipeline

CONSTANTS p1, p2, n1, n2, n3, n4

MCNames == {n1, n2, n3, n4}

CreateTodo ==
  <<[rem |-> NoName, inst |-> n1],
    [rem |-> NoName, inst |-> n2],
    [rem |-> NoName, inst |-> n3]>>

\* One todo of each kind but a plain install: removed, updated, reinstalled.
UpdateTodo ==
  <<[rem |-> n1, inst |-> NoName],
    [rem |-> n2, inst |-> n3],
    [rem |-> n4, inst |-> n4]>>

MCActions(todo) == [todo : DOMAIN todo, loaded : BOOLEAN]
CreateMessages == MCActions(CreateTodo)
UpdateMessages == MCActions(UpdateTodo)
=============================================================================
