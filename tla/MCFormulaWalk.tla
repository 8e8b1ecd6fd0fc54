--------------------------- MODULE MCFormulaWalk ---------------------------
EXTENDS FormulaWalk
MCFexprs == {<<"A">>, <<"B">>, <<"C">>}
=============================================================================
