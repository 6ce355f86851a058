---------------------------- MODULE MCStackList ----------------------------
EXTENDS StackList
CONSTANTS x1, x2, NilValue
=============================================================================
