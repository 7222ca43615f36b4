--------------------------- MODULE MCSagaDispatch ----------------------------
EXTENDS SagaDispatch
CONSTANT a
=============================================================================
