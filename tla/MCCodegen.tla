------------------------------- MODULE MCCodegen -------------------------------
EXTENDS Codegen
=============================================================================
