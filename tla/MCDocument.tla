---------------------------- MODULE MCDocument ----------------------------
EXTENDS Document

=============================================================================
