--------------------------- MODULE MCStudentTab ---------------------------
EXTENDS StudentTab, TLC
=============================================================================
