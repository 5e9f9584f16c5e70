---------------------------- MODULE MCSectionBuffer ----------------------------
EXTENDS SectionBuffer
=============================================================================
