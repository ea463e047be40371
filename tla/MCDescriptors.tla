--------------------------- MODULE MCDescriptors ---------------------------
\* TLC instance of Descriptors; the constants are in MCDescriptors.cfg.
EXTENDS Descriptors
=============================================================================
