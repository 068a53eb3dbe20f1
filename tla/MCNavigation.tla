---------------------------- MODULE MCNavigation ----------------------------
EXTENDS Navigation

=============================================================================
