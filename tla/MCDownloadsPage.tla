-------------------------- MODULE MCDownloadsPage ---------------------------
(* Two jobs on pages of one: the older one is listed only by turning the   *)
(* page or by pinning it.                                                  *)
EXTENDS DownloadsPage

=============================================================================
