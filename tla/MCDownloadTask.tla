--------------------------- MODULE MCDownloadTask ---------------------------
(* Small instances of DownloadTask for TLC. *)
EXTENDS DownloadTask, TLC

\* Proxies are interchangeable; used by the safety runs only.
Symmetry == Permutations(Proxies)
=============================================================================
