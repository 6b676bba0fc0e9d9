------------------------------- MODULE MCProxy -------------------------------
(* Small instances of Proxy for TLC. *)
EXTENDS Proxy

\* The second line of urls.txt names a file that is complete.
SecondDownloaded == {2}
=============================================================================
