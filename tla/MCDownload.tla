----------------------------- MODULE MCDownload -----------------------------
(* A small instance of Download.                                           *)
EXTENDS Download
=============================================================================
