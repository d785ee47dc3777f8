---------------------------- MODULE MCHTTPClient ----------------------------
(* An instance of HTTPClient for TLC. *)
EXTENDS HTTPClient

CONSTANTS a, b
=============================================================================
