--------------------------- MODULE MCVendorLogin ---------------------------
(* Small instances of VendorLogin for TLC. *)
EXTENDS VendorLogin

\* A pasted code, a device code with an exchange, and one without.
OneOfEach == {"claude", "codex", "grok"}
=============================================================================
