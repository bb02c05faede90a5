--------------------------- MODULE MCOidAllocator ---------------------------
(* OidAllocator for TLC, with Oids of three bits. *)
EXTENDS OidAllocator
=============================================================================
