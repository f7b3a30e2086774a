---------------------------- MODULE MCAuditChain ----------------------------
(* Small instances of AuditChain: a hash is the history it commits to. *)
EXTENDS AuditChain

CONSTANTS e1, e2, e3

MCComputeHash(prevHash, seq, event) == <<prevHash, seq, event>>
MCGenesis == << >>
=============================================================================
