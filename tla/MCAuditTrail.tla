---------------------------- MODULE MCAuditTrail ----------------------------
(***************************************************************************)
(* The gateway serves edits of the ACL, its own route, and a request it    *)
(* forwards: a compaction of the audit log itself.                         *)
(***************************************************************************)
EXTENDS AuditTrail

AclEdit == [method |-> "PUT", path |-> <<"api", "acl">>, prevs |-> 0]
AuditCompact == [method |-> "POST", path |-> <<"api", "audit", "compact">>, prevs |-> 0]

MCRequest == {AclEdit, AuditCompact}
============================================================================
