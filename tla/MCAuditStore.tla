---------------------------- MODULE MCAuditStore ----------------------------
EXTENDS AuditStore
============================================================================
