--------------------------- MODULE MCAuditStore ---------------------------
EXTENDS AuditStore

CONSTANTS r1, r2, r3

==========================================================================
