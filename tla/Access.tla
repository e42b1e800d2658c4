-------------------------------- MODULE Access --------------------------------
(***************************************************************************)
(* Who may see what: the identity the gateway makes of a request's         *)
(* headers, the roles a route asks for, and the tenant a read is narrowed  *)
(* to.  A header that is missing is NoHeader.                              *)
(***************************************************************************)
EXTENDS FiniteSets

NoHeader == "none"
Roles == {"viewer", "operator", "approver", "admin"}

\* settings.dev_roles, dev_tenant_id; allow_dev_principal_fallback is on.
DevIdentity == [tenant |-> "dev-tenant", roles |-> {"operator", "admin"}]

\* Unknown role names are skipped, and a caller without any is a viewer.
ParseRoles(tokens) == tokens \cap Roles

\* resolve_request_context
Identity(headers) ==
  IF headers.principal = NoHeader \/ headers.tenant = NoHeader THEN DevIdentity
  ELSE [tenant |-> headers.tenant,
        roles  |-> IF ParseRoles(headers.roles) = {} THEN {"viewer"} ELSE ParseRoles(headers.roles)]

ReadRoles == Roles
WriteRoles == {"operator", "admin"}

MayRead(id) == id.roles \cap ReadRoles # {}
MayWrite(id) == id.roles \cap WriteRoles # {}

\* _scoped_tenant_id: a query may only repeat the caller's own tenant.
ScopeAllowed(id, tenant) == tenant \in {NoHeader, id.tenant}

\* merge_execution_context: what a client says about the tenant must agree.
MergeAllowed(id, tenant) == tenant \in {NoHeader, id.tenant}

\* assert_execution_visible
Visible(db, id, x) ==
  /\ x \in DOMAIN db.executions
  /\ LET c == db.executions[x].execution_context_id
     IN  c \in DOMAIN db.contexts /\ db.contexts[c].tenant_id = id.tenant
=============================================================================
