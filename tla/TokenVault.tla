------------------------------- MODULE TokenVault -------------------------------
(***************************************************************************)
(* The stored authorization of one connector: connected and revoked by the *)
(* user, and renewed by whoever uses it after it has expired.  Every call  *)
(* of the vault is a transaction of its own, and most emit an event.       *)
(***************************************************************************)
EXTENDS EventLog

VARIABLES
    row,        \* the stored authorization, or none, or a revoked one
    vault       \* what a thread does with the vault
vaultVars == <<row, vault>>

VaultInit == row = "none" /\ vault = [t \in Threads |-> Rest]

Unoccupied(t) == vault[t] = Rest /\ Quiet(t)
Goes(t, at) == vault' = [vault EXCEPT ![t] = [at |-> at, crossed |-> FALSE]]
Returns(t) == vault' = [vault EXCEPT ![t] = Rest]
Silently(t) == UNCHANGED logVars
Audited(t) == Emits(t) /\ UNCHANGED <<log, drawn, late, hooks, reader>>

-----------------------------------------------------------------------------
(* The user authorizes the connector: put.                                 *)
Connect(t) ==
    /\ Unoccupied(t)
    /\ row' = "valid" /\ UNCHANGED vault /\ Audited(t)

Expire == row = "valid" /\ row' = "expired" /\ UNCHANGED <<vault, logVars>>

(* revoke: what is enabled is disabled and overwritten; refreshes that are *)
(* under way have read it.                                                 *)
Revoke(t) ==
    /\ Unoccupied(t) /\ row \in {"valid", "expired"}
    /\ row' = "revoked"
    /\ vault' = [u \in Threads |-> IF vault[u] = Rest THEN Rest ELSE [vault[u] EXCEPT !.crossed = TRUE]]
    /\ Audited(t)

(* get_valid: the row is read, and refused if it is not enabled.           *)
(* Mutant of Enabled: a row is a row.                                      *)
AnyRow == row # "none"
Enabled == row \notin {"none", "revoked"}
GetValid(t) ==
    /\ Unoccupied(t) /\ Enabled
    /\ UNCHANGED row
    /\ IF row = "valid" THEN UNCHANGED vault ELSE Goes(t, "refresh")
    /\ Audited(t)

(* The provider is asked; it refuses, or answers with a new token,         *)
Refused(t) ==
    /\ vault[t].at = "refresh" /\ Quiet(t)
    /\ Returns(t) /\ UNCHANGED row /\ (Silently(t) \/ Audited(t))
Refreshed(t) ==
    /\ vault[t].at = "refresh" /\ Quiet(t)
    /\ vault' = [vault EXCEPT ![t].at = "put"]
    /\ UNCHANGED row /\ Silently(t)
(* which is stored like a new authorization,                               *)
PutRefreshed(t) ==
    /\ vault[t].at = "put"
    /\ row' = "valid"
    /\ vault' = [vault EXCEPT ![t].at = "audit"]
    /\ Audited(t)
AuditRefresh(t) ==
    /\ vault[t].at = "audit" /\ Quiet(t)
    /\ vault' = [vault EXCEPT ![t].at = "again"]
    /\ UNCHANGED row /\ Audited(t)
(* and read again: revoked by now, it fails an assertion.                  *)
GetAgain(t) ==
    /\ vault[t].at = "again" /\ Quiet(t)
    /\ Returns(t) /\ UNCHANGED row /\ Silently(t)

VaultCall(t) == Connect(t) \/ Revoke(t) \/ GetValid(t)
VaultStep(t) ==
    Refused(t) \/ Refreshed(t) \/ PutRefreshed(t) \/ AuditRefresh(t) \/ GetAgain(t)
=============================================================================
