------------------------------ MODULE Sessions ------------------------------
(***************************************************************************)
(* Sessions, roles and the audit trail: backend/security.py,               *)
(* routers/auth.py and routers/audit.py.  A session is a signed claim kept *)
(* by its holder; the server keeps only the revoked ones and the settings  *)
(* the claim is checked against.  A request authenticates first and acts   *)
(* in a later transaction.                                                 *)
(***************************************************************************)
EXTENDS Configuration, FiniteSetsExt, Sequences

CONSTANTS
  Environments, \* what the server is run with, one after the other
  Holders,      \* clients, one session and one request each
  Wants,        \* holder -> the [op, user, header] it may ask for, with the session of
                \* `user` or with a role header
  Lifetime,     \* 3600 seconds
  Retention,    \* `days` of a purge
  MaxNow        \* bound on the time, for TLC

VARIABLES
  now,          \* time.time()
  era,          \* the position in Environments of the one it runs with
  claim,        \* holder -> [sub, role, exp, sid, key] or NoValue
  revoked,      \* sessions in revoked_sessions
  trail,        \* audit_logs: a set of [id, at, role, action, deleted]
  nextId,       \* of audit_logs
  request,      \* holder -> [pc, principal, op]
  lost          \* ghost: the `deleted` counts of purge entries purged since

sessionVars == <<now, era, claim, revoked, trail, nextId, request, lost>>

\* get_settings(); every endpoint answers 503 while they do not load.
settings == LoadSettings(Environments[era])

IdleRequest == [pc |-> "idle", principal |-> NoValue, op |-> "none"]

SessionInit ==
  /\ now = 0
  /\ era = 1
  /\ claim = [h \in Holders |-> NoValue]
  /\ revoked = {}
  /\ trail = {}
  /\ nextId = 1
  /\ request = [h \in Holders |-> IdleRequest]
  /\ lost = 0

Pass ==
  /\ now < MaxNow
  /\ now' = now + 1
  /\ UNCHANGED <<era, claim, revoked, trail, nextId, request, lost>>

\* A restart with another environment: accounts, roles or the secret differ.
Reconfigure ==
  /\ era < Len(Environments)
  /\ era' = era + 1
  /\ UNCHANGED <<now, claim, revoked, trail, nextId, request, lost>>

\* _issue_token.  The session id is fresh: here it is the holder itself.
Issued(h, sub, role) ==
  claim' = [claim EXCEPT ![h] = [sub |-> sub, role |-> role, exp |-> now + Lifetime, sid |-> h,
                                 key |-> settings.secret]]

\* issue_demo_token and issue_public_demo_token; a wrong password is a 401.
Login(h, user) ==
  /\ settings # NoValue /\ claim[h] = NoValue
  /\ \/ /\ user \in DOMAIN settings.users
        /\ Issued(h, user, settings.users[user])
     \/ /\ user = "public-demo" /\ settings.publicDemo
        /\ Issued(h, "public-demo", "viewer")
  /\ UNCHANGED <<now, era, revoked, trail, nextId, request, lost>>

\* The account the claim names must still have the claimed role.
ValidAccount(c) ==
  \/ c.sub = "public-demo" /\ settings.publicDemo /\ c.role = "viewer"
  \/ c.sub \in DOMAIN settings.users /\ settings.users[c.sub] = c.role

\* role_from_token
Accepts(c) ==
  /\ c # NoValue /\ c.key = settings.secret
  /\ c.exp > now /\ c.role \in ROLES /\ ValidAccount(c) /\ c.sid \notin revoked

\* current_role with a bearer token, or with the demo header where it is
\* allowed; everything else is refused (401, 403 or 503).
Authenticate(h, op, headerRole) ==
  /\ request[h].pc = "idle"
  /\ settings # NoValue
  /\ \/ /\ headerRole = NoValue /\ Accepts(claim[h])
        /\ request' = [request EXCEPT ![h] = [pc |-> "admitted", principal |-> claim[h],
                                              op |-> op]]
     \/ /\ headerRole \in ROLES /\ settings.roleHeader
        /\ request' = [request EXCEPT ![h] =
             [pc |-> "admitted", op |-> op,
              principal |-> [sub |-> "demo-header", role |-> headerRole, exp |-> 0,
                             sid |-> NoValue, key |-> settings.secret]]]
  /\ UNCHANGED <<now, era, claim, revoked, trail, nextId, lost>>

Entry(h, action, deleted) ==
  [id |-> nextId, at |-> now, role |-> request[h].principal.role,
   action |-> action, deleted |-> deleted]

Refuse(h) == request' = [request EXCEPT ![h].pc = "refused"]
Finish(h) == request' = [request EXCEPT ![h].pc = "done"]

\* ensure_write_role, then a change and its entry (record_audit).
Write(h) ==
  /\ request[h].pc = "admitted" /\ request[h].op = "write"
  /\ \/ /\ request[h].principal.role \notin {"admin", "security_analyst"}
        /\ Refuse(h)
        /\ UNCHANGED <<trail, nextId>>
     \/ /\ request[h].principal.role \in {"admin", "security_analyst"}
        /\ trail' = trail \cup {Entry(h, "write", 0)}
        /\ nextId' = nextId + 1
        /\ Finish(h)
  /\ UNCHANGED <<now, era, claim, revoked, lost>>

\* audit_logs reads the trail for an admin or an auditor and changes nothing.
ReadTrail(h) ==
  /\ request[h].pc = "admitted" /\ request[h].op = "audit_logs"
  /\ IF request[h].principal.role \in {"admin", "auditor"} THEN Finish(h) ELSE Refuse(h)
  /\ UNCHANGED <<now, era, claim, revoked, trail, nextId, lost>>

\* The entries that purges recorded here say they deleted.
DeletedBy(entries) == MapThenSumSet(LAMBDA e : e.deleted, entries)

\* Faulty variant: the deletion commits and its entry is lost with a crash.
PurgeUnrecorded(h) ==
  /\ request[h].pc = "admitted" /\ request[h].op = "purge"
  /\ request[h].principal.role = "admin"
  /\ trail' = {e \in trail : e.at >= now - Retention}
  /\ Finish(h)
  /\ UNCHANGED <<now, era, claim, revoked, nextId, lost>>

\* purge_old_audit_logs: the deletion and its own entry in one transaction,
\* which may fail as a whole.
Purge(h) ==
  LET old == {e \in trail : e.at < now - Retention}
  IN /\ request[h].pc = "admitted" /\ request[h].op = "purge"
     /\ \/ /\ request[h].principal.role # "admin"
           /\ Refuse(h)
           /\ UNCHANGED <<trail, nextId, lost>>
        \/ /\ request[h].principal.role = "admin"
           /\ trail' = (trail \ old) \cup {Entry(h, "purge", Cardinality(old))}
           /\ nextId' = nextId + 1
           /\ lost' = lost + DeletedBy(old)
           /\ Finish(h)
        \/ /\ request[h].principal.role = "admin"
           /\ Refuse(h)
           /\ UNCHANGED <<trail, nextId, lost>>
     /\ UNCHANGED <<now, era, claim, revoked>>

\* revoke_session merges a row.  No endpoint calls it: an operator does.
Revoke(h) ==
  /\ claim[h] # NoValue
  /\ revoked' = revoked \cup {claim[h].sid}
  /\ UNCHANGED <<now, era, claim, trail, nextId, request, lost>>

SessionNext ==
  \/ Pass
  \/ Reconfigure
  \/ \E h \in Holders :
       \/ \E w \in Wants[h] : Login(h, w.user) \/ Authenticate(h, w.op, w.header)
       \/ Write(h) \/ ReadTrail(h) \/ Purge(h) \/ Revoke(h)

SessionSpec == SessionInit /\ [][SessionNext]_sessionVars
----------------------------------------------------------------------------
\* Nothing leaves the audit trail unrecorded: the entries ever written are the
\* ones that are there and the ones the purge entries say they deleted, those
\* of purge entries deleted in turn included.
TrailAccounted ==
  nextId - 1 = Cardinality(trail) + DeletedBy(trail) + lost
=============================================================================
