------------------------- MODULE RequesterTracking -------------------------
(***************************************************************************)
(* The secure link to follow one PUBLIC request: staff issue, rotate and   *)
(* revoke it from the version they see, intake may issue the first one,    *)
(* and the requester's page resolves it in a transaction that finds the    *)
(* credential without a lock, locks the request and looks again.           *)
(*                                                                         *)
(* A credential is the number of its row; created_at follows the order of  *)
(* the rows, because every change holds the request's row.                 *)
(***************************************************************************)
EXTENDS Naturals, Sequences, FiniteSets

CONSTANTS Managers, Requesters, Known,  \* Known[r]: the credentials that have reached r
          MaxCredentials, MaxUnderWay   \* bounds

ASSUME TrackingAssumption ==
  /\ MaxCredentials \in Nat \ {0} /\ MaxUnderWay \in Nat
  /\ Known \in [Requesters -> SUBSET (1..MaxCredentials)]

VARIABLES
  credentials,   \* the rows: [status, expired]
  dialog,        \* of each manager: the version it shows, and the link just created
  changes,       \* commands under way: [manager, seen, operation]
  page           \* of each requester: how far the resolution of a link has come

trackingVars == <<credentials, dialog, changes, page>>

Closed == [phase |-> "closed", seen |-> 0, link |-> 0]
NoPage == [phase |-> "idle", credential |-> 0]

Operations == {"issue", "rotate", "revoke"}

Credential == [status : {"active", "revoked"}, expired : BOOLEAN]

TrackingTypeOK ==
  /\ credentials \in Seq(Credential)
  /\ Len(credentials) <= MaxCredentials
  /\ dialog \in [Managers -> [phase : {"closed", "open", "changing"},
                              seen : 0..MaxCredentials, link : 0..MaxCredentials]]
  /\ changes \in SUBSET [manager : Managers, seen : 0..MaxCredentials, operation : Operations]
  /\ page \in [Requesters -> [phase : {"idle", "found", "locked"},
                              credential : 0..MaxCredentials]]

(* Automatic issuance at intake, when it is on, commits with the request itself. *)
TrackingInit ==
  /\ credentials \in {<<>>, <<[status |-> "active", expired |-> FALSE]>>}
  /\ dialog = [m \in Managers |-> Closed]
  /\ changes = {}
  /\ page = [r \in Requesters |-> NoPage]

(* state(): the newest row; 0 stands for "not_issued". Expiry is no status. *)
Version == Len(credentials)
Active == Version # 0 /\ credentials[Version].status = "active"

(* The request's row is held for share by a page between its recheck and its commit. *)
RowShared == \E r \in Requesters : page[r].phase = "locked"

-----------------------------------------------------------------------------
OpenDialog(m) ==
  /\ dialog[m].phase = "closed" \/ (dialog[m].phase = "open" /\ dialog[m].seen # Version)
  /\ dialog' = [dialog EXCEPT ![m] = [phase |-> "open", seen |-> Version, link |-> 0]]
  /\ UNCHANGED <<credentials, changes, page>>

(* The command leaves with the version on the screen; a link shown before is taken away. *)
AskChange(m, operation) ==
  /\ dialog[m].phase = "open" /\ Cardinality(changes) < MaxUnderWay
  /\ dialog' = [dialog EXCEPT ![m].phase = "changing", ![m].link = 0]
  /\ changes' = changes \cup {[manager |-> m, seen |-> dialog[m].seen, operation |-> operation]}
  /\ UNCHANGED <<credentials, page>>

(* Refused, failed or without an answer: close and reopen. The command may still be under way. *)
LoseChange(m) ==
  /\ dialog[m].phase = "changing"
  /\ dialog' = [dialog EXCEPT ![m] = Closed]
  /\ UNCHANGED <<credentials, changes, page>>

Revoked(rows) == [i \in DOMAIN rows |-> IF i = Len(rows) THEN [rows[i] EXCEPT !.status = "revoked"]
                                        ELSE rows[i]]

\* Mutant: looks at the status alone.
AppliesToStatus(c) == IF c.operation = "issue" THEN ~Active ELSE Active

Applies(c) == /\ c.seen = Version
              /\ IF c.operation = "issue" THEN ~Active ELSE Active

(* issue, rotate and revoke: one transaction with the request's row locked for update. The dialog
   gets the new version and the only copy of the credential, unless the answer is lost. *)
Change(c) ==
  /\ ~RowShared
  /\ changes' = changes \ {c}
  /\ Applies(c) /\ (c.operation # "revoke" => Version < MaxCredentials)
  /\ LET ended == IF Active THEN Revoked(credentials) ELSE credentials IN
       credentials' = IF c.operation = "revoke" THEN ended
                      ELSE Append(ended, [status |-> "active", expired |-> FALSE])
  /\ dialog' = IF dialog[c.manager] = [phase |-> "changing", seen |-> c.seen, link |-> 0]
               THEN [dialog EXCEPT ![c.manager] = [phase |-> "open", seen |-> Len(credentials'),
                       link |-> IF c.operation = "revoke" THEN 0 ELSE Len(credentials')]]
               ELSE dialog
  /\ UNCHANGED page

RefuseChange(c) ==
  /\ ~Applies(c)
  /\ changes' = changes \ {c}
  /\ dialog' = IF dialog[c.manager].phase = "changing"
               THEN [dialog EXCEPT ![c.manager] = Closed] ELSE dialog
  /\ UNCHANGED <<credentials, page>>

Expire ==
  /\ \E i \in DOMAIN credentials :
       /\ credentials[i].status = "active" /\ ~credentials[i].expired
       /\ credentials' = [credentials EXCEPT ![i].expired = TRUE]
  /\ UNCHANGED <<dialog, changes, page>>

-----------------------------------------------------------------------------
Usable(c) == c \in DOMAIN credentials /\ credentials[c].status = "active" /\ ~credentials[c].expired

(* The lookup by digest, without a lock: it finds the Organization and the request. *)
Lookup(r) ==
  /\ page[r] = NoPage
  /\ \E c \in Known[r] : Usable(c) /\ page' = [page EXCEPT ![r] = [phase |-> "found", credential |-> c]]
  /\ UNCHANGED <<credentials, dialog, changes>>

\* Mutant: the row is locked, and what the lookup found is trusted.
RecheckRowOnly(r) ==
  /\ page[r].phase = "found"
  /\ page' = [page EXCEPT ![r].phase = "locked"]
  /\ UNCHANGED <<credentials, dialog, changes>>

(* The request is locked for share, then the credential is looked at again. *)
Recheck(r) ==
  /\ page[r].phase = "found"
  /\ page' = [page EXCEPT ![r] = IF Usable(page[r].credential) THEN [@ EXCEPT !.phase = "locked"]
                                 ELSE NoPage]
  /\ UNCHANGED <<credentials, dialog, changes>>

(* Reads the request and its messages, commits, and shows them. *)
Show(r) ==
  /\ page[r].phase = "locked"
  /\ page' = [page EXCEPT ![r] = NoPage]
  /\ UNCHANGED <<credentials, dialog, changes>>

TrackingNext ==
  \/ \E m \in Managers : \/ OpenDialog(m) \/ LoseChange(m)
                         \/ \E operation \in Operations : AskChange(m, operation)
  \/ \E c \in changes : Change(c) \/ RefuseChange(c)
  \/ \E r \in Requesters : Lookup(r) \/ Recheck(r) \/ Show(r)
  \/ Expire

TrackingSpec == TrackingInit /\ [][TrackingNext]_trackingVars

-----------------------------------------------------------------------------
(* Once a revocation or a rotation has committed, the old link shows nothing any more, not even to
   a page whose lookup had found it before; and only the newest credential can be a usable one
   (request-tracking.repository.ts:109). *)
RevokedLinkShowsNothing ==
  /\ \A r \in Requesters : page[r].phase = "locked" => credentials[page[r].credential].status = "active"
  /\ \A c \in DOMAIN credentials : Usable(c) => c = Version

(* Nobody ends or replaces a link unseen: whoever did had that very version on the screen, also
   when the command arrived long after its dialog gave up on it and another manager had issued a
   new link in between (request-tracking.service.ts:121); and an ended link shows nothing. *)
LinksEndSeen ==
  /\ []RevokedLinkShowsNothing
  /\ [][\A c \in DOMAIN credentials :
          credentials[c].status = "active" /\ credentials'[c].status = "revoked"
            => \E x \in changes \ changes' : x.seen = c]_trackingVars
===========================================================================
