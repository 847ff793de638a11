----------------------------- MODULE ClientSecrets -----------------------------
(***************************************************************************)
(* The client secret of an OIDCApp or APIApp. Zitadel tells a secret once, *)
(* when it creates the application or generates another; the operator      *)
(* keeps it in the output Secret that the resource names. It never records *)
(* which of the two happened last: what it knows of the secret is whether  *)
(* its cached copy of the Secret holds one.                                *)
(*                                                                         *)
(* The resource itself, its finalizer, parents and deletion are            *)
(* TenantLifecycle's; here it exists, and its reconciles follow one another*)
(***************************************************************************)
EXTENDS Naturals

CONSTANTS
  MaxId,        \* bound: applications and secrets that can be told apart
  MaxMishaps    \* bound: what others change, calls that fail, and crashes

ASSUME ClientSecretsAssumption == MaxId \in Nat \ {0} /\ MaxMishaps \in Nat

\* 0 is none. An application's number is its client id's too, and that of the
\* secret it was created with.
Ids == 1..MaxId

\* The output Secret, 0 where it has no such key.
SecretType == [exists: BOOLEAN, client: 0..MaxId, key: 0..MaxId]
NoSecret   == [exists |-> FALSE, client |-> 0, key |-> 0]

VARIABLES
  confidential, \* it has a secret, and not only a client id: confidential with basic, or basic
  \* Zitadel
  app,          \* the application of the resource's name, 0 if none exists
  accepted,     \* the client secret it accepts
  \* Kubernetes: the output Secret, the informer's copy of it, and whether that is the latest
  secret, cache, uptodate,
  \* the reconcile
  due,          \* its request waits in the queue, and not for RequeueAfter
  pc, found, drawn,
  \* history
  lost,         \* a secret that Zitadel had drawn was dropped while the Secret held another
  mishaps

zitadel    == <<app, accepted>>
kubernetes == <<secret, cache, uptodate>>
reconcile  == <<pc, found, drawn>>
vars == <<confidential, zitadel, kubernetes, due, reconcile, lost, mishaps>>

TypeOK ==
  /\ confidential \in BOOLEAN /\ due \in BOOLEAN /\ lost \in BOOLEAN /\ uptodate \in BOOLEAN
  /\ app \in 0..MaxId /\ accepted \in 0..MaxId
  /\ secret \in SecretType /\ cache \in SecretType
  /\ pc \in {"idle", "create", "adopt", "store", "client", "record"}
  /\ found \in 0..MaxId /\ drawn \in 0..MaxId
  /\ mishaps \in 0..MaxMishaps

\* An application made by hand, or left over, is adopted; or there is none. The
\* Secret may be there before, empty or with the first application's secret, which a
\* deleted resource of the same name leaves behind.
Init ==
  /\ confidential \in BOOLEAN
  /\ app \in {0, 1} /\ accepted = app
  /\ secret \in {NoSecret, [NoSecret EXCEPT !.exists = TRUE],
                [exists |-> TRUE, client |-> 1, key |-> IF confidential THEN 1 ELSE 0]}
  /\ cache = secret /\ uptodate = TRUE
  /\ due = TRUE /\ pc = "idle" /\ found = 0 /\ drawn = 0
  /\ lost = FALSE /\ mishaps = 0

-----------------------------------------------------------------------------
(* A reconcile                                                             *)

Continue(step, id) == pc' = step /\ drawn' = id

\* The reconcile ends, and with it what it knows.
Return == pc' = "idle" /\ found' = 0 /\ drawn' = 0

\* It ends with an error: a secret it has drawn is gone, the request comes back.
Abandon ==
  /\ Return /\ due' = TRUE
  /\ lost' = (lost \/ (drawn # 0 /\ secret.key # 0))

\* Zitadel draws a number it has not used; the least that nothing remembers stands for it.
Unused  == Ids \ {app, accepted, secret.client, secret.key, cache.client, cache.key, found, drawn}
Draw(i) == i \in Unused /\ \A j \in Unused : i <= j

\* findAppByName. RequeueAfter is minutes, and the informer has caught up by then; a
\* request in the queue is taken at once. A failed search counts as none found.
Find ==
  /\ pc = "idle" /\ (due \/ uptodate)
  /\ due' = FALSE /\ found' = app
  /\ Continue(IF app = 0 THEN "create" ELSE IF confidential THEN "adopt" ELSE "client", 0)
  /\ UNCHANGED <<confidential, zitadel, kubernetes, lost, mishaps>>
FindFails ==
  /\ pc = "idle" /\ (due \/ uptodate)
  /\ app # 0 /\ mishaps < MaxMishaps /\ mishaps' = mishaps + 1
  /\ due' = FALSE /\ found' = 0 /\ Continue("create", 0)
  /\ UNCHANGED <<confidential, zitadel, kubernetes, lost>>

\* createOIDCApp, createAPIApp. The name may be taken: names are unique in a project.
Create ==
  /\ pc = "create"
  /\ \/ /\ app = 0
        /\ \E i \in Ids : Draw(i) /\ app' = i /\ accepted' = i /\ found' = i
        /\ IF confidential THEN Continue("store", app') ELSE Continue("client", 0)
        /\ UNCHANGED <<due, lost>>
     \/ app # 0 /\ Abandon /\ UNCHANGED zitadel
  /\ UNCHANGED <<confidential, kubernetes, mishaps>>

\* Mutant: a Secret that exists is taken to hold a client secret.
HeldIfExists == cache.exists

\* What regenerateAdoptedClientSecret asks of the Secret: that it holds a client secret.
Held == cache.key # 0

\* regenerateAdoptedClientSecret. From here on only the new secret is accepted.
Adopt ==
  /\ pc = "adopt"
  /\ \/ Held /\ Continue("client", 0) /\ UNCHANGED <<zitadel, due, found, lost>>
     \/ /\ ~Held /\ app = found
        /\ \E i \in Ids : Draw(i) /\ accepted' = i /\ Continue("store", i)
        /\ UNCHANGED <<app, due, found, lost>>
     \/ ~Held /\ app # found /\ Abandon /\ UNCHANGED zitadel
  /\ UNCHANGED <<confidential, kubernetes, mishaps>>

\* Create is refused if the Secret exists, Update if the copy is not the latest.
Accepted == IF cache.exists THEN uptodate /\ secret.exists ELSE ~secret.exists

Write(new) == secret' = new /\ uptodate' = FALSE /\ UNCHANGED cache

\* Mutant: the secret is written only where there is none.
StoredIfMissing(old) ==
  [exists |-> TRUE, client |-> found, key |-> IF old.key = 0 THEN drawn ELSE old.key]

Stored(old) == [exists |-> TRUE, client |-> found, key |-> drawn]

\* ensureSecret reads the Secret again, then creates or updates it.
Store ==
  /\ pc = "store"
  /\ \/ /\ Accepted /\ Write(Stored(cache))
        /\ Continue("record", 0) /\ UNCHANGED <<due, found, lost>>
     \/ ~Accepted /\ Abandon /\ UNCHANGED kubernetes
  /\ UNCHANGED <<confidential, zitadel, mishaps>>

\* ensureSecretClientID: what else the Secret holds stays.
StoreClientId ==
  LET new == [cache EXCEPT !.exists = TRUE, !.client = found]
  IN  /\ pc = "client"
      /\ \/ /\ new = cache \/ Accepted
            /\ IF new = cache THEN UNCHANGED kubernetes ELSE Write(new)
            /\ Continue("record", 0) /\ UNCHANGED <<due, found, lost>>
         \/ new # cache /\ ~Accepted /\ Abandon /\ UNCHANGED kubernetes
      /\ UNCHANGED <<confidential, zitadel, mishaps>>

\* updateStatusIfNeeded.
Record ==
  /\ pc = "record" /\ Return
  /\ UNCHANGED <<confidential, zitadel, kubernetes, due, lost, mishaps>>

\* A call fails, or takes effect and answers with an error.
Fault ==
  /\ pc # "idle" /\ mishaps < MaxMishaps /\ mishaps' = mishaps + 1
  /\ Abandon
  /\ UNCHANGED <<confidential, zitadel, kubernetes>>

\* The process dies; the next one starts with full caches.
Crash ==
  /\ mishaps < MaxMishaps /\ mishaps' = mishaps + 1
  /\ Abandon /\ cache' = secret /\ uptodate' = TRUE
  /\ UNCHANGED <<confidential, zitadel, secret>>

-----------------------------------------------------------------------------
(* Around it                                                               *)

\* The informer of Secrets catches up.
Observe ==
  /\ ~uptodate /\ cache' = secret /\ uptodate' = TRUE
  /\ UNCHANGED <<confidential, zitadel, secret, due, reconcile, lost, mishaps>>

\* Users: the spec is edited; the application is deleted, or has another name from now
\* on; the Secret is deleted, or another one is named.
Around ==
  /\ mishaps < MaxMishaps /\ mishaps' = mishaps + 1
  /\ \/ due' = TRUE /\ UNCHANGED <<zitadel, kubernetes>>
     \/ app # 0 /\ app' = 0 /\ accepted' = 0 /\ UNCHANGED <<kubernetes, due>>
     \/ secret.exists /\ Write(NoSecret) /\ UNCHANGED <<zitadel, due>>
  /\ UNCHANGED <<confidential, reconcile, lost>>

Reconcile == Find \/ Create \/ Adopt \/ Store \/ StoreClientId \/ Record

Next == Reconcile \/ FindFails \/ Fault \/ Crash \/ Observe \/ Around

Spec == Init /\ [][Next]_vars /\ WF_vars(Reconcile) /\ WF_vars(Observe)

-----------------------------------------------------------------------------
(* Properties                                                              *)

\* Zitadel accepts the client secret in the Secret as long as the application exists, but between
\* the generation of another and its storage. Only a secret that was drawn and lost
\* while the Secret held another breaks this (ensureSecret, regenerateAdoptedClientSecret).
StoredSecretWorks ==
  app # 0 /\ secret.key # 0 /\ ~lost => secret.key = accepted \/ (pc = "store" /\ drawn = accepted)

\* Whatever fails, is deleted or was there before, the Secret ends up with the client id and, if
\* the application has one, the client secret that Zitadel accepts, unless one was lost while the
\* Secret held another: the next pass takes the one it finds for the right one (adoption.go).
OutputDelivered ==
  <>[](lost \/ (/\ app # 0 /\ secret.exists /\ secret.client = app
                /\ confidential => secret.key = accepted))
=============================================================================
