-------------------------- MODULE ClientSecretsProofs --------------------------
(***************************************************************************)
(* ClientSecrets: the client secret in the output Secret is accepted, unless*)
(* another was drawn and lost.                                             *)
(***************************************************************************)
EXTENDS ClientSecrets, TLAPS

\* A secret in hand is on its way to the Secret, and is the accepted one.
InHand ==
  /\ drawn # 0 <=> pc = "store"
  /\ pc = "store" /\ app # 0 => drawn = accepted

\* A copy that is the latest version is the Secret, and what does not exist holds nothing.
CopyOK ==
  /\ uptodate => cache = secret
  /\ ~cache.exists => cache.key = 0
  /\ ~secret.exists => secret.key = 0

\* An application without a secret never gets one.
NoneIfPlain == ~confidential => /\ secret.key = 0 /\ cache.key = 0
                                /\ pc # "adopt" /\ pc # "store"

IInv == TypeOK /\ InHand /\ CopyOK /\ NoneIfPlain /\ StoredSecretWorks

LEMMA Zero == 0 \in 0..MaxId
  BY ClientSecretsAssumption

LEMMA InitIInv == Init => IInv
<1> SUFFICES ASSUME Init PROVE IInv
  OBVIOUS
<1>1. MaxId \in Nat /\ MaxId # 0 /\ MaxMishaps \in Nat
  BY ClientSecretsAssumption
<1>2. secret \in SecretType
  <2>1. CASE secret = NoSecret
    BY <1>1, <2>1 DEF NoSecret, SecretType
  <2>2. CASE secret = [NoSecret EXCEPT !.exists = TRUE]
    <3>1. secret = [exists |-> TRUE, client |-> 0, key |-> 0]
      BY <2>2 DEF NoSecret
    <3> QED
      BY <1>1, <3>1 DEF SecretType
  <2>3. CASE secret = [exists |-> TRUE, client |-> 1, key |-> IF confidential THEN 1 ELSE 0]
    BY <1>1, <2>3 DEF SecretType
  <2> QED
    BY <2>1, <2>2, <2>3 DEF Init
<1>3. TypeOK
  <2>1. app \in 0..MaxId /\ accepted \in 0..MaxId /\ mishaps \in 0..MaxMishaps
    BY <1>1 DEF Init
  <2> QED
    BY <1>2, <2>1, Zero DEF Init, TypeOK
<1>4. InHand /\ CopyOK
  BY DEF Init, InHand, CopyOK, NoSecret
<1>5. NoneIfPlain /\ StoredSecretWorks
  BY DEF Init, NoneIfPlain, StoredSecretWorks, NoSecret
<1> QED
  BY <1>3, <1>4, <1>5 DEF IInv

\* What a write leaves, if it is of this form, has the Secret's type.
LEMMA WrittenType ==
  ASSUME IInv, NEW i \in 0..MaxId, NEW c \in 0..MaxId
  PROVE  /\ [exists |-> TRUE, client |-> c, key |-> i] \in SecretType
         /\ [cache EXCEPT !.exists = TRUE, !.client = c] \in SecretType
         /\ [cache EXCEPT !.exists = TRUE, !.client = c].key = cache.key
         /\ [cache EXCEPT !.exists = TRUE, !.client = c].exists
         /\ NoSecret \in SecretType /\ NoSecret.key = 0
<1>1. cache \in SecretType
  BY DEF IInv, TypeOK
<1>2. [exists |-> TRUE, client |-> c, key |-> i] \in SecretType
  BY DEF SecretType
<1>3. NoSecret \in SecretType /\ NoSecret.key = 0
  BY Zero DEF SecretType, NoSecret
<1>4. /\ [cache EXCEPT !.exists = TRUE, !.client = c] \in SecretType
      /\ [cache EXCEPT !.exists = TRUE, !.client = c].key = cache.key
      /\ [cache EXCEPT !.exists = TRUE, !.client = c].exists
  BY <1>1 DEF SecretType
<1> QED
  BY <1>2, <1>3, <1>4

\* A reconcile that ends with an error keeps the invariant: if it drops the accepted
\* secret while the Secret holds another, the loss is on record.
LEMMA AbandonStep ==
  ASSUME IInv, Abandon, UNCHANGED <<confidential, app, accepted, secret>>,
         cache' \in {cache, secret}, uptodate' \in {uptodate, TRUE},
         uptodate' => cache' = secret, mishaps' \in 0..MaxMishaps
  PROVE  IInv'
<1>1. TypeOK'
  BY Zero DEF IInv, TypeOK, Abandon, Return
<1>2. InHand' /\ CopyOK' /\ NoneIfPlain'
  BY DEF IInv, InHand, CopyOK, NoneIfPlain, Abandon, Return
<1>3. StoredSecretWorks'
  BY DEF IInv, InHand, StoredSecretWorks, Abandon, Return
<1> QED
  BY <1>1, <1>2, <1>3 DEF IInv

LEMMA FindStep == IInv /\ (Find \/ FindFails) => IInv'
<1> SUFFICES ASSUME IInv, Find \/ FindFails PROVE IInv'
  OBVIOUS
<1>1. mishaps' \in 0..MaxMishaps
  BY ClientSecretsAssumption DEF IInv, TypeOK, Find, FindFails
<1>2. TypeOK'
  BY <1>1, Zero DEF IInv, TypeOK, Find, FindFails, Continue, zitadel, kubernetes
<1>3. InHand' /\ CopyOK' /\ NoneIfPlain' /\ StoredSecretWorks'
  BY DEF IInv, InHand, CopyOK, NoneIfPlain, StoredSecretWorks, Find, FindFails, Continue,
         zitadel, kubernetes
<1> QED
  BY <1>2, <1>3 DEF IInv

LEMMA CreateStep == IInv /\ Create => IInv'
<1> SUFFICES ASSUME IInv, Create PROVE IInv'
  OBVIOUS
<1>1. CASE app = 0 /\ \E i \in Ids : Draw(i) /\ app' = i /\ accepted' = i /\ found' = i
  <2>1. PICK i \in Ids : app' = i /\ accepted' = i /\ found' = i
    BY <1>1
  <2>2. i \in 0..MaxId /\ i # 0
    BY ClientSecretsAssumption DEF Ids
  <2>3. CASE confidential /\ Continue("store", app') /\ UNCHANGED <<due, lost>>
    <3>1. TypeOK'
      BY <2>1, <2>2, <2>3 DEF IInv, TypeOK, Create, Continue, kubernetes
    <3>2. InHand' /\ CopyOK' /\ NoneIfPlain' /\ StoredSecretWorks'
      BY <2>1, <2>2, <2>3 DEF IInv, InHand, CopyOK, NoneIfPlain, StoredSecretWorks, Create,
                              Continue, kubernetes
    <3> QED
      BY <3>1, <3>2 DEF IInv
  <2>4. CASE ~confidential /\ Continue("client", 0) /\ UNCHANGED <<due, lost>>
    <3>1. TypeOK'
      BY <2>1, <2>2, <2>4, ClientSecretsAssumption DEF IInv, TypeOK, Create, Continue, kubernetes
    <3>2. InHand' /\ CopyOK' /\ NoneIfPlain' /\ StoredSecretWorks'
      BY <2>1, <2>2, <2>4 DEF IInv, InHand, CopyOK, NoneIfPlain, StoredSecretWorks, Create,
                              Continue, kubernetes
    <3> QED
      BY <3>1, <3>2 DEF IInv
  <2> QED
    BY <1>1, <2>3, <2>4 DEF Create
<1>2. CASE app # 0 /\ Abandon /\ UNCHANGED zitadel
  BY <1>2, AbandonStep DEF IInv, TypeOK, CopyOK, Create, zitadel, kubernetes
<1> QED
  BY <1>1, <1>2 DEF Create

LEMMA AdoptStep == IInv /\ Adopt => IInv'
<1> SUFFICES ASSUME IInv, Adopt PROVE IInv'
  OBVIOUS
<1>1. CASE Held /\ Continue("client", 0) /\ UNCHANGED <<zitadel, due, found, lost>>
  <2>1. TypeOK'
    BY <1>1, ClientSecretsAssumption DEF IInv, TypeOK, Adopt, Continue, zitadel, kubernetes
  <2>2. InHand' /\ CopyOK' /\ NoneIfPlain' /\ StoredSecretWorks'
    BY <1>1 DEF IInv, InHand, CopyOK, NoneIfPlain, StoredSecretWorks, Adopt, Continue,
                zitadel, kubernetes
  <2> QED
    BY <2>1, <2>2 DEF IInv
<1>2. CASE /\ \E i \in Ids : Draw(i) /\ accepted' = i /\ Continue("store", i)
           /\ UNCHANGED <<app, due, found, lost>>
  <2>1. PICK i \in Ids : accepted' = i /\ Continue("store", i)
    BY <1>2
  <2>2. i \in 0..MaxId /\ i # 0
    BY ClientSecretsAssumption DEF Ids
  <2>3. TypeOK'
    BY <1>2, <2>1, <2>2 DEF IInv, TypeOK, Adopt, Continue, kubernetes
  <2>4. InHand' /\ CopyOK' /\ NoneIfPlain' /\ StoredSecretWorks'
    BY <1>2, <2>1, <2>2 DEF IInv, InHand, CopyOK, NoneIfPlain, StoredSecretWorks, Adopt,
                            Continue, kubernetes
  <2> QED
    BY <2>3, <2>4 DEF IInv
<1>3. CASE ~Held /\ app # found /\ Abandon /\ UNCHANGED zitadel
  BY <1>3, AbandonStep DEF IInv, TypeOK, CopyOK, Adopt, zitadel, kubernetes
<1> QED
  BY <1>1, <1>2, <1>3 DEF Adopt

LEMMA StoreStep == IInv /\ Store => IInv'
<1> SUFFICES ASSUME IInv, Store PROVE IInv'
  OBVIOUS
<1>1. CASE /\ Accepted /\ Write(Stored(cache))
           /\ Continue("record", 0) /\ UNCHANGED <<due, found, lost>>
  <2>1. Stored(cache) \in SecretType /\ Stored(cache).key = drawn /\ Stored(cache).exists
    BY WrittenType DEF IInv, TypeOK, Stored
  <2>2. TypeOK'
    BY <1>1, <2>1, Zero DEF IInv, TypeOK, Store, Write, Continue, zitadel
  <2>3. InHand' /\ CopyOK' /\ NoneIfPlain' /\ StoredSecretWorks'
    BY <1>1, <2>1 DEF IInv, InHand, CopyOK, NoneIfPlain, StoredSecretWorks, Store, Write,
                      Continue, zitadel
  <2> QED
    BY <2>2, <2>3 DEF IInv
<1>2. CASE ~Accepted /\ Abandon /\ UNCHANGED kubernetes
  BY <1>2, AbandonStep DEF IInv, TypeOK, CopyOK, Store, zitadel, kubernetes
<1> QED
  BY <1>1, <1>2 DEF Store

LEMMA StoreClientIdStep == IInv /\ StoreClientId => IInv'
<1> SUFFICES ASSUME IInv, StoreClientId PROVE IInv'
  OBVIOUS
<1> DEFINE new == [cache EXCEPT !.exists = TRUE, !.client = found]
<1>1. new \in SecretType /\ new.key = cache.key /\ new.exists
  BY WrittenType DEF IInv, TypeOK
<1>2. CASE /\ new = cache \/ Accepted
           /\ IF new = cache THEN UNCHANGED kubernetes ELSE Write(new)
           /\ Continue("record", 0) /\ UNCHANGED <<due, found, lost>>
  <2> HIDE DEF new
  <2>1. CASE UNCHANGED kubernetes
    <3>1. TypeOK'
      BY <1>2, <2>1, ClientSecretsAssumption
      DEF IInv, TypeOK, StoreClientId, Continue, zitadel, kubernetes
    <3>2. InHand' /\ CopyOK' /\ NoneIfPlain' /\ StoredSecretWorks'
      BY <1>2, <2>1 DEF IInv, InHand, CopyOK, NoneIfPlain, StoredSecretWorks, StoreClientId,
                        Continue, zitadel, kubernetes
    <3> QED
      BY <3>1, <3>2 DEF IInv
  <2>2. CASE Accepted /\ Write(new)
    \* An accepted write keeps the secret that is there.
    <3>1. new.key = secret.key
      BY <1>1, <2>2 DEF IInv, CopyOK, Accepted
    <3>2. TypeOK'
      BY <1>1, <1>2, <2>2, Zero
      DEF IInv, TypeOK, StoreClientId, Write, Continue, zitadel
    <3>3. InHand' /\ CopyOK' /\ NoneIfPlain' /\ StoredSecretWorks'
      BY <1>1, <1>2, <2>2, <3>1
      DEF IInv, InHand, CopyOK, NoneIfPlain, StoredSecretWorks, StoreClientId, Write, Continue,
          zitadel
    <3> QED
      BY <3>2, <3>3 DEF IInv
  <2> QED
    BY <1>2, <2>1, <2>2
<1>3. CASE ~Accepted /\ Abandon /\ UNCHANGED kubernetes
  BY <1>3, AbandonStep DEF IInv, TypeOK, CopyOK, StoreClientId, zitadel, kubernetes
<1> QED
  BY <1>2, <1>3 DEF StoreClientId

LEMMA RecordStep == IInv /\ Record => IInv'
<1> SUFFICES ASSUME IInv, Record PROVE IInv'
  OBVIOUS
<1>1. TypeOK'
  BY ClientSecretsAssumption DEF IInv, TypeOK, Record, Return, zitadel, kubernetes
<1>2. InHand' /\ CopyOK' /\ NoneIfPlain' /\ StoredSecretWorks'
  BY DEF IInv, InHand, CopyOK, NoneIfPlain, StoredSecretWorks, Record, Return, zitadel, kubernetes
<1> QED
  BY <1>1, <1>2 DEF IInv

LEMMA FailureStep == IInv /\ (Fault \/ Crash) => IInv'
<1> SUFFICES ASSUME IInv, Fault \/ Crash PROVE IInv'
  OBVIOUS
<1>1. mishaps' \in 0..MaxMishaps
  BY ClientSecretsAssumption DEF IInv, TypeOK, Fault, Crash
<1>2. Abandon /\ UNCHANGED <<confidential, app, accepted, secret>>
  BY DEF Fault, Crash, zitadel, kubernetes
<1>3. CASE Fault
  <2>1. UNCHANGED <<cache, uptodate>>
    BY <1>3 DEF Fault, kubernetes
  <2> QED
    BY <1>1, <1>2, <2>1, AbandonStep DEF IInv, CopyOK
<1>4. CASE Crash
  BY <1>1, <1>2, <1>4, AbandonStep DEF Crash
<1> QED
  BY <1>3, <1>4

LEMMA ObserveStep == IInv /\ Observe => IInv'
<1> SUFFICES ASSUME IInv, Observe PROVE IInv'
  OBVIOUS
<1>1. TypeOK'
  BY DEF IInv, TypeOK, Observe, zitadel, reconcile
<1>2. InHand' /\ CopyOK' /\ NoneIfPlain' /\ StoredSecretWorks'
  BY DEF IInv, InHand, CopyOK, NoneIfPlain, StoredSecretWorks, Observe, zitadel, reconcile
<1> QED
  BY <1>1, <1>2 DEF IInv

LEMMA AroundStep == IInv /\ Around => IInv'
<1> SUFFICES ASSUME IInv, Around PROVE IInv'
  OBVIOUS
<1>1. mishaps' \in 0..MaxMishaps
  BY ClientSecretsAssumption DEF IInv, TypeOK, Around
<1>2. NoSecret \in SecretType /\ NoSecret.key = 0
  BY Zero DEF SecretType, NoSecret
<1>3. TypeOK'
  BY <1>1, <1>2, Zero
  DEF IInv, TypeOK, Around, Write, zitadel, kubernetes, reconcile
<1>4. InHand' /\ CopyOK' /\ NoneIfPlain' /\ StoredSecretWorks'
  BY <1>2 DEF IInv, InHand, CopyOK, NoneIfPlain, StoredSecretWorks, Around, Write,
              zitadel, kubernetes, reconcile
<1> QED
  BY <1>3, <1>4 DEF IInv

\* The invariant holds in every reachable state.
THEOREM Inductive == Spec => []IInv
<1>1. Init => IInv
  BY InitIInv
<1>2. IInv /\ [Next]_vars => IInv'
  <2> SUFFICES ASSUME IInv, [Next]_vars PROVE IInv'
    OBVIOUS
  <2>1. CASE Find \/ FindFails
    BY <2>1, FindStep
  <2>2. CASE Create
    BY <2>2, CreateStep
  <2>3. CASE Adopt
    BY <2>3, AdoptStep
  <2>4. CASE Store
    BY <2>4, StoreStep
  <2>5. CASE StoreClientId
    BY <2>5, StoreClientIdStep
  <2>6. CASE Record
    BY <2>6, RecordStep
  <2>7. CASE Fault \/ Crash
    BY <2>7, FailureStep
  <2>8. CASE Observe
    BY <2>8, ObserveStep
  <2>9. CASE Around
    BY <2>9, AroundStep
  <2>10. CASE UNCHANGED vars
    BY <2>10 DEF IInv, TypeOK, InHand, CopyOK, NoneIfPlain, StoredSecretWorks, vars, zitadel,
                 kubernetes, reconcile
  <2> QED
    BY <2>1, <2>2, <2>3, <2>4, <2>5, <2>6, <2>7, <2>8, <2>9, <2>10 DEF Next, Reconcile
<1> QED
  BY <1>1, <1>2, PTL DEF Spec

\* As long as the application exists, Zitadel accepts the client secret in its Secret, unless another
\* was drawn and lost: neither a stale cache nor a crash nor a failed call does any other harm.
THEOREM StoredSecretsWork == Spec => []StoredSecretWorks
<1>1. IInv => StoredSecretWorks
  BY DEF IInv
<1> QED
  BY <1>1, Inductive, PTL
=============================================================================
