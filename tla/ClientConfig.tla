---------------------------- MODULE ClientConfig ----------------------------
(***************************************************************************)
(* The client configuration Secret and the questions the reconciler asks   *)
(* of it.                                                                  *)
(*                                                                         *)
(* A client configuration is what consumers mount to reach OpenFGA: the    *)
(* API URL, the store, the authorization model and the credentials.  The   *)
(* Secret carries it as JSON, annotated with the hash of the model.        *)
(* Writing it with openfgaconfig.Marshal and reading it back with          *)
(* json.Unmarshal keeps exactly these four fields, so a configuration is   *)
(* the record of the four; JSON that is missing or does not parse is       *)
(* NoData.  An empty string is None.                                       *)
(***************************************************************************)

CONSTANTS None,      \* the empty string: no URL, token, store, model or hash
          NoSecret,  \* the Secret does not exist
          NoData     \* the Secret holds no configuration that parses

\* openfgaconfig.New, as Publish and the reconciler call it.
New(s, store, model) ==
    [url |-> s.url, token |-> s.token, store |-> store, model |-> model]

\* Is there a configuration that parses in the Secret?
HasConfig(secret) == secret # NoSecret /\ secret.data # NoData

\* openFGASettingsFromEnv fails only when the API URL is not set.
SettingsComplete(s) == s.url # None

\* Without a token the configuration must carry no credentials, with one it
\* must carry that token.
CredentialsMatch(config, token) == config.token = token

\* Mutants of Published: only the hash is compared; a blank model goes
\* unnoticed; a store that the environment leaves open is compared too.
PublishedHashOnly(secret, hash, s) ==
    HasConfig(secret) /\ secret.hash = hash /\ secret.data.model # None

PublishedAnyModel(secret, hash, s) ==
    /\ HasConfig(secret) /\ secret.hash = hash /\ secret.data.url = s.url
    /\ s.store = None \/ secret.data.store = s.store
    /\ CredentialsMatch(secret.data, s.token)

PublishedInStore(secret, hash, s) ==
    PublishedAnyModel(secret, hash, s) /\ secret.data.store = s.store /\ secret.data.model # None

\* publishedModelFromSecret: does the Secret already name a model for hash
\* that clients with the settings s can use?
Published(secret, hash, s) ==
    /\ HasConfig(secret)
    /\ secret.hash = hash
    /\ secret.data.url = s.url
    /\ s.store = None \/ secret.data.store = s.store
    /\ secret.data.store # None
    /\ secret.data.model # None
    /\ CredentialsMatch(secret.data, s.token)

\* Mutant of StoreIDFromSecret: the URL is not compared.
StoreIDFromAnySecret(secret, s) == IF HasConfig(secret) THEN secret.data.store ELSE None

\* storeIDFromSecret: the store of the Secret, if it lives at the URL of s.
StoreIDFromSecret(secret, s) ==
    IF HasConfig(secret) /\ secret.data.url = s.url THEN secret.data.store
                                                    ELSE None

\* Mutant of StoreFor: the Secret is not asked.
StoreFromEnv(secret, s) == s.store

\* The store a publication goes to: OPENFGA_STORE_ID before the Secret's.
StoreFor(secret, s) ==
    IF s.store # None THEN s.store ELSE StoreIDFromSecret(secret, s)
=============================================================================
