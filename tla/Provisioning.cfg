SPECIFICATION Spec
CONSTANT Builds <- AllBuilds
INVARIANTS TypeOK StorageReady StartedIsProvisioned FccOnlyWhileUp CleanStartSucceeds
PROPERTIES CredentialsSurvive
