SPECIFICATION Spec
CONSTANT Builds <- AllBuilds
INVARIANT RecoversOnlyWithoutCredentials
