CONSTANT Values <- MCValues
SPECIFICATION Spec
INVARIANT HubRoundTrip
PROPERTY HubOnlyPreserved ReadYourWrites
