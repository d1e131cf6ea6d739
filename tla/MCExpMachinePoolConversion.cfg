CONSTANTS
    Values <- MCValues
    ConditionTo <- MCConditionTo
    ConditionFrom <- MCConditionFrom
    TemplateTo <- MCTemplateTo
    TemplateFrom <- MCTemplateFrom
    StatusTo <- MCStatusTo
    StatusFrom <- MCStatusFrom
SPECIFICATION Spec
INVARIANT SpokeRoundTrip
INVARIANT HubRoundTrip
INVARIANT AutoStatusRoundTrip
