\* A primary, two fallbacks and one without credentials; an agent stream and an Ask stream share them.
CONSTANTS
    primary = primary
    keyless = keyless
    first = first
    second = second
    Providers = {primary, keyless, first, second}
    Selectable = {primary}
    Keyed = {primary, first, second}
    None = None
    Chains <- MCChains
    AgentStreams = {agent}
    AskStreams = {ask}
    Reasons = {"timeout", "rate_limit", "unknown"}
SPECIFICATION Spec
INVARIANTS TypeOK HealthCoherent
PROPERTIES FallbackIsFit GivesUpOnlyToProbe CooldownsAreOwn
