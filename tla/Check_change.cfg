SPECIFICATION Spec
CONSTANTS
    v1 = v1
    v2 = v2
    v3 = v3
    e1 = e1
    e2 = e2
    cycle = cycle
    layer = layer
    other = other
    ts = ts
    py = py
    rust = rust
    NoRun = NoRun
    Violations = {v1, v2, v3}
    Rules = {cycle, layer}
    Tools = {ts, rust}
    EdgeOf <- MCEdgeOf
    RuleOf <- MCRuleOf
    ToolOf <- MCToolOf
    GateOf <- MCGateOf
    Off = {rust}
    Unresolved = {ts}
    Degraded = {}
    RequireTools = TRUE
    Initial = {ts}
    Added = {ts, rust}
    Waivable = {v2, v3}
INVARIANTS
    TypeOK
    OriginsAreSound
    GreenIsSound
    ExactWhenComplete
PROPERTIES
    DebtIsDeliberate
