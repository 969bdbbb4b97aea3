SPECIFICATION Spec

CONSTANTS
    None = None
    Pipelines = {"main", "sub"}
    GroupNames <- GroupsOf
    AgentNames <- AgentsOf
    Parts <- AllParts
    Prefix <- Library
    Policies <- PoliciesOf
    MaxGroups <- GroupsAt
    MaxAgents <- AgentsAt

INVARIANT TypeOK
INVARIANT AcceptedPipelinesCompile
PROPERTY EmbeddingKeepsOrder

\* The caller stops at MaxGroups and MaxAgents.
CHECK_DEADLOCK FALSE
