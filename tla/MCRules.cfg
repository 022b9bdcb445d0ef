SPECIFICATION RulesSpec
CONSTANTS
    ID = {"a", "b", "c", "d"}
    Graphs <- SmallGraphs
    Agent = {"m1", "m2", "b"}
    Space <- SpaceOf
    Uses <- UsesOf
    Key = {"k"}
    Fact = {"x", "y"}
    Buffer = {"b1", "b2"}
    Port = {"p", "q"}
    Symbol = {"x", "y"}
    MaxText = 2
    MaxTasks = 1
    Teams = {{"b"}, {"m1", "m2"}}
    Schemas = {{"_superagent_memory"}, {"_superagent_memory", "_memory_in"}}
INVARIANTS
    CycleFound
    AcceptedIsOrdered
    GroupsAreLayers
    OrderIsTopological
    ParsesBack
    SameAcrossJSON
    TemplatesParse
    AcceptedStarts
PROPERTIES
    FinalizedKept
CHECK_DEADLOCK FALSE
