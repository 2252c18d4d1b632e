\* When the topic is full and committed up to the message that is no OTLP object, and no
\* disruption is left, nothing happens any more: no deadlock check.  No symmetry: there is a liveness property.
CONSTANTS
    w1 = w1
    w2 = w2
    Workers = {w1, w2}
    Partitions = {"p"}
    Spans = {"first", "second", "any"}
    SpansAt <- MCSpansAt
    AttrsOf <- MCAttrsOf
    Unwalkable <- MCUnwalkable
    Scorers = {"Bias", "Relevance"}
    SampleRate = "some"
    MaxLog = 3
    MaxDisruptions = 2

SPECIFICATION FairSpec

INVARIANTS
    NoLogOfAFailedMessage
    LoggedTwiceOnlyByRedelivery

PROPERTIES
    CommitsPassOnlyHandled
    EveryMessageIsPassed

CHECK_DEADLOCK FALSE
