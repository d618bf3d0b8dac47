CONSTANTS
    whisper = whisper
    canary = canary
    other = other
    None = None
    NoModel = NoModel
    Candidates = {canary}
    Models = {whisper, canary}
    ServedModel = whisper
    Hints = {350}
    MaxCycles = 2
    Contents = {"empty"}
    Evaluations <- MCEvaluations
    Requests <- MCRequests
    Samples <- MCSamples
    Transcripts <- MCTranscripts
    StubTranscript <- MCStubTranscript
    HelloWorld <- MCHelloWorld
    Plans <- MCPlans
SPECIFICATION Spec
INVARIANT CountsTranscribed
PROPERTIES
    ScoresAreLeastEdits
    DecidedHintIsSet
    CyclesEnd
CHECK_DEADLOCK FALSE
