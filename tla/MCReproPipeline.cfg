SPECIFICATION PipelineSpec
CONSTANTS
    Settings <- MCSettings
    DemoStepsFail = FALSE
    Standalone = FALSE
    Again = FALSE
    EdgePQ <- MCEdgePQ
    Fp16 <- MCFp16
    Q2 <- MCQ2
    Checkpoint <- MCCheckpoint
    Tokenizer <- MCTokenizer
    Damaged <- MCDamaged
INVARIANTS
    ReuseMatches
    PlotMatches
    EdgePQPrepared
    MeasuredAsPinned
