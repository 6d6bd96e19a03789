----------------------------- MODULE MCBatches -----------------------------
\* Two batches, and the mixes of producers that TLC looks at.
EXTENDS Batches, TLC

CONSTANTS b1, b2

MCMixes == { b1 :> "transcribe" @@ b2 :> "describe", b1 :> "transcribe" @@ b2 :> "compress" }
=============================================================================
