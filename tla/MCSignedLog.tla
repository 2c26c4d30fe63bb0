----------------------------- MODULE MCSignedLog -----------------------------
\* Two threads append through the runtime's instance, a third one serves the
\* file through an instance of its own.
EXTENDS SignedLog

CONSTANTS w1, w2, reader, runtimeLog, serverLog

MCInstanceOf == [t \in {w1, w2, reader} |->
                   IF t = reader THEN serverLog ELSE runtimeLog]
=============================================================================
