------------------------------ MODULE MCAudio ------------------------------
(* Small instances of Audio for TLC. *)
EXTENDS Audio

CONSTANTS main, other,      \* threads that call the Audio_ functions
          x, y              \* frame buffers

OneCaller == {main}
TwoCallers == {main, other}
OnlyOther == {other}
Nobody == {}

TwoBuffers == {x, y}

Both == {"AUDIO_CONTINUE", "AUDIO_STOP"}
Every == {"open", "start", "close"}
=============================================================================
