\* A turn ends by itself, another is committed when the microphone closes.
SPECIFICATION StreamSpec
CONSTANTS
  Words = {word}  Hum = Hum  MaxChunks = 2  MaxReplays = 1
INVARIANT TailIsAwaited
\* A stream ends.
CHECK_DEADLOCK FALSE
