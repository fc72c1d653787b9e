\* Incremental location of the end of the header block.
CONSTANTS
  CR = CR
  LF = LF
  MaxChunk = 2
  Streams <- MCStreams

SPECIFICATION Spec

INVARIANT TypeOK
PROPERTY ImplementsLocatorContract

\* A response that has been read in full stops the caller: either the end
\* was found or the peer sent no blank line and the caller waits.
CHECK_DEADLOCK FALSE
