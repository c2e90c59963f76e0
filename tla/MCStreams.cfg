\* Streams share nothing but the registry, under fresh ids: one of any kind,
\* with room for two messages in each direction.  Two requests to the file manager,
\* files of up to two parts; two keys and two resizes of a terminal.
SPECIFICATION StreamsSpec
CONSTANTS
  Stream = {i1}
  Buffer = 2
  MaxClicks = 2
  MaxSize = 2
  MaxUpsets = 2
  MaxKeys = 2
  MaxResizes = 2
CONSTRAINT OneReason
INVARIANTS StreamsTypeOK AnswersHold SentIsWhatArrives
PROPERTIES StreamsEnd PageRests SizeIsTold
CHECK_DEADLOCK FALSE
