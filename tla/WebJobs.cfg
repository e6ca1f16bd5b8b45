\* Two tasks, so that one runs while the other is read, and a reader that may leave one
\* for the other and come back: readers meet only in a journal.
CONSTANTS
  Jobs = {j1, j2}
  Readers = {r1}
  MaxNotes = 2
SPECIFICATION FairSpec
INVARIANTS
  LookupConfirmsStream
  DenialFails
PROPERTIES
  StreamsFollowJournal
  EveryStreamEnds
