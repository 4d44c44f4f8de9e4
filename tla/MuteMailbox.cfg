\* Two spans a call make a queue of four slots and eight cursor values; nine
\* records lap both.  The producer stops at the bound on records.
SPECIFICATION Spec
CONSTANTS
  MaxSpans = 2
  MaxRecords = 9
INVARIANTS
  NoRecordRace
PROPERTIES
  MailSpec
