\* Three requests for two conversations, a cache for one, and one change of the record: the
\* agent is reinstalled or gets another identity in any step of any request.
CONSTANTS
  MaxRequests = 3
  MaxKeys = 2
  SessionMax = 1
  MaxChanges = 1
  None = None
SPECIFICATION Spec
CHECK_DEADLOCK FALSE
INVARIANTS
  TypeOK
  Apart
  AnswersOwn
PROPERTY
  RequestsEnd
