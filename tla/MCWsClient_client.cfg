SPECIFICATION FairToOwner
CONSTANTS Kinds = {"CClient", "CConnect"}
          Senders = {s1, s2}
          MaxSends = 2
          MaxLinks = 3
          MaxEvents = 3
INVARIANTS ReaderFindsItem AnswerIsOwn EmptyOnlyInTheGap OpensAccounted BelievesRightly
PROPERTIES IoComesBack LeavingEnds
CHECK_DEADLOCK FALSE
