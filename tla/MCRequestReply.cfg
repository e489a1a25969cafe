SPECIFICATION FairSpec
CONSTANTS
  r1 = r1
  r2 = r2
  Req = {r1, r2}
  Signal = {s1}
  NoSignal = NoSignal
  Calls <- AnyAndCallback
  MaxExpected = 2
  MaxReplies = 2
INVARIANTS NothingLeaks SettledForItsReason
PROPERTIES SettledOnce ImplementsConversation EveryCallReturns
CHECK_DEADLOCK FALSE
