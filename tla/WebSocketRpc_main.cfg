SPECIFICATION FairSpec
CONSTANTS
  ClientCalls = {c1, c2}
  ServerCalls = {s1, s2, s3}
  WithCallback = {c1, c2, s1}
  Unencodable = {s2}
  Unknown = {s3}
  BadAnswer = {c2}
  Threads = {t1}
  Js = js
  NoCall = NoCall
  MaxId = 2
INVARIANTS TypeOK TableExact ClientCallsRunInOrder CallbacksAreOneTimeUse
PROPERTIES OnlyCompletionRemoves NothingAfterOnClose PromiseKept AnswersArrive CallsArrive
