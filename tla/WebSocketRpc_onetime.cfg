SPECIFICATION Spec
CONSTANTS
  ClientCalls = {c1}
  ServerCalls = {}
  WithCallback = {c1}
  Unencodable = {}
  Unknown = {}
  BadAnswer = {}
  Threads = {t1, t2}
  Js = js
  NoCall = NoCall
  MaxId = 1
INVARIANTS CallbacksAreOneTimeUse
