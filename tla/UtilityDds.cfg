CONSTANTS
  Thread = {w1, w2, w3}
  Nobody = Nobody
  Left = Left
SPECIFICATION Spec
SYMMETRY Threads
INVARIANTS DdInv LeftByCause
PROPERTIES FreesOwn OkMeansDone
