CONSTANTS
  Tx = {t1, t2}
  UserItem = {u1}
  NoTx = NoTx
  Nowhere = Nowhere
  Elsewhere = Elsewhere
  MaxUndo = 2
  UndoKept = FALSE
  AnswersLost = FALSE
SPECIFICATION Spec
INVARIANT Discardable
SYMMETRY Symmetry
